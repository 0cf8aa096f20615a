------------------------- MODULE ZSocket_proofs -----------------------------
(***************************************************************************)
(* The theorems about the event loop of zsocket.c.                         *)
(*                                                                         *)
(* Those that follow from IInv come first.  Each of the others rests on an *)
(* invariant of its own, which IInv and the kinds of steps of ZSocket_steps*)
(* carry through a step:                                                   *)
(*                                                                         *)
(*   Roles, Kept    which socket and which cursor has which part; nothing  *)
(*                  is leaked                                              *)
(*   Attended       a closing server comes past all its connections        *)
(*   Counting       the countdown of the scan against its events           *)
(*   Exact          the counters of zsocket_status                         *)
(*   Sorted         the order of the list against the ports                *)
(*   Flags          the state of a socket against the watched descriptors  *)
(***************************************************************************)
EXTENDS ZSocket_steps

(* zsocket.c keeps IInv in every step: each call of the interface, each    *)
(* callback and each point of zsocket_poll and zsocket_do_close.           *)
THEOREM Invariance == Spec => []IInv
<1>1. IInv /\ [Next]_vars => IInv'
  BY EveryStep
<1> QED BY Initially, <1>1, PTL DEF Spec

-----------------------------------------------------------------------------
(* What follows from it.                                                   *)

(* Every variable of the event loop keeps its type: the state of every     *)
(* socket that zsocket.c handles, its list and its counters.               *)
THEOREM SocketTyping == Spec => []TypeOK
<1>1. IInv => TypeOK
  BY DEF IInv, DataInv, ControlInv, TypeOK
<1> QED BY Invariance, <1>1, PTL

(* zsocket_close takes a descriptor out of both fd sets and __zsocket_close*)
(* closes it only later, so select() is never given a closed descriptor or *)
(* one that a closing socket holds, and no two sockets share one.          *)
THEOREM Watching == Spec => []WatchedAreUsable
<1>1. IInv => WatchedAreUsable
  BY DEF IInv, DataInv
<1> QED BY Invariance, <1>1, PTL

(* The bounds that zsocket_read_start and zsocket_write raise and that     *)
(* zsocket_close and zsocket_read_stop lower by at most one stay above     *)
(* every descriptor of their sets.                                         *)
THEOREM Bounds == Spec => []NfdsCovers
<1>1. IInv => NfdsCovers
  BY DEF IInv, DataInv
<1> QED BY Invariance, <1>1, PTL

(* list_add on opening and list_del in __zsocket_close keep the list equal *)
(* to the set of open sockets, without repetition, at every point where    *)
(* neither of them is under way.                                           *)
THEOREM Listing == Spec => []ListHoldsOpen
<1>1. IInv => ListHoldsOpen
  BY DEF IInv, DataInv, ControlInv, ListHoldsOpen, OpenSet
<1> QED BY Invariance, <1>1, PTL

(* The list loops of zsocket_poll, zsocket_do_close and __zsocket_close,   *)
(* with the callbacks they run, never hold a socket that left the list.    *)
THEOREM Traversal == Spec => []TraversalSafe
<1>1. IInv => TraversalSafe
  BY DEF IInv, ControlInv
<1> QED BY Invariance, <1>1, PTL

(* zsocket_handle_recv never passes recv() a length of 0, whatever a       *)
(* callback leaves unread and whichever allocation fails.                  *)
THEOREM Room == Spec => []RecvHasRoom
<1>1. IInv => RecvHasRoom
  BY DEF IInv, RoomInv, RecvHasRoom
<1> QED BY Invariance, <1>1, PTL

(* The write buffer exists wherever zsocket_write and zsocket_handle_send  *)
(* use it, and __zsocket_close leaves no buffer behind.                    *)
THEOREM Ownership == Spec => []BuffersOwned
<1>1. IInv => BuffersOwned
  BY DEF IInv, DataInv
<1> QED BY Invariance, <1>1, PTL

(* Although "state &= flag" clears every other flag on five lines of       *)
(* zsocket.c, EOF included, no step as a whole revives a closed socket.    *)
THEOREM EofFinal == Spec => EofIsFinal
<1>1. IInv /\ [Next]_vars => [\A s \in Sock : Eof(s) => Eof(s)' \/ sk'[s] = Fresh]_vars
  BY EveryStep
<1> QED BY Invariance, <1>1, PTL DEF Spec, EofIsFinal

-----------------------------------------------------------------------------
(* Allocated connections.                                                  *)

(* Which sockets may have which type, and which cursors are in use where.  *)
Roles ==
  /\ \A s \in Heap : sk[s].type \in {"none", "connection"}
  /\ \A s \in User : sk[s].type # "connection"
  /\ pc \in {"conn_cb", "cascade"} => sk[cursor].type = "server"
  /\ pc \notin {"cascade", "halt"} => peer = NoSock
  /\ pc \notin {"cascade", "release", "halt"} => nxt = NoSock
  /\ pc \in {"cascade", "release"} /\ ~in_looping => nxt = NoSock
  /\ pc = "app" => cursor = NoSock
  /\ pc = "halt" => /\ {cursor, nxt, peer} \cap Heap \subseteq Listed
                    /\ \A s \in Heap : IsOpen(s) => s \in Listed

(* What IInv says of the cursors and the list.                             *)
LEMMA Facts ==
  ASSUME IInv
  PROVE  /\ sk \in [Sock -> Socket] /\ heap \subseteq Heap /\ GoodList /\ Listed \subseteq Sock
         /\ NoSock \notin Sock /\ Sock = User \cup Heap /\ User \cap Heap = {}
         /\ in_looping \in BOOLEAN /\ pc \in Place
         /\ pc \notin {"halt", "cascade", "release"} => Listed = OpenSet
         /\ pc \in {"cascade", "release"} => /\ Listed = OpenSet \ {cursor} /\ cursor \in OpenSet
                                             /\ nxt \in Listed \cup {NoSock}
         /\ pc = "cascade" => peer \in Listed \cup {NoSock}
         /\ pc \in {"reap", "cascade", "release"} => cursor \in Sock /\ IsOpen(cursor) /\ Eof(cursor)
         /\ pc \in {"conn_cb", "read_cb", "send", "next", "reap"} => cursor \in Listed
         /\ pc \in {"recv", "sweep"} => cursor \in Listed \cup {NoSock}
         /\ pc \in Looping => in_looping
BY ZSocketAssumption DEF IInv, DataInv, ControlInv, TraversalSafe, Releasing, GoodList, Sock,
   OpenSet, Listed, ToSet

(* What each kind of step does to the list.                                *)
LEMMA ListKept ==
  ASSUME IInv, NEW s \in Sock
  PROVE  /\ Opens(s) => Listed' = Listed \cup {s}
         /\ Closes(s) \/ Resets(s) => Listed' = Listed
         /\ socks' = socks => Listed' = Listed
         /\ Reaping => Listed' = Listed \ {cursor}
<1>1. Opens(s) => Listed' = Listed \cup {s}
  BY Facts, RestAdd DEF Opens
<1>2. Reaping => Listed' = Listed \ {cursor}
  BY Facts, RestWithout DEF Reaping
<1> QED BY <1>1, <1>2 DEF Closes, Resets, Listed

(* zsocket.c starts with no socket.                                        *)
LEMMA RolesInit ==
  ASSUME Init
  PROVE  Roles
BY ZSocketAssumption DEF Init, Roles, Fresh, Sock

(* A socket that is initialised or released has no descriptor.             *)
LEMMA ReleasedFields ==
  ASSUME NEW r
  PROVE  /\ Fresh.fd = NoFd /\ Fresh.type = "none" /\ Fresh.port = NoPort /\ Fresh.state = {}
         /\ Released(r).fd = NoFd /\ Released(r).type = r.type /\ Released(r).state = {"EOF"}
BY DEF Fresh, Released

(* Every step keeps the roles.                                             *)
LEMMA RolesStep ==
  ASSUME IInv, IInv', Roles, [Next]_vars
  PROVE  Roles'
<1> DEFINE Typed == /\ \A s \in Heap : sk[s].type \in {"none", "connection"}
                    /\ \A s \in User : sk[s].type # "connection"
           Held == pc = "halt" => /\ {cursor, nxt, peer} \cap Heap \subseteq Listed
                                  /\ \A s \in Heap : IsOpen(s) => s \in Listed
<1>0. Heap \subseteq Sock /\ User \subseteq Sock
  BY DEF Sock
<1>1. ASSUME NEW s \in Sock, Opens(s)
      PROVE  Typed' /\ (InApp /\ Still => Roles')
  <2>1. Typed'
    BY <1>0, <1>1, Facts DEF Roles, Opens, OthersSame
  <2>2. InApp /\ Still => Roles'
    <3> SUFFICES ASSUME InApp, Still PROVE Roles'
      OBVIOUS
    <3>1. pc = "conn_cb" => cursor \in Listed
      BY Facts
    <3>2. pc = "conn_cb" => sk'[cursor] = sk[cursor]
      BY <1>1, <3>1, Facts DEF Opens, OthersSame
    <3> HIDE DEF Typed
    <3> QED BY <2>1, <3>2 DEF Roles, Still, InApp, Typed
  <2> QED BY <2>1, <2>2
<1>2. ASSUME Keeps \/ \E s \in Sock : Closes(s)
      PROVE  /\ Typed' /\ \A t \in Sock : sk'[t].type = sk[t].type /\ (IsOpen(t) <=> IsOpen(t)')
  BY <1>0, <1>2 DEF Roles, Closes, Alike, OthersSame, Keeps, IsOpen
<1>3. ASSUME NEW s \in Sock, Resets(s)
      PROVE  Typed'
  BY <1>0, <1>3, ReleasedFields DEF Roles, Resets, OthersSame
<1>4. CASE Calling
  <2>1. CASE Keeps /\ socks' = socks
    <3>1. pc = "conn_cb" => cursor \in Sock
      BY Facts
    <3>2. Typed' /\ (pc = "conn_cb" => sk'[cursor].type = sk[cursor].type)
      <4>1. Keeps
        BY <2>1
      <4> HIDE DEF Typed
      <4> QED BY <1>2, <3>1, <4>1
    <3> QED BY <1>4, <3>2 DEF Roles, Calling, Still, InApp
  <2>2. ASSUME NEW s \in Sock, Opens(s)
        PROVE  Roles'
    BY <1>1, <1>4, <2>2 DEF Calling
  <2>3. ASSUME NEW s \in Sock, Closes(s)
        PROVE  Roles'
    <3>1. pc = "conn_cb" => cursor \in Sock
      BY Facts
    <3>2. Typed' /\ (pc = "conn_cb" => sk'[cursor].type = sk[cursor].type)
      <4> HIDE DEF Typed
      <4> QED BY <1>2, <2>3, <3>1
    <3> QED BY <1>4, <3>2 DEF Roles, Calling, Still, InApp
  <2>4. ASSUME NEW s \in User, Resets(s)
        PROVE  Roles'
    <3>1. pc = "conn_cb" => sk'[cursor] = sk[cursor]
      BY <2>4, Facts DEF Resets, OthersSame
    <3>2. Typed'
      BY <1>0, <1>3, <2>4
    <3> HIDE DEF Typed
    <3> QED BY <1>4, <3>1, <3>2 DEF Roles, Calling, Still, InApp, Typed
  <2> QED BY <1>4, <2>1, <2>2, <2>3, <2>4 DEF Calling
<1>5. CASE ClosingAlone
  <2>1. Typed'
    BY <1>2, <1>5 DEF ClosingAlone
  <2> HIDE DEF Typed
  <2> QED BY <1>5, <2>1 DEF ClosingAlone, Roles, Typed
<1>6. CASE Halting
  <2>1. Typed'
    BY <1>6 DEF Halting, Roles
  <2>2. Listed' = Listed /\ \A s \in Heap : IsOpen(s) <=> IsOpen(s)'
    BY <1>6 DEF Halting, Listed, IsOpen
  <2>3. {cursor, nxt, peer} \cap Heap \subseteq Listed
    <3>1. pc = "cascade" => cursor \notin Heap
      BY DEF Roles
    <3>2. pc = "app" => cursor = NoSock
      BY DEF Roles
    <3>3. peer \in Listed \cup {NoSock} /\ nxt \in Listed \cup {NoSock}
      BY <1>6, Facts DEF Roles, Halting
    <3>4. NoSock \notin Heap
      BY <1>0, Facts
    <3>5. pc # "cascade" => cursor \in Listed \cup {NoSock}
      BY <1>6, <3>2, Facts DEF Halting
    <3> HIDE DEF Typed
    <3> QED BY <3>1, <3>3, <3>4, <3>5
  <2>4. \A s \in Heap : IsOpen(s) => s \in Listed
    <3>1. \A s \in Heap : IsOpen(s) => s \in OpenSet
      BY <1>0 DEF OpenSet
    <3>2. pc = "cascade" => cursor \notin Heap
      BY DEF Roles
    <3> QED BY <1>6, <3>1, <3>2, Facts DEF Halting
  <2> HIDE DEF Typed
  <2> QED BY <1>6, <2>1, <2>2, <2>3, <2>4 DEF Halting, Roles, Typed
<1>7. CASE Entering
  <2>1. Typed'
    BY <1>2, <1>7, <1>0 DEF Entering, Keeps, Roles, Alike
  <2> HIDE DEF Typed
  <2> QED BY <1>7, <2>1 DEF Entering, Roles, Typed
<1>8. CASE Scanning
  <2>1. pc \in ScanPoint => cursor \in Sock \/ pc = "recv"
    BY Facts DEF ScanPoint
  <2>2. Typed' /\ \A t \in Sock : sk'[t].type = sk[t].type
    <3>1. Keeps \/ (Closes(cursor) /\ cursor \in Sock)
      BY <1>8, Facts DEF Scanning
    <3> QED BY <1>0, <3>1 DEF Keeps, Closes, OthersSame, Alike, Roles
  <2>3. pc' = "conn_cb" => sk'[cursor].type = "server" /\ cursor' = cursor
    <3>1. pc' = "conn_cb" => sk[cursor].type = "server" /\ cursor' = cursor
      BY <1>8 DEF Scanning
    <3>2. pc' = "conn_cb" => cursor \in Sock
      BY <1>8, Facts DEF Scanning
    <3> QED BY <2>2, <3>1, <3>2
  <2> HIDE DEF Typed
  <2> QED BY <1>8, <2>2, <2>3 DEF Scanning, Roles, Typed, ScanPoint
<1>9. CASE Leaving
  <2>1. Typed'
    BY <1>2, <1>9 DEF Leaving
  <2> HIDE DEF Typed
  <2> QED BY <1>9, <2>1 DEF Leaving, Roles, Typed
<1>10. CASE TimingOut
  <2>1. Typed'
    BY <1>2, <1>10, Facts DEF TimingOut
  <2> HIDE DEF Typed
  <2> QED BY <1>10, <2>1 DEF TimingOut, Roles, Typed
<1>11. CASE Passing
  <2>1. Typed'
    BY <1>2, <1>11 DEF Passing
  <2> HIDE DEF Typed
  <2> QED BY <1>11, <2>1 DEF Passing, Roles, Typed
<1>12. CASE Reaping
  <2>1. Typed' /\ sk'[cursor].type = sk[cursor].type
    BY <1>2, <1>12, Facts DEF Reaping
  <2> HIDE DEF Typed
  <2> QED BY <1>12, <2>1 DEF Reaping, Roles, Typed
<1>13. CASE Cascading
  <2>1. Keeps \/ \E s \in Sock : Closes(s)
    BY <1>13, Facts DEF Cascading, SamePort
  <2>2. Typed' /\ sk'[cursor].type = sk[cursor].type
    BY <1>2, <1>13, <2>1, Facts DEF Cascading
  <2> HIDE DEF Typed
  <2> QED BY <1>13, <2>2 DEF Cascading, Roles, Typed
<1>14. CASE Releases
  <2>1. Typed'
    BY <1>3, <1>14, Facts DEF Releases
  <2>2. pc' = "app" => cursor' = NoSock
    BY <1>14, Facts DEF Releases, Roles
  <2> HIDE DEF Typed
  <2> QED BY <1>14, <2>1, <2>2 DEF Releases, Roles, Typed
<1>15. CASE UNCHANGED vars
  <2>1. Typed' /\ Listed' = Listed /\ \A s \in Heap : IsOpen(s) <=> IsOpen(s)'
    BY <1>15 DEF vars, Roles, Listed, IsOpen
  <2> HIDE DEF Typed
  <2> QED BY <1>15, <2>1 DEF vars, Roles, Typed
<1> QED BY <1>4, <1>5, <1>6, <1>7, <1>8, <1>9, <1>10, <1>11, <1>12, <1>13, <1>14, <1>15, Kinds

(* An allocated connection is on the list or about to be freed, unless it  *)
(* was closed outside the loop.                                            *)
Kept ==
  /\ NoLeak
  /\ pc \in {"reap", "cascade", "release"} /\ ~in_looping => sk[cursor].type # "connection"

(* Nothing is allocated at the start.                                      *)
LEMMA KeptInit ==
  ASSUME Init
  PROVE  Kept
BY DEF Init, Kept, NoLeak

(* Every step keeps the allocated connections on the list, unless the      *)
(* application closes one outside the loop.                                *)
LEMMA KeptStep ==
  ASSUME IInv, IInv', Roles, Roles', Kept, [Next]_vars, "conn_close" \notin Env
  PROVE  Kept'
<1>1. heap \subseteq Listed \cup Releasing /\ heap \subseteq Sock
  BY Facts DEF Kept, NoLeak
<1>2. CASE Calling
  <2>1. ASSUME NEW s \in Sock, Opens(s)
        PROVE  heap' \subseteq Listed'
    BY <1>1, <1>2, <2>1, ListKept DEF Calling, InApp, Releasing, Opens
  <2>2. ASSUME Keeps /\ socks' = socks
        PROVE  heap' \subseteq Listed'
    BY <1>1, <1>2, <2>2 DEF Calling, InApp, Releasing, Keeps, Listed
  <2>3. ASSUME NEW s \in Sock, Closes(s)
        PROVE  heap' \subseteq Listed'
    BY <1>1, <1>2, <2>3, ListKept DEF Calling, InApp, Releasing, Closes
  <2>4. ASSUME NEW s \in User, Resets(s), heap' = heap
        PROVE  heap' \subseteq Listed'
    BY <1>1, <1>2, <2>4, ListKept DEF Calling, InApp, Releasing, Sock
  <2> QED BY <1>2, <2>1, <2>2, <2>3, <2>4 DEF Calling, InApp, Still, Kept, NoLeak
<1>3. CASE ClosingAlone
  <2>1. PICK s \in Sock : /\ cursor' = s /\ Closes(s)
                          /\ sk[s].type # "connection"
    BY <1>3 DEF ClosingAlone
  <2>2. sk'[s].type # "connection" /\ Listed' = Listed /\ heap' = heap
    BY <2>1, ListKept DEF Closes, Alike
  <2> QED BY <1>1, <1>3, <2>1, <2>2 DEF ClosingAlone, Releasing, Kept, NoLeak
<1>4. CASE Halting
  <2>1. pc = "cascade" => cursor \notin heap
    BY Facts DEF Roles
  <2> QED BY <1>1, <1>4, <2>1 DEF Halting, Kept, NoLeak, Releasing, Listed
<1>5. CASE Entering \/ Leaving \/ Passing
  <2>1. heap' = heap /\ Listed' = Listed /\ Releasing = {} /\ Releasing' = {}
    BY <1>5 DEF Entering, Leaving, Passing, Keeps, Listed, Releasing
  <2>2. pc \in {"app", "sweep"} /\ pc' \notin {"cascade", "release"}
    BY <1>5 DEF Entering, Leaving, Passing
  <2>3. pc' = "reap" => in_looping'
    BY <1>5, Facts DEF Entering, Leaving, Passing, Looping
  <2> QED BY <1>1, <2>1, <2>2, <2>3 DEF Kept, NoLeak
<1>6. CASE Scanning \/ TimingOut
  <2>1. pc \notin {"cascade", "release"} /\ pc' \notin {"cascade", "release"}
    BY <1>6 DEF Scanning, TimingOut, ScanPoint
  <2>2. heap' = heap /\ Listed' = Listed
    BY <1>6, Facts, ListKept DEF Scanning, TimingOut, Keeps, Closes, Listed
  <2>3. pc' = "reap" => in_looping'
    BY <1>6, Facts DEF Scanning, TimingOut, ScanPoint, Looping
  <2> QED BY <1>1, <2>1, <2>2, <2>3 DEF Kept, NoLeak, Releasing
<1>7. CASE Reaping
  <2>1. heap' = heap /\ Listed' = Listed \ {cursor} /\ Releasing = {} /\ Releasing' = {cursor}
    BY <1>7, Facts, ListKept DEF Reaping, Keeps, Releasing
  <2>2. sk'[cursor].type = sk[cursor].type
    BY <1>7, Facts DEF Reaping, Keeps, Alike
  <2> QED BY <1>1, <1>7, <2>1, <2>2 DEF Reaping, Kept, NoLeak
<1>8. CASE Cascading
  <2>1. Listed' = Listed /\ heap' = heap /\ Releasing' = Releasing
    BY <1>8 DEF Cascading, Closes, Keeps, Listed, Releasing
  <2>2. sk'[cursor].type = sk[cursor].type
    BY <1>8, Facts DEF Cascading, Keeps, Closes, Alike, OthersSame, SamePort
  <2> QED BY <1>1, <1>8, <2>1, <2>2 DEF Cascading, Kept, NoLeak
<1>9. CASE Releases
  <2>1. Listed' = Listed /\ Releasing = {cursor} /\ Releasing' = {}
    BY <1>9, Facts, ListKept DEF Releases, Releasing
  <2>2. sk[cursor].type # "connection" => cursor \notin heap
    BY <1>9, Facts DEF Releases, Roles, Resets
  <2>3. cursor \notin heap'
    BY <1>9, Facts, <2>2 DEF Releases, Kept
  <2> QED BY <1>1, <1>9, <2>1, <2>3, Facts DEF Releases, Kept, NoLeak
<1>10. CASE UNCHANGED vars
  <2>1. Listed' = Listed /\ Releasing' = Releasing /\ UNCHANGED <<sk, heap, pc, cursor, in_looping>>
    BY <1>10 DEF vars, Listed, Releasing
  <2> QED BY <2>1 DEF Kept, NoLeak
<1> QED BY <1>2, <1>3, <1>4, <1>5, <1>6, <1>7, <1>8, <1>9, <1>10, Kinds

(* As long as the application closes connections only in callbacks, or     *)
(* leaves them to an error, a timeout or their server, every connection    *)
(* that zsocket_accept allocated is on the list until zsocket_do_close     *)
(* frees it: __zsocket_close never drops one that nobody frees.            *)
THEOREM NothingLeaks == ASSUME "conn_close" \notin Env PROVE Spec => []NoLeak
<1>1. Init => Roles /\ Kept
  BY RolesInit, KeptInit
<1>2. IInv /\ IInv' /\ Roles /\ Kept /\ [Next]_vars => Roles' /\ Kept'
  BY RolesStep, KeptStep
<1>3. Kept => NoLeak
  BY DEF Kept
<1> QED BY Invariance, <1>1, <1>2, <1>3, PTL DEF Spec

(* A connection that zsocket_close released outside the loop, which        *)
(* nothing in zsocket.c frees, may be freed by the application: it is off  *)
(* the list, holds no descriptor and no buffer, and no cursor of a list    *)
(* loop is left on it.  This holds whatever goes wrong.                    *)
THEOREM Freeing == Spec => []MayBeFreed
<1>1. Init => Roles
  BY RolesInit
<1>2. IInv /\ IInv' /\ Roles /\ [Next]_vars => Roles'
  BY RolesStep
<1>3. IInv /\ Roles => MayBeFreed
  <2> SUFFICES ASSUME IInv, Roles, NEW c \in heap \ (Listed \cup Releasing)
               PROVE  /\ ~IsOpen(c) /\ sk[c].rbuf = NoBuf /\ sk[c].wbuf = NoBuf
                      /\ c \notin {nxt, peer} /\ (pc # "app" => cursor # c)
    BY DEF MayBeFreed
  <2>1. c \in Sock /\ c \in Heap /\ c # NoSock
    BY Facts
  <2>2. ~IsOpen(c)
    <3>1. IsOpen(c) => c \in OpenSet
      BY <2>1 DEF OpenSet
    <3> QED BY <2>1, <3>1, Facts DEF Roles, Releasing
  <2>3. sk[c].rbuf = NoBuf /\ sk[c].wbuf = NoBuf
    BY <2>1, <2>2 DEF IInv, DataInv, BuffersOwned
  <2>4. c \notin {nxt, peer}
    BY <2>1, Facts DEF Roles
  <2>5. pc # "app" => cursor # c
    BY <2>1, Facts DEF Roles, Releasing, Place
  <2> QED BY <2>2, <2>3, <2>4, <2>5
<1> QED BY Invariance, <1>1, <1>2, <1>3, PTL DEF Spec

-----------------------------------------------------------------------------
(* The connections of a closing server.                                    *)

(* A closing server comes past every socket with its port before it is     *)
(* released.                                                               *)
Attended ==
  /\ NoOrphan
  /\ pc = "cascade" =>
       \A s \in Sock : Usable(s) /\ sk[s].port = sk[cursor].port => s \in Rest(peer)
  /\ pc = "release" /\ sk[cursor].type = "server" =>
       \A s \in Sock : Usable(s) => sk[s].port # sk[cursor].port

(* Nobody is orphaned at the start.                                        *)
LEMMA AttendedInit ==
  ASSUME Init
  PROVE  Attended
BY DEF Init, Attended, NoOrphan, Usable, IsOpen, Fresh

(* Where no socket is opened or released, usable sockets were usable and   *)
(* open ones stay open.                                                    *)
LEMMA SameSockets ==
  ASSUME IInv, Keeps \/ \E s \in Sock : Closes(s)
  PROVE  \A s \in Sock : /\ Alike(s) /\ (IsOpen(s)' <=> IsOpen(s))
                         /\ Eof(s) => Eof(s)'
                         /\ Usable(s)' => Usable(s)
BY DEF Keeps, Closes, Alike, OthersSame, IsOpen, Usable, Eof, NextEof

(* Where no server is released no connection is orphaned.                  *)
LEMMA NoOrphanKept ==
  ASSUME IInv, NoOrphan, Keeps \/ \E s \in Sock : Closes(s)
  PROVE  NoOrphan'
<1> SUFFICES ASSUME NEW c \in Sock, Usable(c)', sk'[c].type = "connection", sk'[c].port # Assigned
             PROVE  \E s \in Sock : IsOpen(s)' /\ sk'[s].type = "server" /\ sk'[s].port = sk'[c].port
  BY DEF NoOrphan
<1>1. Usable(c) /\ sk[c].type = "connection" /\ sk'[c].port = sk[c].port
  BY SameSockets DEF Alike
<1>2. PICK s \in Sock : IsOpen(s) /\ sk[s].type = "server" /\ sk[s].port = sk[c].port
  BY <1>1 DEF NoOrphan
<1>3. IsOpen(s)' /\ sk'[s].type = "server" /\ sk'[s].port = sk[s].port
  BY <1>2, SameSockets DEF Alike
<1> QED BY <1>1, <1>2, <1>3

(* Every step keeps it: a server is released only after the loop of        *)
(* __zsocket_close came past every socket with its port.                   *)
LEMMA AttendedStep ==
  ASSUME IInv, IInv', Roles, Roles', Attended, [Next]_vars
  PROVE  Attended'
<1>1. NoOrphan
  BY DEF Attended
<1>2. CASE Calling
  <2>1. pc' \notin {"cascade", "release"}
    BY <1>2 DEF Calling, Still, InApp
  <2>2. NoOrphan'
    <3>1. ASSUME NEW s \in Sock, Opens(s)
          PROVE  NoOrphan'
      <4>1. /\ ~IsOpen(s) /\ \A t \in Sock \ {s} : sk'[t] = sk[t]
        BY <3>1 DEF Opens, OthersSame, IsOpen, Fresh
      <4>2. ASSUME NEW c \in Sock \ {s}, Usable(c)', sk'[c].type = "connection",
                   sk'[c].port # Assigned
            PROVE  \E t \in Sock : IsOpen(t)' /\ sk'[t].type = "server" /\ sk'[t].port = sk'[c].port
        <5>1. PICK t \in Sock : IsOpen(t) /\ sk[t].type = "server" /\ sk[t].port = sk[c].port
          BY <1>1, <4>1, <4>2 DEF NoOrphan, Usable, IsOpen, Eof
        <5>2. t # s
          BY <4>1, <5>1
        <5> QED BY <4>1, <5>1, <5>2 DEF IsOpen
      <4>3. ASSUME sk'[s].type = "connection", sk'[s].port # Assigned
            PROVE  \E t \in Sock : IsOpen(t)' /\ sk'[t].type = "server" /\ sk'[t].port = sk'[s].port
        <5>1. /\ pc = "conn_cb" /\ Usable(cursor) /\ sk'[s].port = sk[cursor].port
          BY <3>1, <4>3 DEF Opens, LocalPort
        <5>2. cursor \in Sock /\ cursor # s /\ sk[cursor].type = "server"
          BY <4>1, <5>1, Facts DEF Roles, Usable
        <5> QED BY <4>1, <5>1, <5>2 DEF Usable, IsOpen
      <4> QED BY <4>2, <4>3 DEF NoOrphan
    <3>2. ASSUME NEW s \in User, Resets(s), ~IsOpen(s), sk'[s] = Fresh
          PROVE  NoOrphan'
      <4>1. /\ \A t \in Sock \ {s} : sk'[t] = sk[t]
            /\ ~IsOpen(s)'
        BY <3>2 DEF Resets, OthersSame, IsOpen, Fresh
      <4> SUFFICES ASSUME NEW c \in Sock, Usable(c)', sk'[c].type = "connection",
                          sk'[c].port # Assigned
                   PROVE  \E t \in Sock : IsOpen(t)' /\ sk'[t].type = "server" /\ sk'[t].port = sk'[c].port
        BY DEF NoOrphan
      <4>2. c # s /\ sk'[c] = sk[c] /\ Usable(c) /\ sk[c].type = "connection"
        BY <4>1 DEF Usable, IsOpen, Eof
      <4>3. PICK t \in Sock : IsOpen(t) /\ sk[t].type = "server" /\ sk[t].port = sk[c].port
        BY <1>1, <4>2 DEF NoOrphan
      <4>4. t # s
        BY <3>2, <4>3
      <4> QED BY <4>1, <4>2, <4>3, <4>4 DEF IsOpen
    <3> QED BY <1>1, <1>2, <3>1, <3>2, NoOrphanKept DEF Calling
  <2> QED BY <2>1, <2>2 DEF Attended
<1>3. CASE ClosingAlone \/ Entering \/ Scanning \/ Leaving \/ TimingOut \/ Passing
  <2>1. Keeps \/ \E s \in Sock : Closes(s)
    BY <1>3, Facts DEF ClosingAlone, Entering, Scanning, Leaving, TimingOut, Passing
  <2>2. pc' \notin {"cascade", "release"}
    BY <1>3 DEF ClosingAlone, Entering, Scanning, Leaving, TimingOut, Passing, ScanPoint
  <2> QED BY <1>1, <2>1, <2>2, NoOrphanKept DEF Attended
<1>4. CASE Halting
  BY <1>1, <1>4 DEF Halting, Attended, NoOrphan, Usable, IsOpen, Eof
<1>5. CASE Reaping
  <2>1. NoOrphan' /\ Keeps
    BY <1>1, <1>5, NoOrphanKept DEF Reaping
  <2>2. /\ cursor \in Listed /\ Listed = OpenSet /\ Eof(cursor) /\ cursor' = cursor
    BY <1>5, Facts DEF Reaping
  <2>3. GoodList' /\ Listed' = Listed \ {cursor}
    BY <1>5, <2>2, Facts, RestWithout DEF Reaping
  <2>4. ASSUME pc' = "cascade", NEW s \in Sock, Usable(s)'
        PROVE  s \in Rest(peer)'
    <3>1. Usable(s) /\ s # cursor
      BY <2>1, <2>2, <2>4, SameSockets DEF Usable
    <3>2. s \in Listed'
      BY <2>2, <2>3, <3>1 DEF OpenSet, Usable
    <3>3. Rest(peer)' = Rest(First(socks))'
      BY <1>5, <2>4 DEF Reaping, Rest
    <3> QED BY <2>3, <3>2, <3>3, NextRestFirst
  <2>5. pc' = "release" => sk'[cursor'].type # "server"
    BY <1>5, <2>1, <2>2, Facts, SameSockets DEF Reaping, Alike
  <2> QED BY <2>1, <2>4, <2>5 DEF Attended
<1>6. CASE Cascading
  <2>1. /\ pc = "cascade" /\ sk[cursor].type = "server" /\ cursor \in Sock /\ cursor' = cursor
        /\ peer \in Listed \cup {NoSock}
    BY <1>6, Facts DEF Cascading, Roles
  <2>2. CASE Keeps /\ socks' = socks /\ peer = NoSock /\ pc' = "release"
    <3>1. NoOrphan' /\ \A s \in Sock : Alike(s) /\ (Usable(s)' => Usable(s))
      BY <1>1, <2>2, NoOrphanKept, SameSockets
    <3>2. Rest(peer) = {}
      BY <2>2, Facts, RestSelf
    <3> QED BY <2>1, <2>2, <3>1, <3>2 DEF Attended, Alike
  <2>3. CASE /\ Keeps /\ socks' = socks /\ peer # NoSock /\ sk[peer].port # sk[cursor].port
             /\ peer' = After(peer) /\ pc' = pc
    <3>1. NoOrphan' /\ \A s \in Sock : Alike(s) /\ (Usable(s)' => Usable(s))
      BY <1>1, <2>3, NoOrphanKept, SameSockets
    <3>2. Rest(peer) = {peer} \cup Rest(After(peer))
      BY <2>1, <2>3, Facts, RestAfter
    <3>3. Rest(peer)' = Rest(After(peer))
      BY <2>3 DEF Rest, Listed, Index
    <3> QED BY <2>1, <2>3, <3>1, <3>2, <3>3 DEF Attended, Alike
  <2>4. CASE Closes(peer) /\ SamePort /\ peer' = After(peer) /\ pc' = pc
    <3>1. peer \in Sock /\ peer # NoSock /\ peer \in Listed
      BY <2>1, <2>4, Facts DEF SamePort
    <3>2. NoOrphan' /\ \A s \in Sock : Alike(s) /\ (Usable(s)' => Usable(s))
      BY <1>1, <2>4, <3>1, NoOrphanKept, SameSockets
    <3>3. Rest(peer) = {peer} \cup Rest(After(peer)) /\ \A s \in Sock : Usable(s)' => s # peer
      BY <2>4, <3>1, Facts, RestAfter DEF Closes, Usable, Eof, NextEof
    <3>4. Rest(peer)' = Rest(After(peer))
      BY <2>4 DEF Rest, Listed, Index, Closes
    <3> QED BY <2>1, <2>4, <3>2, <3>3, <3>4 DEF Attended, Alike
  <2> QED BY <1>6, <2>2, <2>3, <2>4 DEF Cascading
<1>7. CASE Releases
  <2>1. /\ pc = "release" /\ cursor \in Sock /\ Resets(cursor) /\ pc' \notin {"cascade", "release"}
    BY <1>7, Facts DEF Releases
  <2>2. \A s \in Sock : IsOpen(s)' => s # cursor
    BY <2>1, ReleasedFields DEF Resets, IsOpen
  <2>3. ASSUME NEW c \in Sock, Usable(c)', sk'[c].type = "connection", sk'[c].port # Assigned
        PROVE  \E t \in Sock : IsOpen(t)' /\ sk'[t].type = "server" /\ sk'[t].port = sk'[c].port
    <3>1. c # cursor
      BY <2>2, <2>3 DEF Usable
    <3>2. sk'[c] = sk[c]
      BY <2>1, <3>1 DEF Resets, OthersSame
    <3>3. Usable(c) /\ sk[c].type = "connection" /\ sk[c].port # Assigned
      BY <2>3, <3>2 DEF Usable, IsOpen, Eof
    <3>4. PICK t \in Sock : IsOpen(t) /\ sk[t].type = "server" /\ sk[t].port = sk[c].port
      BY <1>1, <3>3 DEF NoOrphan
    <3>5. t # cursor
      BY <2>1, <3>3, <3>4 DEF Attended
    <3>6. sk'[t] = sk[t]
      BY <2>1, <3>5 DEF Resets, OthersSame
    <3> QED BY <3>2, <3>4, <3>6 DEF IsOpen
  <2> QED BY <2>1, <2>3 DEF Attended, NoOrphan
<1>8. CASE UNCHANGED vars
  <2>1. UNCHANGED <<sk, socks, pc, cursor, peer>>
    BY <1>8 DEF vars
  <2> QED BY <2>1 DEF Attended, NoOrphan, Usable, IsOpen, Eof, Rest, Listed, Index
<1> QED BY <1>2, <1>3, <1>4, <1>5, <1>6, <1>7, <1>8, Kinds

(* The loop of __zsocket_close over the list closes every connection of a  *)
(* closing server that was given a port before the server is gone, wherever*)
(* they are in the list, whatever the callbacks open or close meanwhile,   *)
(* and whatever goes wrong.                                                *)
THEOREM NoneOrphaned == Spec => []NoOrphan
<1>1. Init => Roles /\ Attended
  BY RolesInit, AttendedInit
<1>2. IInv /\ IInv' /\ Roles /\ Attended /\ [Next]_vars => Roles' /\ Attended'
  BY RolesStep, AttendedStep
<1>3. Attended => NoOrphan
  BY DEF Attended
<1> QED BY Invariance, <1>1, <1>2, <1>3, PTL DEF Spec

-----------------------------------------------------------------------------
(* The events of a scan.                                                   *)

(* How many events the scan has not handled yet.                           *)
Pending == Cardinality(sel.read) + Cardinality(sel.write)

(* What the scan does with the events that select() reported.              *)
Gathers ==
  /\ pc = "app" /\ pc' = "recv" /\ cursor' = First(socks)
  /\ sel'.read \subseteq watch.read /\ sel'.write \subseteq watch.write
  /\ sel'.left = Pending'

(* One point of the scan: at most one event is handled, the flag says      *)
(* whether one was, and the countdown follows.                             *)
Consumes ==
  \/ pc = "recv" /\ cursor = NoSock /\ pc' = "sweep" /\ sel' = sel
  \/ /\ pc = "recv" /\ cursor # NoSock /\ sk[cursor].fd \notin sel.read /\ pc' = "send"
     /\ sel' = [sel EXCEPT !.handled = FALSE]
  \/ /\ pc = "recv" /\ cursor # NoSock /\ sk[cursor].fd \in sel.read
     /\ pc' \in {"conn_cb", "read_cb", "send"}
     /\ sel' = [sel EXCEPT !.read = @ \ {sk[cursor].fd}, !.handled = TRUE]
  \/ pc \in {"conn_cb", "read_cb"} /\ pc' = "send" /\ sel' = sel
  \/ pc = "send" /\ sk[cursor].fd \notin sel.write /\ pc' = "next" /\ sel' = sel
  \/ /\ pc = "send" /\ sk[cursor].fd \in sel.write /\ pc' = "next"
     /\ sel' = [sel EXCEPT !.write = @ \ {sk[cursor].fd}, !.handled = TRUE]
  \/ /\ pc = "next"
     /\ sel' = [sel EXCEPT !.left = IF sel.handled THEN sel.left - 1 ELSE sel.left]
     /\ \/ pc' = "sweep" /\ sel.handled /\ sel'.left = 0
        \/ pc' = "recv" /\ cursor' = After(cursor)

(* Every step is one of these, or leaves the events alone.                 *)
LEMMA Events ==
  ASSUME IInv, Next
  PROVE  \/ UNCHANGED <<sel, pc>>
         \/ sel' = sel /\ pc \notin ScanPoint /\ pc' \notin ScanPoint
         \/ pc' = "halt" /\ sel' = sel
         \/ Gathers \/ Consumes
<1>0. sel \in Selected
  BY DEF IInv, ControlInv
<1>1. CASE AppCall
  <2>1. ASSUME NEW s, NEW cb, Close(s, cb)
        PROVE  sel' = sel /\ (pc' = pc \/ (pc \notin ScanPoint /\ pc' \notin ScanPoint))
    <3>1. pc \in ScanPoint => in_looping
      BY DEF IInv, ControlInv, Looping, ScanPoint
    <3>2. sel' = sel
      BY <2>1 DEF Close
    <3>3. InApp /\ (in_looping => pc' = pc) /\ (~in_looping => pc' = "reap")
      BY <2>1 DEF Close
    <3>4. in_looping \in BOOLEAN
      BY Facts
    <3>5. CASE in_looping
      BY <3>2, <3>3, <3>5
    <3>6. CASE ~in_looping
      BY <3>1, <3>2, <3>3, <3>6 DEF ScanPoint
    <3> QED BY <3>4, <3>5, <3>6
  <2>2. ASSUME NEW s, NEW f, NEW p, NEW n,
               Reinit(s) \/ Connect(s, f) \/ ListenOn(s, f, p) \/ Accept(s, f) \/ AcceptFails
                 \/ ReadStart(s) \/ ReadStop(s) \/ FirstWrite(s, n) \/ NextWrite(s, n)
                 \/ DisableTimeout(s)
        PROVE  sel' = sel /\ (pc' = pc \/ pc' = "halt")
    BY <2>2 DEF Reinit, Connect, ListenOn, Accept, AcceptFails, Open, ReadStart, ReadStop,
         FirstWrite, NextWrite, DisableTimeout, control, Abort
  <2>3. (\E s \in Sock, cb \in CloseCb : Close(s, cb)) \/ (sel' = sel /\ (pc' = pc \/ pc' = "halt"))
    BY <1>1, <2>2 DEF AppCall
  <2> QED BY <2>1, <2>3
<1>2. CASE CallLoop
  <2>1. ASSUME NEW R, NEW W, NEW late, R \in SUBSET Below(watch.read),
               W \in SUBSET Below(watch.write), SelectReady(R, W, late)
        PROVE  Gathers
    <3>1. R \subseteq watch.read /\ W \subseteq watch.write
      BY <2>1 DEF Below
    <3> QED BY <2>1, <3>1 DEF SelectReady, EnterLoop, Gathers, Pending
  <2>2. ASSUME NEW late, SelectNothing(late) \/ SelectFails
        PROVE  sel' = sel /\ pc \notin ScanPoint /\ pc' \notin ScanPoint
    BY <2>2 DEF SelectNothing, SelectFails, EnterLoop, ScanPoint
  <2> QED BY <1>2, <2>1, <2>2 DEF CallLoop
<1>3. CASE CallbackReturns
  BY <1>3 DEF CallbackReturns, ConnCbReturns, ReadCbReturns, data, Consumes
<1>4. CASE Poll
  <2>1. ASSUME NEW n, RecvServer \/ RecvNoBuffer \/ RecvData(n)
        PROVE  Consumes
    BY <2>1 DEF RecvServer, RecvNoBuffer, RecvData, Recv, CanRecv, Consumes
  <2>2. ASSUME NEW n, SendNothing \/ SendFails \/ SendData(n)
        PROVE  Consumes
    BY <2>2 DEF SendNothing, SendFails, SendData, Send, CanSend, Consumes
  <2>3. ScanEnds \/ NotReadable \/ NotWritable => Consumes
    BY DEF ScanEnds, NotReadable, NotWritable, CanRecv, CanSend, Consumes
  <2>4. NextSocket => Consumes
    BY <1>0 DEF NextSocket, Consumes, Selected
  <2>5. RecvAborts \/ SendAborts => pc' = "halt" /\ sel' = sel
    BY DEF RecvAborts, SendAborts, Abort
  <2> QED BY <1>4, <2>1, <2>2, <2>3, <2>4, <2>5 DEF Poll
<1>5. CASE Sweep
  BY <1>5 DEF Sweep, SweepEnds, SweepTimeout, SweepOthers, Sweeping, Reap, CascadeMoves,
     CascadeCloses, CascadeAborts, SamePort, Abort, Release, data, ScanPoint
<1> QED BY <1>1, <1>2, <1>3, <1>4, <1>5 DEF Next

(* In the scan every event left belongs to a socket from the cursor on,    *)
(* and the countdown is not below the number of the events.                *)
EventsAhead ==
  /\ \A f \in sel.read \cup sel.write : \E s \in Rest(cursor) : sk[s].fd = f
  /\ pc \in {"conn_cb", "read_cb"} => sel.handled
  /\ pc \in {"conn_cb", "read_cb", "send", "next"} => sk[cursor].fd \notin sel.read
  /\ pc = "next" => sk[cursor].fd \notin sel.write
  /\ Pending <= IF pc # "recv" /\ sel.handled THEN sel.left - 1 ELSE sel.left

(* Between two scans no event is left.                                     *)
Counting ==
  /\ pc \in ScanPoint => EventsAhead
  /\ pc \notin ScanPoint \cup {"halt"} => sel.read = {} /\ sel.write = {}

(* There are no events at the start.                                       *)
LEMMA CountingInit ==
  ASSUME Init
  PROVE  Counting
BY DEF Init, Counting, ScanPoint

(* Handling an event takes it off the number.                              *)
LEMMA PendingFacts ==
  ASSUME IInv
  PROVE  /\ IsFiniteSet(sel.read) /\ IsFiniteSet(sel.write)
         /\ Cardinality(sel.read) \in Nat /\ Cardinality(sel.write) \in Nat
         /\ Pending = 0 => sel.read = {} /\ sel.write = {}
         /\ \A f \in sel.read : Cardinality(sel.read \ {f}) = Cardinality(sel.read) - 1
         /\ \A f \in sel.write : Cardinality(sel.write \ {f}) = Cardinality(sel.write) - 1
         /\ sel.left \in Int
<1>1. sel.read \subseteq Fd /\ sel.write \subseteq Fd /\ IsFiniteSet(Fd) /\ sel.left \in Int
  BY ZSocketAssumption DEF IInv, ControlInv, Selected
<1>2. IsFiniteSet(sel.read) /\ IsFiniteSet(sel.write)
  BY <1>1, FS_Subset
<1>3. Cardinality(sel.read) \in Nat /\ Cardinality(sel.write) \in Nat
  BY <1>2, FS_CardinalityType
<1>4. Pending = 0 => Cardinality(sel.read) = 0 /\ Cardinality(sel.write) = 0
  BY <1>3 DEF Pending
<1>5. Pending = 0 => sel.read = {} /\ sel.write = {}
  BY <1>2, <1>4, FS_EmptySet
<1>6. \A f \in sel.read : Cardinality(sel.read \ {f}) = Cardinality(sel.read) - 1
  BY <1>2, FS_RemoveElement
<1>7. \A f \in sel.write : Cardinality(sel.write \ {f}) = Cardinality(sel.write) - 1
  BY <1>2, FS_RemoveElement
<1> QED BY <1>1, <1>2, <1>3, <1>5, <1>6, <1>7

(* The events that select() reports belong to listed sockets, and the      *)
(* countdown starts at their number.                                       *)
LEMMA GatheredEvents ==
  ASSUME IInv, IInv', Gathers, Keeps, socks' = socks
  PROVE  EventsAhead'
<1>1. \A f \in sel'.read \cup sel'.write : \E s \in Sock : sk[s].fd = f
  BY DEF Gathers, IInv, DataInv, WatchedAreUsable
<1>2. sel'.read \subseteq Fd /\ sel'.write \subseteq Fd
  BY DEF IInv, ControlInv, Selected
<1>3. \A s \in Sock : sk[s].fd \in Fd => s \in Listed
  BY Facts, ZSocketAssumption DEF Gathers, OpenSet, IsOpen, NoFd
<1>4. Rest(cursor)' = Listed
  <2>1. Rest(cursor)' = Rest(First(socks))'
    BY DEF Gathers, Rest
  <2>2. GoodList' /\ Listed' = Listed
    BY Facts DEF GoodList, Listed
  <2> QED BY <2>1, <2>2, NextRestFirst
<1>5. \A s \in Sock : sk'[s].fd = sk[s].fd
  BY DEF Keeps, Alike
<1>6. Pending' \in Int
  <2>1. sel'.left \in Int
    BY DEF IInv, ControlInv, Selected
  <2> QED BY <2>1 DEF Gathers
<1> QED BY <1>1, <1>2, <1>3, <1>4, <1>5, <1>6 DEF Gathers, EventsAhead

(* A call of the application in a callback.                                *)
LEMMA CallingEvents ==
  ASSUME IInv, Calling, pc \in ScanPoint, EventsAhead
  PROVE  EventsAhead'
<1>1. pc \in {"conn_cb", "read_cb"} /\ cursor \in Listed /\ GoodList /\ Listed \subseteq Sock
  BY Facts DEF Calling, InApp, ScanPoint
<1>2. Rest(cursor) \subseteq Rest(cursor)' /\ \A s \in Listed : sk'[s].fd = sk[s].fd
  <2>1. CASE socks' = socks /\ (Keeps \/ \E s \in Sock : Closes(s))
    <3>1. Rest(cursor)' = Rest(cursor)
      BY <2>1 DEF Rest, Listed, Index, Calling, Still
    <3> QED BY <1>1, <2>1, <3>1 DEF Keeps, Closes, Alike, OthersSame
  <2>2. ASSUME NEW s \in Sock, Opens(s)
        PROVE  Rest(cursor) \subseteq Rest(cursor)' /\ \A t \in Listed : sk'[t].fd = sk[t].fd
    <3>1. Rest(cursor)' = Rest(cursor)
      <4>1. \A t \in Listed : Rest(t)' = Rest(t)
        BY <1>1, <2>2, RestAdd DEF Opens
      <4>2. cursor' = cursor
        BY DEF Calling, Still
      <4>3. PICK c : c = cursor
        OBVIOUS
      <4> QED BY <1>1, <4>1, <4>2, <4>3 DEF Rest
    <3>2. \A t \in Listed : sk'[t] = sk[t]
      BY <1>1, <2>2 DEF Opens, OthersSame
    <3> QED BY <3>1, <3>2
  <2>3. ASSUME NEW s \in User, Resets(s)
        PROVE  Rest(cursor) \subseteq Rest(cursor)' /\ \A t \in Listed : sk'[t].fd = sk[t].fd
    BY <1>1, <2>3 DEF Resets, OthersSame, Rest, Listed, Index, Calling, Still
  <2>4. \A s \in Sock : Closes(s) => socks' = socks
    BY DEF Closes
  <2> QED BY <2>1, <2>2, <2>3, <2>4 DEF Calling, Still
<1>3. Rest(cursor) \subseteq Listed
  BY <1>1, RestSelf
<1>4. UNCHANGED <<pc, cursor, sel, Pending>>
  BY DEF Calling, Still, Pending
<1> QED BY <1>1, <1>2, <1>3, <1>4 DEF EventsAhead

(* The step of the scan at one socket.                                     *)
LEMMA ScanningEvents ==
  ASSUME IInv, Scanning, Consumes, EventsAhead
  PROVE  Counting'
<1>1. GoodList /\ Listed \subseteq Sock /\ NoSock \notin Sock
  BY Facts
<1>2. sel \in Selected
  BY DEF IInv, ControlInv
<1>3. /\ \A s \in Sock : sk'[s].fd = sk[s].fd
      /\ socks' = socks
  BY Facts DEF Scanning, Keeps, Closes, Alike, OthersSame
<1>4. \A s : Rest(s)' = Rest(s)
  BY <1>3 DEF Rest, Listed, Index
<1>5. pc # "recv" => cursor \in Listed
  BY Facts DEF Scanning, ScanPoint
<1>6. CASE pc' \in {"conn_cb", "read_cb", "send", "next"}
  <2>1. cursor' = cursor /\ Rest(cursor)' = Rest(cursor) /\ cursor \in Sock
    BY <1>1, <1>4, <1>5, <1>6, Facts DEF Scanning, Consumes
  <2>2. sk'[cursor].fd = sk[cursor].fd
    BY <1>3, <2>1
  <2>3. EventsAhead'
    <3>1. CASE /\ pc = "recv" /\ sk[cursor].fd \notin sel.read /\ pc' = "send"
               /\ sel' = [sel EXCEPT !.handled = FALSE]
      <4>1. sel'.read = sel.read /\ sel'.write = sel.write /\ sel'.left = sel.left /\ ~sel'.handled
        BY <1>2, <3>1 DEF Selected
      <4>2. Pending' = Pending
        BY <4>1 DEF Pending
      <4> QED BY <1>1, <1>3, <2>1, <2>2, <3>1, <4>1, <4>2, RestSelf DEF EventsAhead
    <3>2. CASE /\ pc = "recv" /\ sk[cursor].fd \in sel.read
               /\ pc' \in {"conn_cb", "read_cb", "send"}
               /\ sel' = [sel EXCEPT !.read = @ \ {sk[cursor].fd}, !.handled = TRUE]
      <4>1. sel'.read = sel.read \ {sk[cursor].fd} /\ sel'.write = sel.write
            /\ sel'.left = sel.left /\ sel'.handled
        BY <1>2, <3>2 DEF Selected
      <4>2. Pending' = Pending - 1 /\ Pending \in Int /\ sel.left \in Int
        <5>1. Cardinality(sel'.read) = Cardinality(sel.read) - 1
          BY <3>2, <4>1, PendingFacts
        <5>2. Cardinality(sel'.write) = Cardinality(sel.write)
          BY <4>1
        <5> QED BY <5>1, <5>2, PendingFacts DEF Pending
      <4> QED BY <1>1, <1>3, <2>1, <2>2, <3>2, <4>1, <4>2, RestSelf DEF EventsAhead
    <3>3. CASE pc \in {"conn_cb", "read_cb"} /\ pc' = "send" /\ sel' = sel
      <4>1. Pending' = Pending
        BY <3>3 DEF Pending
      <4> QED BY <1>1, <1>3, <2>1, <2>2, <3>3, <4>1, RestSelf DEF EventsAhead
    <3>4. CASE pc = "send" /\ sk[cursor].fd \notin sel.write /\ pc' = "next" /\ sel' = sel
      <4>1. Pending' = Pending
        BY <3>4 DEF Pending
      <4> QED BY <1>1, <1>3, <2>1, <2>2, <3>4, <4>1, RestSelf DEF EventsAhead
    <3>5. CASE /\ pc = "send" /\ sk[cursor].fd \in sel.write /\ pc' = "next"
               /\ sel' = [sel EXCEPT !.write = @ \ {sk[cursor].fd}, !.handled = TRUE]
      <4>1. sel'.write = sel.write \ {sk[cursor].fd} /\ sel'.read = sel.read
            /\ sel'.left = sel.left /\ sel'.handled
        BY <1>2, <3>5 DEF Selected
      <4>2. Pending' = Pending - 1 /\ Pending \in Int /\ sel.left \in Int
        <5>1. Cardinality(sel'.write) = Cardinality(sel.write) - 1
          BY <3>5, <4>1, PendingFacts
        <5>2. Cardinality(sel'.read) = Cardinality(sel.read)
          BY <4>1
        <5> QED BY <5>1, <5>2, PendingFacts DEF Pending
      <4>3. Pending <= sel.left
        BY <1>2, <3>5, <4>2 DEF EventsAhead, Selected
      <4> QED BY <1>1, <1>3, <2>1, <2>2, <3>5, <4>1, <4>2, <4>3, RestSelf DEF EventsAhead
    <3> QED BY <1>6, <3>1, <3>2, <3>3, <3>4, <3>5 DEF Consumes
  <2> QED BY <1>6, <2>3 DEF Counting, ScanPoint
<1>7. CASE pc' = "sweep"
  <2>1. sel'.read = {} /\ sel'.write = {}
    <3>1. CASE pc = "recv" /\ cursor = NoSock /\ sel' = sel
      BY <1>1, <3>1, RestSelf DEF EventsAhead
    <3>2. CASE pc = "next" /\ sel.handled /\ sel'.left = 0
                /\ sel' = [sel EXCEPT !.left = IF sel.handled THEN sel.left - 1 ELSE sel.left]
      <4>1. Pending <= 0 /\ sel'.read = sel.read /\ sel'.write = sel.write
        BY <1>2, <3>2, PendingFacts DEF EventsAhead, Selected
      <4> QED BY <4>1, PendingFacts DEF Pending
    <3> QED BY <1>7, <3>1, <3>2 DEF Consumes
  <2> QED BY <1>7, <2>1 DEF Counting, ScanPoint
<1>8. CASE pc' = "recv"
  <2>1. /\ pc = "next" /\ cursor' = After(cursor)
        /\ sel' = [sel EXCEPT !.left = IF sel.handled THEN sel.left - 1 ELSE sel.left]
    BY <1>8 DEF Consumes
  <2>2. Rest(cursor) = {cursor} \cup Rest(After(cursor))
    BY <1>1, <1>5, <2>1, RestAfter
  <2>3. Rest(cursor)' = Rest(After(cursor)) /\ Rest(After(cursor)) \subseteq Sock
    BY <1>1, <1>3, <2>1, RestSelf DEF Rest, Listed, Index
  <2>4. sel'.read = sel.read /\ sel'.write = sel.write /\ sel'.left \in Int
        /\ sel'.left = IF sel.handled THEN sel.left - 1 ELSE sel.left
    BY <1>2, <2>1 DEF Selected
  <2>5. \A f \in sel'.read \cup sel'.write : \E s \in Rest(cursor)' : sk'[s].fd = f
    BY <1>3, <2>1, <2>2, <2>3, <2>4 DEF EventsAhead
  <2>6. Pending' = Pending
    BY <2>4 DEF Pending
  <2>7. Pending <= sel'.left
    BY <2>1, <2>4 DEF EventsAhead
  <2>8. EventsAhead'
    BY <1>8, <2>5, <2>6, <2>7 DEF EventsAhead
  <2> QED BY <1>8, <2>8 DEF Counting, ScanPoint
<1> QED BY <1>6, <1>7, <1>8 DEF Scanning, ScanPoint

(* Every step keeps it: a new socket goes to the head of the list, behind  *)
(* the cursor, and a closed one stays listed.                              *)
LEMMA CountingStep ==
  ASSUME IInv, IInv', Counting, [Next]_vars
  PROVE  Counting'
<1>1. CASE Calling
  <2>1. UNCHANGED <<pc, sel>>
    BY <1>1 DEF Calling, Still
  <2> QED BY <1>1, <2>1, CallingEvents DEF Counting
<1>2. CASE Halting
  BY <1>2 DEF Halting, Counting, ScanPoint
<1>3. CASE Entering /\ Next
  <2>1. CASE Gathers
    <3>1. EventsAhead'
      BY <1>3, <2>1, GatheredEvents DEF Entering
    <3> QED BY <2>1, <3>1 DEF Gathers, Counting, ScanPoint
  <2>2. sel' = sel /\ pc \notin ScanPoint \cup {"halt"} /\ pc' \notin ScanPoint => Counting'
    BY DEF Counting
  <2> QED BY <1>3, <2>1, <2>2, Events DEF Entering, Consumes, ScanPoint
<1>4. CASE Scanning /\ Next
  <2>1. EventsAhead /\ pc' # "halt"
    BY <1>4 DEF Scanning, Counting, ScanPoint
  <2>2. CASE UNCHANGED <<sel, pc>>
    <3>1. cursor' = cursor /\ socks' = socks /\ Pending' = Pending
      BY <1>4, <2>2 DEF Scanning, Closes, Pending
    <3>2. Rest(cursor)' = Rest(cursor) /\ Rest(cursor) \subseteq Sock
      BY <3>1, Facts, RestSelf DEF Rest, Listed, Index
    <3>3. \A s \in Sock : sk'[s].fd = sk[s].fd
      BY <1>4, Facts DEF Scanning, Keeps, Closes, Alike, OthersSame
    <3>4. pc # "recv" => cursor \in Sock
      BY <1>4, Facts DEF Scanning, ScanPoint
    <3>5. EventsAhead'
      BY <2>1, <2>2, <3>1, <3>2, <3>3, <3>4 DEF EventsAhead
    <3> QED BY <1>4, <2>2, <3>5 DEF Counting, Scanning, ScanPoint
  <2> QED BY <1>4, <2>1, <2>2, ScanningEvents, Events DEF Scanning, Gathers, ScanPoint
<1>5. CASE ClosingAlone \/ Leaving \/ TimingOut \/ Passing \/ Reaping \/ Cascading \/ Releases
  <2>1. sel' = sel /\ pc \notin ScanPoint \cup {"halt"} /\ pc' \notin ScanPoint
    BY <1>5 DEF ClosingAlone, Leaving, TimingOut, Passing, Reaping, Cascading, Releases, ScanPoint
  <2> QED BY <2>1 DEF Counting
<1>6. CASE UNCHANGED vars
  <2>1. UNCHANGED <<sk, socks, pc, cursor, sel>>
    BY <1>6 DEF vars
  <2> QED BY <2>1 DEF Counting, EventsAhead, Rest, Listed, Index, Pending
<1> QED BY <1>1, <1>2, <1>3, <1>4, <1>5, <1>6, Kinds

(* zsocket_poll ends its scan when --nfds_selected comes to 0, and counts  *)
(* a socket with two events once, while the callbacks open and close       *)
(* sockets: still no event that select() reported is left when the sweep   *)
(* starts, for any number of sockets, whatever goes wrong.                 *)
THEOREM EventsHandled == Spec => []NoEventLost
<1>1. IInv /\ IInv' /\ Counting /\ [Next]_vars => Counting'
  BY CountingStep
<1>2. Counting => NoEventLost
  BY DEF Counting, NoEventLost, ScanPoint
<1> QED BY Invariance, CountingInit, <1>1, <1>2, PTL DEF Spec

-----------------------------------------------------------------------------
(* The counters.                                                           *)

(* The open sockets have different descriptors, of which there are finitely*)
(* many.                                                                   *)
LEMMA OpenFinite ==
  ASSUME IInv
  PROVE  IsFiniteSet(OpenSet)
<1> DEFINE fdOf == [s \in OpenSet |-> sk[s].fd]
<1>1. \A s \in OpenSet : sk[s].fd \in Fd
  BY OpenFd DEF IInv, OpenSet
<1>2. fdOf \in [OpenSet -> Fd]
  BY <1>1
<1>3. \A s, t \in OpenSet : sk[s].fd = sk[t].fd => s = t
  BY DEF IInv, DataInv, WatchedAreUsable, OpenSet
<1>4. fdOf \in Injection(OpenSet, Fd)
  BY <1>2, <1>3 DEF Injection, IsInjective
<1> QED BY <1>4, ZSocketAssumption, FS_Injection

(* The sockets that zsocket_status counts.                                 *)
Live(t) == {s \in Sock : Usable(s) /\ sk[s].type = t}

(* There are finitely many of a type, and Census is their number.          *)
LEMMA LiveFinite ==
  ASSUME IInv
  PROVE  \A t : IsFiniteSet(Live(t)) /\ Census(t) = Cardinality(Live(t)) /\ Census(t) \in Nat
<1>1. \A t : Live(t) \subseteq OpenSet
  BY DEF Live, OpenSet, Usable
<1> QED BY <1>1, OpenFinite, FS_Subset, FS_CardinalityType DEF Live, Census

(* No connection is silent, and no counter differs from what it counts.    *)
Exact ==
  /\ StatusExact
  /\ \A s \in Sock : IsOpen(s) /\ sk[s].type = "connection" => sk[s].tick = "fresh"

(* All numbers are 0 at the start.                                         *)
LEMMA ExactInit ==
  ASSUME Init, IInv
  PROVE  Exact
<1>1. \A s \in Sock : ~IsOpen(s)
  BY DEF Init, IsOpen, Fresh
<1>2. \A t : Live(t) = {}
  BY <1>1 DEF Live, Usable
<1>3. \A t : Census(t) = 0
  BY <1>2, LiveFinite, FS_EmptySet
<1>4. \A c \in Counter : status[c] = 0
  BY DEF Init
<1> QED BY <1>1, <1>3, <1>4 DEF Exact, StatusExact, Counter, Type

(* What each kind of step does to the numbers.                             *)
LEMMA CensusKept ==
  ASSUME Keeps
  PROVE  \A t : Census(t)' = Census(t)
<1>1. \A t : Live(t)' = Live(t)
  BY DEF Keeps, Live, Usable, Alike, IsOpen, Eof, NextEof
<1> QED BY <1>1 DEF Census, Live

(* Opening a socket adds one of its type.                                  *)
LEMMA CensusOpens ==
  ASSUME IInv, NEW s \in Sock, Opens(s)
  PROVE  \A t : Census(t)' = IF t = sk'[s].type THEN Census(t) + 1 ELSE Census(t)
<1>1. ~IsOpen(s) /\ sk'[s].fd # NoFd /\ \A u \in Sock \ {s} : sk'[u] = sk[u]
  BY ZSocketAssumption DEF Opens, OthersSame, IsOpen, Fresh, NoFd
<1>2. \A t : Live(t)' = IF t = sk'[s].type THEN Live(t) \cup {s} ELSE Live(t)
  BY <1>1 DEF Opens, Live, Usable, IsOpen, Eof, NextEof
<1>3. \A t : s \notin Live(t)
  BY <1>1 DEF Live, Usable
<1>4. \A t : Census(t)' = Cardinality(Live(t)')
  BY DEF Census, Live
<1>5. \A t : Cardinality(Live(t) \cup {s}) = Cardinality(Live(t)) + 1
  BY <1>3, LiveFinite, FS_AddElement
<1> QED BY <1>2, <1>4, <1>5, LiveFinite

(* Closing a usable socket takes one away.                                 *)
LEMMA CensusCloses ==
  ASSUME IInv, NEW s \in Sock, Closes(s), Usable(s)
  PROVE  \A t : Census(t)' = IF t = sk[s].type THEN Census(t) - 1 ELSE Census(t)
<1>1. \A u \in Sock \ {s} : sk'[u] = sk[u]
  BY DEF Closes, OthersSame
<1>2. \A t : Live(t)' = IF t = sk[s].type THEN Live(t) \ {s} ELSE Live(t)
  BY <1>1 DEF Closes, Alike, Live, Usable, IsOpen, Eof, NextEof
<1>3. s \in Live(sk[s].type)
  BY DEF Live
<1>4. \A t : Census(t)' = Cardinality(Live(t)')
  BY DEF Census, Live
<1>5. \A t : s \in Live(t) => Cardinality(Live(t) \ {s}) = Cardinality(Live(t)) - 1
  BY LiveFinite, FS_RemoveElement
<1> QED BY <1>2, <1>3, <1>4, <1>5, LiveFinite

(* Releasing a closed socket does not change the number.                   *)
LEMMA CensusResets ==
  ASSUME NEW s \in Sock, Resets(s), ~Usable(s)
  PROVE  \A t : Census(t)' = Census(t)
<1>1. \A u \in Sock \ {s} : sk'[u] = sk[u]
  BY DEF Resets, OthersSame
<1>2. sk'[s].fd = NoFd
  BY ReleasedFields DEF Resets
<1>3. \A t : Live(t)' = Live(t)
  BY <1>1, <1>2 DEF Live, Usable, IsOpen, Eof
<1> QED BY <1>3 DEF Census, Live

(* The counters after a socket was opened or closed.                       *)
Kind == {"client", "server", "connection"}

(* What Counted and Uncounted do to each counter.                          *)
LEMMA CountedFields ==
  ASSUME status \in [Counter -> Int], NEW t \in Kind
  PROVE  /\ Counted(t)["total"] = status["total"] + 1
         /\ Counted(t)["current"] = status["current"] + 1
         /\ Counted(t)["closed"] = status["closed"]
         /\ \A u \in Kind : Counted(t)[u] = IF u = t THEN status[u] + 1 ELSE status[u]
         /\ Uncounted(t)["total"] = status["total"]
         /\ Uncounted(t)["current"] = status["current"] - 1
         /\ Uncounted(t)["closed"] = status["closed"] + 1
         /\ \A u \in Kind : Uncounted(t)[u] = IF u = t THEN status[u] - 1 ELSE status[u]
<1>1. Kind \subseteq Counter /\ {"total", "current", "closed"} \subseteq Counter
      /\ \A u \in Kind : u \notin {"total", "current", "closed"}
  BY DEF Kind, Counter
<1>2. t \in Counter /\ t \notin {"total", "current", "closed"}
  BY <1>1
<1>3. Counted(t)["total"] = status["total"] + 1
  BY <1>1, <1>2 DEF Counted
<1>4. Counted(t)["current"] = status["current"] + 1
  BY <1>1, <1>2 DEF Counted
<1>5. Counted(t)["closed"] = status["closed"]
  BY <1>1, <1>2 DEF Counted
<1>6. ASSUME NEW u \in Kind PROVE Counted(t)[u] = IF u = t THEN status[u] + 1 ELSE status[u]
  BY <1>1, <1>2 DEF Counted
<1>7. Uncounted(t)["total"] = status["total"]
  BY <1>1, <1>2 DEF Uncounted
<1>8. Uncounted(t)["current"] = status["current"] - 1
  BY <1>1, <1>2 DEF Uncounted
<1>9. Uncounted(t)["closed"] = status["closed"] + 1
  BY <1>1, <1>2 DEF Uncounted
<1>10. ASSUME NEW u \in Kind PROVE Uncounted(t)[u] = IF u = t THEN status[u] - 1 ELSE status[u]
  BY <1>1, <1>2 DEF Uncounted
<1> QED BY <1>3, <1>4, <1>5, <1>6, <1>7, <1>8, <1>9, <1>10

(* StatusExact, counter by counter.                                        *)
LEMMA StatusParts ==
  /\ StatusExact <=>
       /\ \A u \in Kind : status[u] = Census(u)
       /\ status["current"] = Census("client") + Census("server") + Census("connection")
       /\ status["total"] = status["current"] + status["closed"]
  /\ StatusExact' <=>
       /\ \A u \in Kind : status'[u] = Census(u)'
       /\ status'["current"] = Census("client")' + Census("server")' + Census("connection")'
       /\ status'["total"] = status'["current"] + status'["closed"]
<1>1. Type \ {"none"} = Kind
  BY DEF Type, Kind
<1> QED BY <1>1 DEF StatusExact

(* Whatever keeps the counters and the sockets in step.                    *)
LEMMA StatusKept ==
  ASSUME IInv, IInv', Exact
  PROVE  /\ Keeps => StatusExact'
         /\ \A s \in Sock : Opens(s) => StatusExact'
         /\ \A s \in Sock : Closes(s) /\ Usable(s) => StatusExact'
         /\ \A s \in Sock : Resets(s) /\ ~Usable(s) => StatusExact'
<1>1. StatusExact /\ status \in [Counter -> Int]
  BY DEF Exact, IInv, ControlInv
<1>2. ASSUME Keeps PROVE StatusExact'
  BY <1>1, <1>2, CensusKept DEF StatusExact, Keeps
<1>3. ASSUME NEW s \in Sock, Opens(s) PROVE StatusExact'
  <2>1. sk'[s].type \in Kind /\ status' = Counted(sk'[s].type)
    BY <1>3 DEF Opens, Kind
  <2>2. PICK t \in Kind : t = sk'[s].type
    BY <2>1
  <2>3. \A u : Census(u)' = IF u = t THEN Census(u) + 1 ELSE Census(u)
    BY <1>3, <2>2, CensusOpens
  <2>4. \A u : Census(u) \in Nat
    BY LiveFinite
  <2>5. /\ status'["total"] = status["total"] + 1
        /\ status'["current"] = status["current"] + 1
        /\ status'["closed"] = status["closed"]
        /\ \A u \in Kind : status'[u] = IF u = t THEN status[u] + 1 ELSE status[u]
    BY <1>1, <2>1, <2>2, CountedFields
  <2>6. {status["total"], status["current"], status["closed"]} \subseteq Int
    BY <1>1 DEF Counter
  <2>7. status'["current"] = Census("client")' + Census("server")' + Census("connection")'
    BY <1>1, <2>2, <2>3, <2>4, <2>5, StatusParts DEF Kind
  <2>8. status'["total"] = status'["current"] + status'["closed"]
    BY <1>1, <2>5, <2>6, StatusParts
  <2>9. \A u \in Kind : status'[u] = Census(u)'
    BY <1>1, <2>3, <2>4, <2>5, StatusParts
  <2> QED BY <2>7, <2>8, <2>9, StatusParts
<1>4. ASSUME NEW s \in Sock, Closes(s), Usable(s) PROVE StatusExact'
  <2>1. sk[s].type \in Kind /\ status' = Uncounted(sk[s].type)
    BY <1>4, OpenFd, SocketType DEF Usable, IInv, Type, Closes, Kind
  <2>2. PICK t \in Kind : t = sk[s].type
    BY <2>1
  <2>3. \A u : Census(u)' = IF u = t THEN Census(u) - 1 ELSE Census(u)
    BY <1>4, <2>2, CensusCloses
  <2>4. \A u : Census(u) \in Nat
    BY LiveFinite
  <2>5. /\ status'["total"] = status["total"]
        /\ status'["current"] = status["current"] - 1
        /\ status'["closed"] = status["closed"] + 1
        /\ \A u \in Kind : status'[u] = IF u = t THEN status[u] - 1 ELSE status[u]
    BY <1>1, <2>1, <2>2, CountedFields
  <2>6. {status["total"], status["current"], status["closed"]} \subseteq Int
    BY <1>1 DEF Counter
  <2>7. status'["current"] = Census("client")' + Census("server")' + Census("connection")'
    BY <1>1, <2>2, <2>3, <2>4, <2>5, StatusParts DEF Kind
  <2>8. status'["total"] = status'["current"] + status'["closed"]
    BY <1>1, <2>5, <2>6, StatusParts
  <2>9. \A u \in Kind : status'[u] = Census(u)'
    BY <1>1, <2>3, <2>4, <2>5, StatusParts
  <2> QED BY <2>7, <2>8, <2>9, StatusParts
<1>5. ASSUME NEW s \in Sock, Resets(s), ~Usable(s) PROVE StatusExact'
  BY <1>1, <1>5, CensusResets DEF StatusExact, Resets
<1> QED BY <1>2, <1>3, <1>4, <1>5

(* Every step keeps it; no connection times out, so none is closed twice.  *)
LEMMA ExactStep ==
  ASSUME IInv, IInv', Roles, Exact, [Next]_vars,
         "idle" \notin Env, "no_timeout" \notin Env, "alloc_fail" \notin Env
  PROVE  Exact'
<1> DEFINE AllFresh == \A s \in Sock : IsOpen(s) /\ sk[s].type = "connection" => sk[s].tick = "fresh"
<1>1. \/ Keeps \/ UNCHANGED vars \/ \E s \in Sock : Opens(s)
      \/ \E s \in Sock : Closes(s) /\ Usable(s)
      \/ \E s \in Sock : Resets(s) /\ ~Usable(s)
  <2>1. TimingOut => FALSE
    BY Facts DEF TimingOut, TimedOut, Exact, OpenSet
  <2>2. Halting => Keeps
    BY KeepsSame DEF Halting
  <2>3. Calling => \/ Keeps \/ \E s \in Sock : Opens(s)
                   \/ \E s \in Sock : Closes(s) /\ Usable(s)
                   \/ \E s \in Sock : Resets(s) /\ ~Usable(s)
    BY DEF Calling, Sock, Usable
  <2>4. ASSUME Scanning PROVE Keeps \/ \E s \in Sock : Closes(s) /\ Usable(s)
    <3>0. pc \in ScanPoint
      BY <2>4 DEF Scanning
    <3>1. \A s \in Listed : IsOpen(s)
      <4>1. pc \notin {"halt", "cascade", "release"}
        BY <3>0 DEF ScanPoint
      <4> QED BY <4>1, Facts DEF OpenSet
    <3> QED BY <2>4, <3>1, Facts DEF Scanning, Usable, Closes
  <2>5. Cascading => Keeps \/ \E s \in Sock : Closes(s) /\ Usable(s)
    BY Facts DEF Cascading, Usable, Closes, SamePort
  <2>6. Releases => Resets(cursor) /\ cursor \in Sock /\ ~Usable(cursor)
    BY Facts DEF Releases, Usable
  <2>7. ClosingAlone => \E s \in Sock : Closes(s) /\ Usable(s)
    BY DEF ClosingAlone
  <2>8. Entering \/ Leaving \/ Passing \/ Reaping => Keeps
    BY DEF Entering, Leaving, Passing, Reaping
  <2> QED BY <2>1, <2>2, <2>3, <2>4, <2>5, <2>6, <2>7, <2>8, Kinds
<1>2. AllFresh'
  <2>1. Keeps => AllFresh'
    BY DEF Keeps, Alike, TickKept, Exact, IsOpen
  <2>2. ASSUME NEW s \in Sock, Opens(s) PROVE AllFresh'
    BY <2>2 DEF Opens, OthersSame, Exact, IsOpen
  <2>3. ASSUME NEW s \in Sock, Closes(s) PROVE AllFresh'
    BY <2>3 DEF Closes, Alike, OthersSame, Exact, IsOpen
  <2>4. ASSUME NEW s \in Sock, Resets(s) PROVE AllFresh'
    BY <2>4, ReleasedFields DEF Resets, OthersSame, Exact, IsOpen
  <2>5. UNCHANGED vars => AllFresh'
    BY DEF vars, Exact, IsOpen
  <2> QED BY <1>1, <2>1, <2>2, <2>3, <2>4, <2>5
<1>3. StatusExact'
  <2>1. UNCHANGED vars => Keeps
    BY KeepsSame DEF vars
  <2> QED BY <1>1, <2>1, StatusKept
<1> QED BY <1>2, <1>3 DEF Exact

(* zsocket_status tells the truth: the counters that zsocket_connect,      *)
(* zsocket_listen, zsocket_accept and zsocket_close keep are the numbers   *)
(* of open sockets by type.  It needs that no connection is silent or      *)
(* exempt from the timeout and that no allocation fails: there the code    *)
(* closes, and counts, a closed socket once more.                          *)
THEOREM StatusCounts ==
  ASSUME "idle" \notin Env, "no_timeout" \notin Env, "alloc_fail" \notin Env
  PROVE  Spec => []StatusExact
<1>1. Init => Roles /\ Exact
  BY RolesInit, ExactInit, Initially
<1>2. IInv /\ IInv' /\ Roles /\ Exact /\ [Next]_vars => Roles' /\ Exact'
  BY RolesStep, ExactStep
<1>3. Exact => StatusExact
  BY DEF Exact
<1> QED BY Invariance, <1>1, <1>2, <1>3, PTL DEF Spec

-----------------------------------------------------------------------------
(* The order of the list and the ports.                                    *)

(* A closing server finds the sockets with its port before it in the list, *)
(* and none of them closed: the sweep has released those.                  *)
OpenServer(s) == s \in OpenSet /\ sk[s].type = "server"

(* A port has one open server, and its connections come before it in the   *)
(* list, for each socket goes to the head.                                 *)
Ports ==
  /\ \A s \in OpenSet : /\ sk[s].type = "server" => sk[s].port \in Port
                        /\ sk[s].type = "client" => sk[s].port = Assigned
  /\ \A s, t \in OpenSet : OpenServer(s) /\ OpenServer(t) /\ sk[s].port = sk[t].port => s = t
  /\ \A c, s \in Listed :
       sk[c].type = "connection" /\ OpenServer(s) /\ sk[s].port = sk[c].port => s \in Rest(c)

(* Behind the sweep there is no closed socket with the port of an open     *)
(* server, so the server that it comes to finds none; outside the loop a   *)
(* server that is closed has no connection.                                *)
Swept ==
  /\ pc \in {"sweep", "reap"} /\ in_looping =>
       \A e \in Listed \ Rest(cursor) : Eof(e) =>
         \A s \in OpenSet : OpenServer(s) => sk[s].port # sk[e].port
  /\ pc \in {"cascade", "release"} /\ in_looping =>
       \A e \in Listed \ Rest(nxt) : Eof(e) =>
         \A s \in OpenSet \ {cursor} : OpenServer(s) => sk[s].port # sk[e].port
  /\ pc = "cascade" /\ in_looping =>
       \A e \in Rest(peer) : sk[e].port = sk[cursor].port => ~Eof(e)
  /\ pc \in {"reap", "cascade"} /\ ~in_looping /\ sk[cursor].type = "server" =>
       \A t \in Listed \ {cursor} : sk[t].port # sk[cursor].port

(* Both.                                                                   *)
Sorted == Ports /\ Swept

(* There is no socket at the start.                                        *)
LEMMA SortedInit ==
  ASSUME Init
  PROVE  Sorted
<1>1. OpenSet = {} /\ Listed = {}
  BY DEF Init, OpenSet, IsOpen, Fresh, Listed, ToSet
<1> QED BY <1>1 DEF Init, Sorted, Ports, Swept

(* Where no socket is opened or released the ports and the list stay.      *)
LEMMA SameOpenSet ==
  ASSUME IInv, Keeps \/ \E s \in Sock : Closes(s)
  PROVE  /\ OpenSet' = OpenSet
         /\ \A s \in Sock : sk'[s].type = sk[s].type /\ sk'[s].port = sk[s].port
         /\ \A s \in Sock : OpenServer(s)' <=> OpenServer(s)
<1>1. OpenSet' = OpenSet
  BY SameSockets DEF OpenSet
<1>2. \A s \in Sock : sk'[s].type = sk[s].type /\ sk'[s].port = sk[s].port
  BY SameSockets DEF Alike
<1> QED BY <1>1, <1>2 DEF OpenServer

(* The ports stay when no socket is opened or released.                    *)
LEMMA PortsKept ==
  ASSUME IInv, Ports, Keeps \/ \E s \in Sock : Closes(s), socks' = socks
  PROVE  Ports'
<1>1. Listed' = Listed /\ Listed \subseteq Sock /\ OpenSet \subseteq Sock /\ \A s : Rest(s)' = Rest(s)
  BY Facts DEF Listed, OpenSet, Rest, Index
<1> QED BY <1>1, SameOpenSet DEF Ports

(* They stay when one is opened: bind() refuses a port in use.             *)
LEMMA PortsOpens ==
  ASSUME IInv, Roles, Ports, NEW s \in Sock, Opens(s), pc \in {"app", "conn_cb", "read_cb"},
         "port_sharing" \notin Env
  PROVE  Ports'
<1>1. /\ s \notin OpenSet /\ OpenSet' = OpenSet \cup {s} /\ \A t \in OpenSet : sk'[t] = sk[t]
  <2>1. ~IsOpen(s) /\ sk'[s].fd # NoFd /\ \A u \in Sock \ {s} : sk'[u] = sk[u]
    BY ZSocketAssumption DEF Opens, OthersSame, IsOpen, Fresh, NoFd
  <2> QED BY <2>1 DEF OpenSet, IsOpen
<1>2. /\ GoodList /\ Listed = OpenSet /\ Listed' = Listed \cup {s}
      /\ \A t \in Listed : Rest(t)' = Rest(t)
      /\ Rest(s)' = Listed'
  BY Facts, RestAdd DEF Opens
<1>3. \A t \in OpenSet : OpenServer(t)' <=> OpenServer(t)
  BY <1>1 DEF OpenServer
<1>4. sk'[s].type = "server" => \A t \in OpenSet : sk[t].port # sk'[s].port
  BY DEF Opens, CanBind, OpenSet
<1>5. \A t \in OpenSet' : /\ sk'[t].type = "server" => sk'[t].port \in Port
                          /\ sk'[t].type = "client" => sk'[t].port = Assigned
  BY <1>1 DEF Opens, Ports
<1>6. \A t, u \in OpenSet' : OpenServer(t)' /\ OpenServer(u)' /\ sk'[t].port = sk'[u].port => t = u
  BY <1>1, <1>3, <1>4 DEF Ports, OpenServer
<1>7. \A c, t \in Listed' :
        sk'[c].type = "connection" /\ OpenServer(t)' /\ sk'[t].port = sk'[c].port => t \in Rest(c)'
  BY <1>1, <1>2, <1>3, <1>4 DEF Ports, OpenServer
<1> QED BY <1>5, <1>6, <1>7 DEF Ports

(* They stay when one is released.                                         *)
LEMMA PortsResets ==
  ASSUME IInv, Ports, NEW s \in Sock, Resets(s)
  PROVE  /\ Ports' /\ OpenSet' = OpenSet \ {s}
         /\ \A t \in Sock \ {s} : sk'[t] = sk[t]
<1>1. sk'[s].fd = NoFd /\ \A t \in Sock \ {s} : sk'[t] = sk[t]
  BY ReleasedFields DEF Resets, OthersSame
<1>2. OpenSet' = OpenSet \ {s}
  BY <1>1 DEF OpenSet, IsOpen
<1>3. Listed' = Listed /\ s \notin Listed /\ Listed \subseteq Sock /\ \A t : Rest(t)' = Rest(t)
  BY Facts DEF Resets, Listed, Rest, Index
<1>4. \A t \in OpenSet' : OpenServer(t)' <=> OpenServer(t)
  BY <1>1, <1>2 DEF OpenServer, OpenSet
<1>5. \A t \in OpenSet' : sk'[t] = sk[t]
  BY <1>1, <1>2 DEF OpenSet
<1>6. \A t \in Listed : sk'[t] = sk[t] /\ (OpenServer(t)' <=> OpenServer(t))
  BY <1>1, <1>2, <1>3 DEF OpenServer
<1> QED BY <1>1, <1>2, <1>3, <1>4, <1>5, <1>6 DEF Ports

(* What the sweep has left when it has taken its socket off the list.      *)
LEMMA ReapedRest ==
  ASSUME IInv, Reaping, in_looping
  PROVE  Rest(nxt)' = Rest(After(cursor))
<1>0. GoodList /\ Listed \subseteq Sock /\ NoSock \notin Sock /\ cursor \in Listed
  BY Facts DEF Reaping
<1>1. /\ Listed' = Listed \ {cursor}
      /\ \A t \in Listed \ {cursor} : Rest(t)' = Rest(t) \ {cursor}
  BY <1>0, RestWithout DEF Reaping
<1>2. /\ cursor \notin Rest(After(cursor))
      /\ After(cursor) # NoSock => After(cursor) \in Rest(cursor) /\ After(cursor) # cursor
  BY <1>0, RestAfter
<1>3. CASE After(cursor) = NoSock
  <2>1. Rest(After(cursor)) = {}
    BY <1>0, <1>3, RestSelf
  <2>2. nxt' = NoSock /\ NoSock \notin Listed'
    BY <1>0, <1>1, <1>3 DEF Reaping
  <2> QED BY <2>1, <2>2 DEF Rest
<1>4. CASE After(cursor) # NoSock
  <2>1. After(cursor) \in Listed \ {cursor}
    BY <1>0, <1>2, <1>4, RestSelf
  <2>2. PICK a : a = After(cursor)
    OBVIOUS
  <2>3. Rest(a)' = Rest(a) \ {cursor}
    BY <1>1, <2>1, <2>2
  <2>4. Rest(nxt)' = Rest(a)'
    BY <2>2 DEF Reaping, Rest
  <2> QED BY <1>2, <2>2, <2>3, <2>4
<1> QED BY <1>3, <1>4

(* Every step keeps it.                                                    *)
LEMMA SortedStep ==
  ASSUME IInv, IInv', Roles, Sorted, [Next]_vars,
         "port_sharing" \notin Env, "server_close" \notin Env
  PROVE  Sorted'
<1>0. Ports /\ Swept /\ Listed \subseteq Sock /\ GoodList /\ NoSock \notin Sock
  BY Facts DEF Sorted
<1>1. CASE Calling
  <2>1. Swept'
    BY <1>1 DEF Calling, Still, InApp, Swept
  <2>2. Ports'
    <3>1. \A s \in Sock : Closes(s) => socks' = socks
      BY DEF Closes
    <3> QED BY <1>0, <1>1, <3>1, PortsKept, PortsOpens, PortsResets DEF Calling, InApp, Sock
  <2> QED BY <2>1, <2>2 DEF Sorted
<1>2. CASE ClosingAlone
  <2>1. PICK s \in Sock : /\ cursor' = s /\ Closes(s)
                          /\ sk[s].type = "server" => \A t \in Listed \ {s} : sk[t].port # sk[s].port
    BY <1>2 DEF ClosingAlone
  <2>2. Ports'
    BY <1>0, <2>1, PortsKept DEF Closes
  <2>3. Swept'
    <3>1. Listed' = Listed
      BY <2>1, ListKept
    <3> QED BY <1>0, <1>2, <2>1, <3>1, SameOpenSet DEF ClosingAlone, Swept
  <2> QED BY <2>2, <2>3 DEF Sorted
<1>3. CASE Halting
  <2>1. Ports'
    BY <1>0, <1>3, KeepsSame, PortsKept DEF Halting
  <2> QED BY <1>3, <2>1 DEF Halting, Sorted, Swept
<1>4. CASE Entering \/ Scanning
  <2>1. Ports' /\ socks' = socks
    <3>1. (Keeps \/ \E s \in Sock : Closes(s)) /\ socks' = socks
      BY <1>4, Facts DEF Entering, Scanning, Closes
    <3> QED BY <1>0, <3>1, PortsKept
  <2>2. Swept'
    <3>1. pc' = "sweep" => cursor' = First(socks')
      BY <1>4, <2>1 DEF Entering, Scanning, ScanPoint
    <3>2. GoodList' /\ (pc' = "sweep" => Rest(cursor)' = Rest(First(socks))')
      BY <1>0, <2>1, <3>1 DEF GoodList, Rest
    <3>3. pc' = "sweep" => Rest(cursor)' = Listed'
      BY <3>2, NextRestFirst
    <3>4. pc' \in ScanPoint \cup {"sweep", "app"}
      BY <1>4 DEF Entering, Scanning, ScanPoint
    <3> QED BY <3>3, <3>4 DEF Swept, ScanPoint
  <2> QED BY <2>1, <2>2 DEF Sorted
<1>5. CASE Leaving
  <2>1. Ports'
    BY <1>0, <1>5, PortsKept DEF Leaving
  <2> QED BY <1>5, <2>1 DEF Leaving, Sorted, Swept
<1>6. CASE TimingOut
  <2>1. cursor \in Listed /\ cursor \in Sock /\ Closes(cursor) /\ socks' = socks
    BY <1>0, <1>6, Facts DEF TimingOut, Closes
  <2>2. Ports' /\ Listed' = Listed /\ Rest(cursor)' = Rest(cursor) /\ cursor \in Rest(cursor)
    BY <1>0, <1>6, <2>1, PortsKept, RestSelf DEF Listed, Rest, Index, TimingOut
  <2>3. \A e \in Sock \ {cursor} : Eof(e)' <=> Eof(e)
    BY <2>1 DEF Closes, OthersSame, Eof
  <2>4. in_looping' = in_looping /\ in_looping /\ pc' = "reap" /\ pc = "sweep"
    BY <1>6, Facts DEF TimingOut, Looping
  <2>5. Swept'
    BY <1>0, <2>1, <2>2, <2>3, <2>4, SameOpenSet DEF Swept, OpenSet
  <2> QED BY <2>2, <2>5 DEF Sorted
<1>7. CASE Passing
  <2>1. cursor \in Listed /\ Keeps /\ socks' = socks /\ pc = "sweep" /\ in_looping /\ in_looping'
    BY <1>0, <1>7, Facts DEF Passing, Looping
  <2>2. Ports' /\ Listed' = Listed /\ \A s : Rest(s)' = Rest(s)
    BY <1>0, <2>1, PortsKept DEF Listed, Rest, Index
  <2>3. \A e \in Sock : Eof(e)' <=> Eof(e)
    BY <2>1 DEF Keeps, Eof, NextEof
  <2>4. CASE Eof(cursor) /\ pc' = "reap" /\ cursor' = cursor
    <3>1. Rest(cursor)' = Rest(cursor)
      BY <2>1, <2>4 DEF Listed, Rest, Index
    <3>2. Swept'
      BY <1>0, <2>1, <2>2, <2>3, <2>4, <3>1, SameOpenSet DEF Swept, OpenSet
    <3> QED BY <2>2, <3>2 DEF Sorted
  <2>5. CASE ~Eof(cursor) /\ cursor' = After(cursor) /\ pc' = "sweep"
    <3>1. Rest(cursor)' = Rest(After(cursor))
      BY <2>1, <2>5 DEF Listed, Rest, Index
    <3>2. Rest(cursor) = {cursor} \cup Rest(After(cursor))
      BY <1>0, <2>1, RestAfter
    <3>3. \A e \in Listed \ Rest(cursor)' : Eof(e)' => e \in Listed \ Rest(cursor) /\ Eof(e)
      BY <1>0, <2>3, <2>5, <3>1, <3>2
    <3>4. Swept'
      BY <1>0, <2>1, <2>2, <2>3, <2>5, <3>3, SameOpenSet DEF Swept, OpenSet
    <3> QED BY <2>2, <3>4 DEF Sorted
  <2> QED BY <1>7, <2>4, <2>5 DEF Passing
<1>8. CASE Reaping
  <2>1. /\ cursor \in Listed /\ Listed = OpenSet /\ Eof(cursor) /\ cursor' = cursor /\ Keeps
        /\ in_looping' = in_looping /\ pc = "reap"
    BY <1>8, Facts DEF Reaping
  <2>2. /\ GoodList' /\ Listed' = Listed \ {cursor}
        /\ \A t \in Listed \ {cursor} : Rest(t)' = Rest(t) \ {cursor}
    BY <1>0, <1>8, <2>1, RestWithout DEF Reaping
  <2>3. /\ OpenSet' = OpenSet /\ \A s \in Sock : sk'[s].type = sk[s].type /\ sk'[s].port = sk[s].port
        /\ \A s \in Sock : OpenServer(s)' <=> OpenServer(s)
    BY <2>1, SameOpenSet
  <2>4. \A e \in Sock : Eof(e)' <=> Eof(e)
    BY <2>1 DEF Keeps, Eof, NextEof
  <2>5. Ports'
    BY <1>0, <2>1, <2>2, <2>3 DEF Ports, OpenSet
  <2>6. /\ Rest(cursor) = {cursor} \cup Rest(After(cursor)) /\ cursor \notin Rest(After(cursor))
        /\ After(cursor) # NoSock => After(cursor) \in Rest(cursor) /\ After(cursor) # cursor
    BY <1>0, <2>1, RestAfter
  <2>7. in_looping => Rest(nxt)' = Rest(After(cursor))
    BY <1>8, ReapedRest
  <2>8. in_looping => \A e \in Listed' \ Rest(nxt)' : Eof(e)' =>
          \A s \in OpenSet' \ {cursor} : OpenServer(s)' => sk'[s].port # sk'[e].port
    BY <1>0, <2>1, <2>2, <2>3, <2>4, <2>6, <2>7 DEF Swept, OpenSet
  <2>9. in_looping /\ sk[cursor].type = "server" =>
          \A e \in Listed' : sk[e].port = sk[cursor].port => ~Eof(e)
    <3> SUFFICES ASSUME in_looping, sk[cursor].type = "server", NEW e \in Listed', Eof(e),
                        sk[e].port = sk[cursor].port
                 PROVE  FALSE
      OBVIOUS
    <3>1. e \in Listed /\ e # cursor /\ OpenServer(cursor) /\ e \in OpenSet
      BY <2>1, <2>2 DEF OpenServer
    <3>2. e \in Rest(cursor)
      BY <1>0, <2>1, <3>1 DEF Swept
    <3>3. sk[e].type \in {"client", "server", "connection"}
      BY <1>0, <3>1, OpenFd, SocketType DEF IInv, OpenSet, Type
    <3>4. sk[e].type # "client"
      BY <1>0, <3>1, ZSocketAssumption DEF Ports, OpenServer, Assigned
    <3>5. sk[e].type # "server"
      BY <1>0, <3>1 DEF Ports, OpenServer
    <3>6. cursor \in Rest(e)
      BY <1>0, <2>1, <3>1, <3>3, <3>4, <3>5 DEF Ports
    <3> QED BY <1>0, <3>1, <3>2, <3>6, RestSelf
  <2>10. \A s : Rest(s)' \subseteq Listed'
    BY DEF Rest
  <2>11. Swept'
    BY <1>0, <1>8, <2>1, <2>2, <2>3, <2>4, <2>8, <2>9, <2>10 DEF Reaping, Swept
  <2> QED BY <2>5, <2>11 DEF Sorted
<1>9. CASE Cascading
  <2>1. /\ pc = "cascade" /\ pc' \in {"cascade", "release"} /\ cursor \in OpenSet /\ cursor' = cursor
        /\ nxt' = nxt /\ in_looping' = in_looping /\ socks' = socks
        /\ peer \in Listed \cup {NoSock} /\ sk[cursor].type = "server"
    BY <1>9, Facts DEF Cascading, Closes, Roles
  <2>2. Keeps \/ (Closes(peer) /\ SamePort /\ peer \in Listed)
    BY <1>9, <2>1 DEF Cascading, SamePort
  <2>3. /\ Ports' /\ Listed' = Listed /\ Rest(nxt)' = Rest(nxt) /\ \A s : Rest(s)' = Rest(s)
    BY <1>0, <2>1, <2>2, PortsKept DEF Listed, Rest, Index
  <2>4. /\ OpenSet' = OpenSet /\ \A s \in Sock : sk'[s].type = sk[s].type /\ sk'[s].port = sk[s].port
        /\ \A s \in Sock : OpenServer(s)' <=> OpenServer(s)
    BY <1>0, <2>2, SameOpenSet
  <2>5. \A e \in Sock : Eof(e)' => Eof(e) \/ (e = peer /\ SamePort)
    BY <2>2 DEF Keeps, Closes, OthersSame, Eof, NextEof
  <2>6. pc' = "cascade" => peer # NoSock /\ peer' = After(peer)
    BY <1>9 DEF Cascading, SamePort
  <2>7. in_looping => \A e \in Listed \ Rest(nxt) : Eof(e)' =>
          \A s \in OpenSet \ {cursor} : OpenServer(s) => sk[s].port # sk[e].port
    <3> SUFFICES ASSUME in_looping, NEW e \in Listed \ Rest(nxt), Eof(e)',
                        NEW s \in OpenSet \ {cursor}, OpenServer(s)
                 PROVE  sk[s].port # sk[e].port
      OBVIOUS
    <3>1. CASE Eof(e)
      BY <1>0, <2>1, <3>1 DEF Swept
    <3>2. CASE e = peer /\ SamePort
      BY <1>0, <2>1, <3>2 DEF SamePort, Ports, OpenServer
    <3> QED BY <1>0, <2>5, <3>1, <3>2
  <2>8. pc' = "cascade" => /\ Rest(peer)' = Rest(After(peer))
                           /\ Rest(peer) = {peer} \cup Rest(After(peer)) /\ peer \notin Rest(After(peer))
    <3>1. pc' = "cascade" => Rest(peer)' = Rest(After(peer))
      BY <2>1, <2>6 DEF Listed, Rest, Index
    <3> QED BY <1>0, <2>1, <2>6, <3>1, RestAfter
  <2>9. pc' = "cascade" /\ in_looping =>
          \A e \in Rest(peer)' : sk[e].port = sk[cursor].port => ~Eof(e)'
    BY <1>0, <2>1, <2>5, <2>8, RestSelf DEF Swept
  <2>10. Swept'
    <3>1. \A e \in Rest(peer)' : e \in Sock
      BY <1>0, <2>3 DEF Rest
    <3> QED BY <1>0, <2>1, <2>3, <2>4, <2>7, <2>9, <3>1 DEF Swept, OpenSet
  <2> QED BY <2>3, <2>10 DEF Sorted
<1>10. CASE Releases
  <2>1. /\ pc = "release" /\ cursor \in Sock /\ Resets(cursor) /\ cursor' = nxt
        /\ in_looping' = in_looping /\ pc' = IF in_looping THEN "sweep" ELSE "app"
    BY <1>10, Facts DEF Releases
  <2>2. Ports' /\ OpenSet' = OpenSet \ {cursor} /\ \A t \in Sock \ {cursor} : sk'[t] = sk[t]
    BY <1>0, <2>1, PortsResets
  <2>3. Listed' = Listed /\ cursor \notin Listed /\ Rest(cursor)' = Rest(nxt)
    BY <2>1 DEF Resets, Listed, Rest, Index
  <2>4. \A e \in Listed : Eof(e)' <=> Eof(e)
    BY <1>0, <2>2, <2>3 DEF Eof
  <2>5. \A s \in OpenSet' : OpenServer(s)' => s \in OpenSet \ {cursor} /\ OpenServer(s) /\ sk'[s] = sk[s]
    BY <2>2 DEF OpenServer, OpenSet
  <2>6. Swept'
    BY <1>0, <2>1, <2>2, <2>3, <2>4, <2>5 DEF Swept
  <2> QED BY <2>2, <2>6 DEF Sorted
<1>11. CASE UNCHANGED vars
  <2>1. UNCHANGED <<sk, socks, pc, cursor, nxt, peer, in_looping>>
    BY <1>11 DEF vars
  <2> QED BY <1>0, <2>1 DEF Sorted, Ports, Swept, OpenSet, OpenServer, IsOpen, Eof, Rest, Listed, Index
<1> QED BY <1>1, <1>2, <1>3, <1>4, <1>5, <1>6, <1>7, <1>8, <1>9, <1>10, <1>11, Kinds

(* __zsocket_close is given no closed socket by a closing server, and none *)
(* at all outside the loop.                                                *)
LEMMA NoCascadeAborts ==
  ASSUME IInv, Roles, Sorted
  PROVE  ~CascadeAborts
<1> SUFFICES ASSUME CascadeAborts PROVE FALSE
  OBVIOUS
<1>1. /\ pc = "cascade" /\ peer # NoSock /\ sk[peer].port = sk[cursor].port
      /\ Eof(peer) \/ ~in_looping
  BY DEF CascadeAborts, SamePort
<1>2. peer \in Listed /\ peer \in Rest(peer) /\ peer # cursor /\ sk[cursor].type = "server"
  BY <1>1, Facts, RestSelf DEF Roles
<1> QED BY <1>1, <1>2, Facts DEF Sorted, Swept

-----------------------------------------------------------------------------
(* The refinement of SocketLife.                                           *)

(* The sockets the sweep has yet to release, in the terms of the list.     *)
Closing == {s \in Sock : IsOpen(s) /\ Eof(s)}

(* The socket from which the sweep goes on.                                *)
From == IF pc \in {"sweep", "reap"} THEN cursor ELSE nxt

(* The closing sockets that it will come to.                               *)
DueSet ==
  IF InSweep THEN {s \in Closing : s = cursor \/ (in_looping /\ s \in Rest(From))} ELSE {}

(* They are those that the refinement mapping names.                       *)
DueDef == DueNow = DueSet /\ \A s \in Sock : LifeOf(s) = "closing" <=> s \in Closing

(* The mapping of ZSocket speaks of places in the sequence, Rest of        *)
(* sockets: both mean the same sockets.                                    *)
LEMMA DueIs ==
  ASSUME IInv
  PROVE  DueDef
<1>1. \A s \in Sock : LifeOf(s) = "closing" <=> s \in Closing
  BY DEF LifeOf, Closing
<1>2. CASE InSweep
  <2>1. From \in Listed \cup {NoSock} \/ ~in_looping
    BY <1>2, Facts DEF InSweep, From
  <2>2. NoSock \notin Sock /\ Listed \subseteq Sock /\ in_looping \in BOOLEAN
    BY Facts
  <2>3. From \in Listed => {socks[i] : i \in Index(From)..Len(socks)} = Rest(From)
    <3>1. From \in Listed => Index(From) \in 1..Len(socks)
      BY Facts, IndexFacts
    <3>2. \A i \in 1..Len(socks) : socks[i] \in Listed /\ Index(socks[i]) = i
      BY Facts, IndexFacts, IndexIs
    <3> QED BY <3>1, <3>2, Facts, IndexFacts DEF Rest
  <2>4. Rest(NoSock) = {}
    BY <2>2, Facts, RestSelf
  <2>5. Ahead = IF ~in_looping THEN {cursor}
                ELSE {cursor} \cup IF From = NoSock THEN {} ELSE {socks[i] : i \in Index(From)..Len(socks)}
    BY DEF Ahead, From
  <2>6. Ahead = IF ~in_looping THEN {cursor} ELSE {cursor} \cup Rest(From)
    BY <2>1, <2>2, <2>3, <2>4, <2>5
  <2>7. \A s \in Ahead \ {NoSock} : s \in Sock
    <3>1. cursor \in Sock \cup {NoSock}
      BY <1>2, Facts DEF InSweep
    <3>2. Rest(From) \subseteq Sock
      BY <2>2, Facts, RestSelf
    <3> QED BY <2>6, <3>1, <3>2
  <2>8. DueNow = {s \in Closing : s \in Ahead}
    BY <1>1, <1>2, <2>2, <2>7 DEF DueNow, Closing
  <2> QED BY <1>1, <1>2, <2>2, <2>6, <2>8 DEF DueDef, DueSet
<1>3. CASE ~InSweep
  BY <1>1, <1>3 DEF DueDef, DueNow, DueSet
<1> QED BY <1>2, <1>3

(* The life of one socket changes.                                         *)
LEMMA Becoming ==
  ASSUME NEW s \in Sock, NEW from, NEW to, LifeOf(s) = from, LifeOf(s)' = to,
         \A t \in Sock \ {s} : LifeOf(t)' = LifeOf(t)
  PROVE  Contract!Becomes(s, from, to)
BY DEF Contract!Becomes, Lives

(* What each kind of step is in the life of a socket.                      *)
LEMMA Lifetimes ==
  ASSUME IInv
  PROVE  /\ Keeps => Lives' = Lives
         /\ \A s \in Sock : Opens(s) => Contract!Becomes(s, "new", "open")
         /\ \A s \in Sock : Closes(s) /\ Usable(s) => Contract!Becomes(s, "open", "closing")
         /\ \A s \in Sock : Closes(s) /\ ~Usable(s) => Lives' = Lives
         /\ \A s \in Sock : Resets(s) /\ ~IsOpen(s) /\ sk'[s] = Fresh
              => Contract!Becomes(s, "closed", "new")
         /\ \A s \in Sock : Resets(s) /\ IsOpen(s) /\ Eof(s)
              => Contract!Becomes(s, "closing", "closed") \/ Contract!Becomes(s, "closing", "new")
<1>1. Keeps => Lives' = Lives
  BY DEF Keeps, Alike, Lives, LifeOf, IsOpen, Eof, NextEof
<1>2. ASSUME NEW s \in Sock, Opens(s) PROVE Contract!Becomes(s, "new", "open")
  <2>1. sk[s].fd = NoFd /\ sk[s].type = "none" /\ sk'[s].fd # NoFd /\ ~NextEof(s)
    BY <1>2, ZSocketAssumption DEF Opens, Fresh, NoFd
  <2>2. LifeOf(s) = "new" /\ LifeOf(s)' = "open"
    BY <2>1 DEF LifeOf, IsOpen, Eof, NextEof
  <2>3. \A t \in Sock \ {s} : LifeOf(t)' = LifeOf(t)
    BY <1>2 DEF Opens, OthersSame, LifeOf, IsOpen, Eof
  <2> QED BY <2>2, <2>3, Becoming
<1>3. ASSUME NEW s \in Sock, Closes(s)
      PROVE  /\ Usable(s) => Contract!Becomes(s, "open", "closing")
             /\ ~Usable(s) => Lives' = Lives
  <2>1. \A t \in Sock \ {s} : LifeOf(t)' = LifeOf(t)
    BY <1>3 DEF Closes, OthersSame, LifeOf, IsOpen, Eof
  <2>2. LifeOf(s)' = "closing"
    BY <1>3 DEF Closes, Alike, LifeOf, IsOpen, Eof, NextEof
  <2>3. LifeOf(s) = IF Usable(s) THEN "open" ELSE "closing"
    BY <1>3 DEF Closes, LifeOf, Usable
  <2>4. ~Usable(s) => \A t \in Sock : LifeOf(t)' = LifeOf(t)
    BY <2>1, <2>2, <2>3
  <2>5. ~Usable(s) => Lives' = Lives
    BY <2>4 DEF Lives
  <2>6. Usable(s) => Contract!Becomes(s, "open", "closing")
    BY <2>1, <2>2, <2>3, Becoming
  <2> QED BY <2>5, <2>6
<1>4. ASSUME NEW s \in Sock, Resets(s)
      PROVE  /\ ~IsOpen(s) /\ sk'[s] = Fresh => Contract!Becomes(s, "closed", "new")
             /\ IsOpen(s) /\ Eof(s)
                  => Contract!Becomes(s, "closing", "closed") \/ Contract!Becomes(s, "closing", "new")
  <2>1. \A t \in Sock \ {s} : LifeOf(t)' = LifeOf(t)
    BY <1>4 DEF Resets, OthersSame, LifeOf, IsOpen, Eof
  <2>2. sk[s].type # "none" /\ sk'[s].fd = NoFd
    BY <1>4, ReleasedFields DEF Resets
  <2>3. sk'[s] = Fresh => LifeOf(s)' = "new"
    BY <2>2, ReleasedFields DEF LifeOf, IsOpen
  <2>4. sk'[s] # Fresh => LifeOf(s)' = "closed"
    BY <1>4, <2>2, ReleasedFields DEF LifeOf, IsOpen, Resets
  <2>5. LifeOf(s) = IF ~IsOpen(s) THEN "closed" ELSE IF Eof(s) THEN "closing" ELSE "open"
    BY <2>2 DEF LifeOf
  <2> QED BY <2>1, <2>3, <2>4, <2>5, Becoming
<1> QED BY <1>1, <1>2, <1>3, <1>4

(* The variables of SocketLife as the loop has them.                       *)
mapped == <<Lives, PhaseNow, DueNow>>

(* The loop starts where SocketLife starts.                                *)
LEMMA ContractInit ==
  ASSUME Init
  PROVE  Contract!Init
<1>1. \A s \in Sock : LifeOf(s) = "new"
  BY DEF Init, LifeOf, IsOpen, Fresh
<1> QED BY <1>1 DEF Init, Contract!Init, Lives, PhaseNow, DueNow, InSweep

(* Every step of the loop is a step of SocketLife, or none: only the scan  *)
(* and the application close a usable socket, except for the connections   *)
(* of a closing server, the sweep releases only what is due, and it leaves *)
(* when nothing is due any more.                                           *)
LEMMA ContractStep ==
  ASSUME IInv, IInv', Roles, Sorted, DueDef, DueDef', [Next]_vars
  PROVE  [Contract!Next]_mapped
<1>0. /\ DueNow = DueSet /\ DueNow' = DueSet' /\ Listed \subseteq Sock /\ GoodList
      /\ in_looping \in BOOLEAN /\ NoSock \notin Sock
  BY Facts DEF DueDef
<1>1. /\ Keeps => Lives' = Lives /\ Closing' = Closing
      /\ \A s \in Sock : Closes(s) =>
           /\ Usable(s) => Contract!Becomes(s, "open", "closing") /\ Closing' = Closing \cup {s}
           /\ ~Usable(s) => Lives' = Lives /\ Closing' = Closing
  <2>1. Keeps => Closing' = Closing
    BY DEF Keeps, Closing, Alike, IsOpen, Eof, NextEof
  <2>2. ASSUME NEW s \in Sock, Closes(s) PROVE Closing' = Closing \cup {s}
    BY <2>2 DEF Closes, Closing, Alike, OthersSame, IsOpen, Eof, NextEof
  <2>3. \A s \in Sock : Closes(s) /\ ~Usable(s) => s \in Closing
    BY DEF Closes, Closing, Usable
  <2> QED BY <2>1, <2>2, <2>3, Lifetimes
<1>2. CASE Calling
  <2>1. ~InSweep /\ ~InSweep' /\ PhaseNow' = PhaseNow /\ PhaseNow # "sweep"
    BY <1>2 DEF Calling, Still, InApp, InSweep, PhaseNow
  <2>2. DueNow = {} /\ DueNow' = {}
    BY <2>1 DEF DueNow
  <2>3. ASSUME NEW s \in Sock, Opens(s) PROVE Contract!Open(s)
    BY <2>1, <2>2, <2>3, Lifetimes DEF Contract!Open
  <2>4. ASSUME NEW s \in Sock, Closes(s), Usable(s) PROVE Contract!Close(s)
    BY <2>1, <2>2, <2>4, Lifetimes DEF Contract!Close
  <2>5. ASSUME NEW s \in Sock, Resets(s), ~IsOpen(s), sk'[s] = Fresh PROVE Contract!Renew(s)
    BY <2>1, <2>2, <2>5, Lifetimes DEF Contract!Renew
  <2>6. Keeps => UNCHANGED mapped
    BY <1>1, <2>1, <2>2 DEF mapped
  <2>7. \/ Keeps \/ \E s \in Sock : Opens(s) \/ (Closes(s) /\ Usable(s))
                                     \/ (Resets(s) /\ ~IsOpen(s) /\ sk'[s] = Fresh)
    BY <1>2 DEF Calling, Sock
  <2> QED BY <2>3, <2>4, <2>5, <2>6, <2>7 DEF Contract!Next
<1>3. CASE ClosingAlone
  <2>1. PICK s \in Sock : cursor' = s /\ Usable(s) /\ Closes(s)
    BY <1>3 DEF ClosingAlone
  <2>2. PhaseNow = "app" /\ PhaseNow' = "sweep" /\ InSweep' /\ ~in_looping'
    BY <1>3 DEF ClosingAlone, PhaseNow, InSweep
  <2>3. s \in Closing'
    BY <1>1, <2>1
  <2>4. DueNow' = {s}
    BY <1>0, <2>1, <2>2, <2>3 DEF DueSet
  <2>5. Contract!CloseAlone(s)
    BY <2>1, <2>2, <2>4, Lifetimes DEF Contract!CloseAlone
  <2> QED BY <2>5 DEF Contract!Next
<1>4. CASE Halting /\ Next
  <2>1. pc # "cascade"
    <3>1. pc = "cascade" => CascadeAborts
      BY <1>4 DEF Halting, Next, AppCall, Reinit, Connect, ListenOn, Accept, AcceptFails, ReadStart,
         ReadStop, FirstWrite, NextWrite, Close, DisableTimeout, InApp, CallLoop, SelectReady,
         SelectNothing, SelectFails, EnterLoop, CallbackReturns, ConnCbReturns, ReadCbReturns,
         Poll, ScanEnds, NotReadable, RecvAborts, RecvServer, RecvNoBuffer, RecvData, Recv,
         CanRecv, NotWritable, SendAborts, SendNothing, SendFails, SendData, Send, CanSend,
         NextSocket, Sweep, SweepEnds, SweepTimeout, SweepOthers, Sweeping, Reap, CascadeMoves,
         CascadeCloses, Release, SamePort
    <3> QED BY <3>1, NoCascadeAborts
  <2>2. Lives' = Lives
    BY <1>4 DEF Halting, Lives, LifeOf, IsOpen, Eof
  <2>3. ~InSweep /\ ~InSweep' /\ PhaseNow' = "scan" /\ PhaseNow \in {"app", "scan"}
    BY <1>4, <2>1 DEF Halting, InSweep, PhaseNow
  <2>4. DueNow = {} /\ DueNow' = {}
    BY <2>3 DEF DueNow
  <2> QED BY <2>2, <2>3, <2>4 DEF Contract!Next, Contract!Scan, mapped
<1>5. ASSUME Keeps, pc' = "sweep", pc \notin {"sweep", "reap", "cascade", "release", "halt"},
             cursor' = First(socks), socks' = socks
      PROVE  Contract!Sweep
  <2>1. PhaseNow # "sweep" /\ PhaseNow' = "sweep" /\ Lives' = Lives
    BY <1>1, <1>5 DEF PhaseNow, InSweep
  <2>2. in_looping' /\ InSweep'
    BY <1>5 DEF IInv, ControlInv, Looping, InSweep
  <2>3. From' = cursor' /\ GoodList' /\ Listed' = Listed
    BY <1>0, <1>5 DEF From, GoodList, Listed
  <2>4. Rest(From)' = Rest(First(socks))'
    BY <1>5, <2>3 DEF Rest
  <2>5. Rest(From)' = Listed
    BY <2>3, <2>4, NextRestFirst
  <2>6. Closing \subseteq Listed
    BY <1>5, Facts DEF Closing, OpenSet
  <2>7. DueNow' = Closing
    BY <1>0, <1>1, <1>5, <2>2, <2>5, <2>6 DEF DueSet
  <2>8. Contract!Is("closing") = Closing
    <3>1. \A s \in Sock : LifeOf(s) = "closing" <=> s \in Closing
      BY DEF DueDef
    <3> QED BY <3>1 DEF Contract!Is, Lives, Closing
  <2> QED BY <2>1, <2>7, <2>8 DEF Contract!Sweep
<1>6. CASE Entering
  <2>1. CASE pc' = "sweep"
    BY <1>5, <1>6, <2>1 DEF Entering, Contract!Next
  <2>2. CASE pc' # "sweep"
    <3>1. ~InSweep /\ ~InSweep' /\ PhaseNow = "app" /\ PhaseNow' \in {"scan", "app"}
      BY <1>6, <2>2 DEF Entering, InSweep, PhaseNow
    <3>2. DueNow = {} /\ DueNow' = {} /\ Lives' = Lives
      BY <1>1, <1>6, <3>1 DEF DueNow, Entering
    <3> QED BY <3>1, <3>2 DEF Contract!Next, Contract!Scan, mapped
  <2> QED BY <2>1, <2>2
<1>7. CASE Scanning
  <2>1. CASE pc' = "sweep"
    BY <1>5, <1>7, <2>1 DEF Scanning, ScanPoint, Contract!Next
  <2>2. CASE pc' # "sweep"
    <3>1. ~InSweep /\ ~InSweep' /\ PhaseNow = "scan" /\ PhaseNow' = "scan"
      BY <1>7, <2>2 DEF Scanning, ScanPoint, InSweep, PhaseNow
    <3>2. DueNow = {} /\ DueNow' = {}
      BY <3>1 DEF DueNow
    <3>3. ASSUME NEW s \in Sock, Closes(s), Usable(s) PROVE Contract!Close(s)
      BY <3>1, <3>2, <3>3, Lifetimes DEF Contract!Close
    <3>4. Lives' = Lives \/ \E s \in Sock : Closes(s) /\ Usable(s)
      BY <1>0, <1>1, <1>7, Facts DEF Scanning
    <3> QED BY <3>1, <3>2, <3>3, <3>4 DEF Contract!Next, mapped
  <2> QED BY <2>1, <2>2
<1>8. CASE Leaving
  <2>1. PhaseNow = "sweep" /\ PhaseNow' = "app" /\ Lives' = Lives /\ ~InSweep' /\ From = NoSock
    BY <1>1, <1>8 DEF Leaving, PhaseNow, InSweep, From
  <2>2. Rest(From) = {}
    BY <1>0, <2>1, RestSelf
  <2>3. DueNow = {} /\ DueNow' = {}
    <3>1. NoSock \notin Closing
      BY <1>0 DEF Closing
    <3> QED BY <1>0, <1>8, <2>1, <2>2, <3>1 DEF DueSet, Leaving
  <2> QED BY <2>1, <2>3 DEF Contract!Next, Contract!Leave
<1>9. CASE TimingOut
  <2>1. cursor \in Sock /\ Closes(cursor) /\ cursor' = cursor /\ in_looping' = in_looping
    BY <1>0, <1>9, Facts DEF TimingOut
  <2>2. PhaseNow = "sweep" /\ PhaseNow' = "sweep" /\ InSweep /\ InSweep' /\ From = cursor /\ From' = cursor
    BY <1>9 DEF TimingOut, PhaseNow, InSweep, From
  <2>3. Rest(From)' = Rest(From)
    <3>1. socks' = socks
      BY <2>1 DEF Closes
    <3> QED BY <2>2, <3>1 DEF Rest, Listed, Index
  <2>4. CASE Usable(cursor)
    <3>1. DueNow' = DueNow \cup {cursor}
      BY <1>0, <1>1, <2>1, <2>2, <2>3, <2>4 DEF DueSet
    <3>2. Contract!Close(cursor)
      BY <2>1, <2>2, <2>4, <3>1, Lifetimes DEF Contract!Close
    <3> QED BY <2>1, <3>2 DEF Contract!Next
  <2>5. CASE ~Usable(cursor)
    <3>1. DueNow' = DueNow /\ Lives' = Lives
      BY <1>0, <1>1, <2>1, <2>2, <2>3, <2>5 DEF DueSet
    <3> QED BY <2>2, <3>1 DEF mapped
  <2> QED BY <2>4, <2>5
<1>10. CASE Passing
  <2>1. /\ cursor \in Listed /\ Keeps /\ socks' = socks /\ in_looping' = in_looping /\ in_looping
    BY <1>0, <1>10, Facts DEF Passing, Looping
  <2>2. PhaseNow = "sweep" /\ PhaseNow' = "sweep" /\ InSweep /\ InSweep' /\ From = cursor /\ From' = cursor'
    BY <1>10 DEF Passing, PhaseNow, InSweep, From
  <2>3. CASE cursor' = cursor
    <3>1. Rest(From)' = Rest(From)
      BY <2>1, <2>2, <2>3 DEF Rest, Listed, Index
    <3>2. DueNow' = DueNow /\ Lives' = Lives
      BY <1>0, <1>1, <2>1, <2>2, <2>3, <3>1 DEF DueSet
    <3> QED BY <2>2, <3>2 DEF mapped
  <2>4. CASE cursor' = After(cursor) /\ ~Eof(cursor)
    <3>1. Rest(From)' = Rest(After(cursor))
      BY <2>1, <2>2, <2>4 DEF Rest, Listed, Index
    <3>2. /\ Rest(From) = {cursor} \cup Rest(After(cursor)) /\ cursor \notin Closing
          /\ After(cursor) \in Rest(After(cursor)) \/ After(cursor) \notin Sock
      <4>1. /\ Rest(cursor) = {cursor} \cup Rest(After(cursor)) /\ After(cursor) # cursor
            /\ After(cursor) # NoSock => After(cursor) \in Rest(cursor)
        BY <1>0, <2>1, RestAfter
      <4> QED BY <1>0, <2>2, <2>4, <4>1 DEF Closing
    <3>3. \A s \in Closing : (s = After(cursor) \/ s \in Rest(After(cursor))) <=> (s = cursor \/ s \in Rest(From))
      BY <3>2 DEF Closing
    <3>4. DueNow' = DueNow /\ Lives' = Lives
      BY <1>0, <1>1, <2>1, <2>2, <2>4, <3>1, <3>3 DEF DueSet
    <3> QED BY <2>2, <3>4 DEF mapped
  <2> QED BY <1>10, <2>3, <2>4 DEF Passing
<1>11. CASE Reaping
  <2>1. /\ cursor \in Listed /\ cursor' = cursor /\ Keeps /\ in_looping' = in_looping /\ pc = "reap"
        /\ pc' \in {"cascade", "release"} /\ socks' = Without(cursor)
        /\ in_looping => nxt' = After(cursor)
    BY <1>11, Facts DEF Reaping
  <2>2. PhaseNow = "sweep" /\ PhaseNow' = "sweep" /\ InSweep /\ InSweep' /\ From = cursor /\ From' = nxt'
    BY <2>1 DEF PhaseNow, InSweep, From
  <2>3. Rest(cursor) = {cursor} \cup Rest(After(cursor))
    BY <1>0, <2>1, RestAfter
  <2>4. in_looping => Rest(From)' = Rest(After(cursor))
    <3>1. Rest(From)' = Rest(nxt)'
      BY <2>2 DEF Rest
    <3> QED BY <1>11, <3>1, ReapedRest
  <2>5. DueNow' = DueNow /\ Lives' = Lives
    BY <1>0, <1>1, <2>1, <2>2, <2>3, <2>4 DEF DueSet
  <2> QED BY <2>2, <2>5 DEF mapped
<1>12. CASE Cascading
  <2>1. /\ pc = "cascade" /\ pc' \in {"cascade", "release"} /\ cursor' = cursor
        /\ nxt' = nxt /\ in_looping' = in_looping /\ socks' = socks
    BY <1>12 DEF Cascading, Closes
  <2>2. PhaseNow = "sweep" /\ PhaseNow' = "sweep" /\ InSweep /\ InSweep' /\ From = nxt /\ From' = nxt
    BY <2>1 DEF PhaseNow, InSweep, From
  <2>3. Rest(From)' = Rest(From)
    BY <2>1, <2>2 DEF Rest, Listed, Index
  <2>4. CASE Keeps
    <3>1. DueNow' = DueNow /\ Lives' = Lives
      BY <1>0, <1>1, <2>1, <2>2, <2>3, <2>4 DEF DueSet
    <3> QED BY <2>2, <3>1 DEF mapped
  <2>5. ASSUME NEW s \in Sock, Closes(s), Usable(s)
        PROVE  Contract!Close(s)
    <3>1. DueNow' \in {DueNow, DueNow \cup {s}}
      BY <1>0, <1>1, <2>1, <2>2, <2>3, <2>5 DEF DueSet
    <3> QED BY <2>2, <2>5, <3>1, Lifetimes DEF Contract!Close
  <2>6. Keeps \/ \E s \in Sock : Closes(s) /\ Usable(s)
    BY <1>0, <1>12, Facts DEF Cascading, SamePort, Closes, Usable
  <2> QED BY <2>4, <2>5, <2>6 DEF Contract!Next
<1>13. CASE Releases
  <2>1. /\ pc = "release" /\ cursor \in Sock /\ Resets(cursor) /\ IsOpen(cursor) /\ Eof(cursor)
        /\ cursor' = nxt /\ in_looping' = in_looping /\ cursor \in Closing
        /\ pc' = IF in_looping THEN "sweep" ELSE "app"
    BY <1>13, Facts DEF Releases, Closing
  <2>2. PhaseNow = "sweep" /\ InSweep /\ From = nxt
    BY <2>1 DEF PhaseNow, InSweep, From
  <2>3. /\ cursor \in DueNow
        /\ Contract!Becomes(cursor, "closing", "closed") \/ Contract!Becomes(cursor, "closing", "new")
    BY <1>0, <2>1, <2>2, Lifetimes DEF DueSet
  <2>4. Closing' = Closing \ {cursor}
    <3>1. sk'[cursor].fd = NoFd
      BY <2>1, ReleasedFields DEF Resets
    <3> QED BY <2>1, <3>1 DEF Closing, Resets, OthersSame, IsOpen, Eof
  <2>5. CASE in_looping
    <3>1. PhaseNow' = "sweep" /\ InSweep' /\ From' = nxt
      BY <2>1, <2>5 DEF PhaseNow, InSweep, From
    <3>2. Rest(From)' = Rest(From)
      BY <2>1, <2>2, <3>1 DEF Rest, Listed, Index, Resets
    <3>3. nxt \in Rest(nxt) \/ nxt \notin Sock
      BY <1>0, <2>1, Facts, RestSelf
    <3>4. cursor \notin Rest(nxt) /\ cursor # nxt
      BY <1>0, <2>1, Facts, RestSelf DEF Resets
    <3>5. DueNow' = DueNow \ {cursor}
      BY <1>0, <2>1, <2>2, <2>4, <2>5, <3>1, <3>2, <3>3, <3>4 DEF DueSet, Closing
    <3>6. Contract!Release(cursor)
      BY <2>2, <2>3, <3>1, <3>5 DEF Contract!Release
    <3> QED BY <2>1, <3>6 DEF Contract!Next
  <2>6. CASE ~in_looping
    <3>1. PhaseNow' = "app" /\ ~InSweep'
      BY <2>1, <2>6 DEF PhaseNow, InSweep
    <3>2. DueNow = {cursor} /\ DueNow' = {}
      BY <1>0, <2>1, <2>2, <2>6, <3>1 DEF DueSet
    <3>3. Contract!Release(cursor)
      BY <2>2, <2>3, <3>1, <3>2 DEF Contract!Release
    <3> QED BY <2>1, <3>3 DEF Contract!Next
  <2> QED BY <1>0, <2>5, <2>6
<1>14. CASE UNCHANGED vars
  <2>1. UNCHANGED <<sk, socks, pc, cursor, nxt, in_looping>>
    BY <1>14 DEF vars
  <2> QED BY <2>1 DEF mapped, Lives, PhaseNow, DueNow, LifeOf, InSweep, Ahead, IsOpen, Eof, Index
<1>15. [Next]_vars => Next \/ UNCHANGED vars
  OBVIOUS
<1> QED BY <1>2, <1>3, <1>4, <1>6, <1>7, <1>8, <1>9, <1>10, <1>11, <1>12, <1>13, <1>14, <1>15, Kinds

(* The detailed loop implements the life of a socket that SocketLife       *)
(* promises: new, open, closing, closed, closing sockets released by the   *)
(* sweep alone or by zsocket_close outside the loop, and all that are due  *)
(* released before zsocket_loop returns.  It needs that a port has one     *)
(* server and that a server with connections is closed in the loop only:   *)
(* elsewhere __zsocket_close asserts.                                      *)
THEOREM SocketLives ==
  ASSUME "port_sharing" \notin Env, "server_close" \notin Env
  PROVE  Spec => ImplementsSocketLife
<1>1. Init => Roles /\ Sorted /\ Contract!Init
  BY RolesInit, SortedInit, ContractInit
<1>2. IInv /\ IInv' /\ Roles /\ Sorted /\ [Next]_vars => Roles' /\ Sorted'
  BY RolesStep, SortedStep
<1>3. IInv => DueDef
  BY DueIs
<1>4. IInv /\ IInv' /\ Roles /\ Sorted /\ DueDef /\ DueDef' /\ [Next]_vars => [Contract!Next]_mapped
  BY ContractStep
<1>5. mapped = <<Lives, PhaseNow, DueNow>>
  BY DEF mapped
<1> QED BY Invariance, <1>1, <1>2, <1>3, <1>4, PTL DEF Spec, ImplementsSocketLife, Contract!Spec, mapped

-----------------------------------------------------------------------------
(* The assertions.                                                         *)

(* The flags of a usable socket tell what select() watches of it.          *)
FlagOk(s) ==
  Usable(s) => /\ "READ_ENABLE" \in sk[s].state <=> sk[s].fd \in watch.read
               /\ "WRITE_ENABLE" \in sk[s].state <=> sk[s].fd \in watch.write
               /\ "WRITE_ENABLE" \in sk[s].state <=> sk[s].wbuf # NoBuf

(* They do for every socket, and what select() reported is still watched:  *)
(* a callback neither closes nor stops what the scan has yet to come to.   *)
Flags ==
  /\ \A s \in Sock : FlagOk(s)
  /\ pc \in ScanPoint => sel.read \subseteq watch.read /\ sel.write \subseteq watch.write

(* What a step has to do: keep the flags, and watch what is reported.      *)
FlagsKept ==
  /\ \A s \in Sock : FlagOk(s)'
  /\ pc \in ScanPoint => /\ sel'.read \cap watch.read \subseteq watch'.read
                         /\ sel'.write \cap watch.write \subseteq watch'.write

(* No socket is usable at the start.                                       *)
LEMMA FlagsInit ==
  ASSUME Init
  PROVE  Flags
BY DEF Init, Flags, FlagOk, Usable, IsOpen, Fresh, ScanPoint

(* A step that touches no socket keeps the flags.                          *)
LEMMA FlagsSame ==
  ASSUME Flags, UNCHANGED <<sk, watch>>
  PROVE  FlagsKept
BY DEF Flags, FlagsKept, FlagOk, Usable, IsOpen, Eof

(* A step that changes one socket and what is watched of it.               *)
LEMMA FlagsOne ==
  ASSUME IInv, Flags, NEW s \in Sock, OthersSame(s), NEW f,
         watch'.read \ {f} = watch.read \ {f}, watch'.write \ {f} = watch.write \ {f},
         \A t \in Sock \ {s} : IsOpen(t) => sk[t].fd # f,
         FlagOk(s)'
  PROVE  \A t \in Sock : FlagOk(t)'
<1> SUFFICES ASSUME NEW t \in Sock, t # s PROVE FlagOk(t)'
  OBVIOUS
<1>1. sk'[t] = sk[t] /\ FlagOk(t)
  BY DEF OthersSame, Flags
<1> QED BY <1>1 DEF FlagOk, Usable, IsOpen, Eof

(* No other open socket has the descriptor of an open one.                 *)
LEMMA FdOfOne ==
  ASSUME IInv, NEW s \in Sock, IsOpen(s)
  PROVE  /\ sk[s].fd \in Fd
         /\ \A t \in Sock \ {s} : IsOpen(t) => sk[t].fd # sk[s].fd
BY OpenFd DEF IInv, DataInv, WatchedAreUsable

(* Closing a socket takes its descriptor out of both sets and touches no   *)
(* other socket.                                                           *)
LEMMA FlagsClosed ==
  ASSUME IInv, Flags, NEW s \in Sock, Closes(s), watch' = Unwatch(sk[s].fd)
  PROVE  /\ \A t \in Sock : FlagOk(t)'
         /\ watch'.read = watch.read \ {sk[s].fd} /\ watch'.write = watch.write \ {sk[s].fd}
<1>1. IsOpen(s) /\ OthersSame(s) /\ NextEof(s)
  BY DEF Closes
<1>2. watch'.read = watch.read \ {sk[s].fd} /\ watch'.write = watch.write \ {sk[s].fd}
  BY <1>1, FdOfOne, UnwatchEffect DEF IInv, DataInv
<1>3. FlagOk(s)'
  BY <1>1 DEF FlagOk, Usable, Eof, NextEof
<1> QED BY <1>1, <1>2, <1>3, FdOfOne, FlagsOne

(* A new socket has a descriptor that was not watched.                     *)
LEMMA FlagsOpened ==
  ASSUME IInv, Flags, NEW s \in Sock, OthersSame(s), NEW f \in Fd \ OpenFds, sk'[s].fd = f,
         sk'[s].wbuf = NoBuf, UNCHANGED sel,
         \/ watch' = watch /\ sk'[s].state = {}
         \/ watch' = WatchRead(f) /\ sk'[s].state = {"READ_ENABLE"}
  PROVE  FlagsKept
<1>1. f \notin watch.read /\ f \notin watch.write
  BY ZSocketAssumption DEF IInv, DataInv, WatchedAreUsable, OpenFds, IsOpen, NoFd
<1>2. \A t \in Sock \ {s} : IsOpen(t) => sk[t].fd # f
  BY DEF OpenFds
<1>3. /\ watch'.write = watch.write
      /\ watch'.read = IF sk'[s].state = {} THEN watch.read ELSE watch.read \cup {f}
  <2>1. {"READ_ENABLE"} # {}
    OBVIOUS
  <2> QED BY <2>1, WatchReadEffect DEF IInv, DataInv
<1>4. FlagOk(s)'
  BY <1>1, <1>3 DEF FlagOk
<1>5. \A t \in Sock : FlagOk(t)'
  BY <1>2, <1>3, <1>4, FlagsOne
<1> QED BY <1>3, <1>5 DEF FlagsKept

-----------------------------------------------------------------------------

(* The three calls that open a socket keep the flags.                      *)
LEMMA OpenedKept ==
  ASSUME IInv, Flags
  PROVE  /\ \A s \in User, f \in Fd : Connect(s, f) => FlagsKept
         /\ \A s \in User, f \in Fd, p \in Port : ListenOn(s, f, p) => FlagsKept
         /\ \A c \in Heap, f \in Fd : Accept(c, f) => FlagsKept
<1>1. ASSUME NEW s \in User, NEW f \in Fd, Connect(s, f) PROVE FlagsKept
  <2>1. s \in Sock /\ Open(s, f, "client", "fresh", Assigned, {}) /\ watch' = watch /\ "EOF" \notin {}
    BY <1>1 DEF Connect, Sock
  <2>2. OthersSame(s) /\ sk'[s].fd = f /\ f \notin OpenFds /\ sk'[s].wbuf = NoBuf /\ sk'[s].state = {}
        /\ UNCHANGED <<in_looping, pc, cursor, nxt, peer, sel, fault, notified>>
    BY <2>1, OpenFields DEF IInv
  <2> QED BY <2>1, <2>2, FlagsOpened
<1>2. ASSUME NEW s \in User, NEW f \in Fd, NEW p \in Port, ListenOn(s, f, p) PROVE FlagsKept
  <2>1. s \in Sock /\ Open(s, f, "server", "zero", p, {"READ_ENABLE"}) /\ watch' = WatchRead(f)
        /\ "EOF" \notin {"READ_ENABLE"}
    BY <1>2 DEF ListenOn, Sock
  <2>2. OthersSame(s) /\ sk'[s].fd = f /\ f \notin OpenFds /\ sk'[s].wbuf = NoBuf
        /\ sk'[s].state = {"READ_ENABLE"}
        /\ UNCHANGED <<in_looping, pc, cursor, nxt, peer, sel, fault, notified>>
    BY <2>1, OpenFields DEF IInv
  <2> QED BY <2>1, <2>2, FlagsOpened
<1>3. ASSUME NEW c \in Heap, NEW f \in Fd, Accept(c, f) PROVE FlagsKept
  <2>0. PICK p : p = LocalPort(sk[cursor].port)
    OBVIOUS
  <2>1. c \in Sock /\ Open(c, f, "connection", "fresh", p, {}) /\ watch' = watch /\ "EOF" \notin {}
    BY <1>3, <2>0 DEF Accept, Sock
  <2>2. OthersSame(c) /\ sk'[c].fd = f /\ f \notin OpenFds /\ sk'[c].wbuf = NoBuf /\ sk'[c].state = {}
        /\ UNCHANGED <<in_looping, pc, cursor, nxt, peer, sel, fault, notified>>
    BY <2>1, OpenFields DEF IInv
  <2> QED BY <2>1, <2>2, FlagsOpened
<1> QED BY <1>1, <1>2, <1>3

(* zsocket_init keeps them.                                                *)
LEMMA ReinitKept ==
  ASSUME IInv, Flags, NEW s \in User, Reinit(s)
  PROVE  FlagsKept
<1>1. s \in Sock /\ sk' = [sk EXCEPT ![s] = Fresh] /\ watch' = watch /\ sel' = sel /\ ~IsOpen(s)
  BY DEF Reinit, Sock, control
<1>2. sk'[s] = Fresh /\ OthersSame(s)
  BY <1>1 DEF OthersSame, IInv, DataInv
<1>3. FlagOk(s)'
  BY <1>2 DEF FlagOk, Usable, IsOpen, Fresh
<1>4. \A t \in Sock : FlagOk(t)'
  BY <1>1, <1>2, <1>3, FlagsOne DEF IsOpen
<1> QED BY <1>1, <1>4 DEF FlagsKept

(* The flags tell zsocket_read_start and zsocket_read_stop the truth.      *)
LEMMA ReadStartKept ==
  ASSUME IInv, Flags, NEW s \in Sock, ReadStart(s)
  PROVE  FlagsKept /\ pc' = pc
<1>1. InApp /\ Usable(s) /\ sk[s].fd \notin watch.read /\ "READ_ENABLE" \notin sk[s].state
  BY DEF ReadStart, Flags, FlagOk
<1> DEFINE r == [sk[s] EXCEPT !.state = sk[s].state \cup {"READ_ENABLE"}]
<1>2. sk' = [sk EXCEPT ![s] = r] /\ watch' = WatchRead(sk[s].fd) /\ sel' = sel /\ pc' = pc
  BY <1>1 DEF ReadStart, IInv, DataInv, control
<1>3. sk[s] \in Socket /\ sk[s].state \cup {"READ_ENABLE"} \in SUBSET Flag /\ IsOpen(s) /\ sk[s].fd \in Fd
  BY <1>1, UsableSocket DEF Flag
<1>4. /\ r.state = sk[s].state \cup {"READ_ENABLE"} /\ r.fd = sk[s].fd /\ r.wbuf = sk[s].wbuf
  BY <1>3, NewState
<1> HIDE DEF r
<1>5. sk'[s] = r /\ OthersSame(s)
  BY <1>2 DEF OthersSame, IInv, DataInv
<1>6. watch'.read = watch.read \cup {sk[s].fd} /\ watch'.write = watch.write
  BY <1>2, <1>3, WatchReadEffect DEF IInv, DataInv
<1>7. FlagOk(s)'
  BY <1>1, <1>4, <1>5, <1>6 DEF Flags, FlagOk, Usable
<1>8. \A t \in Sock : FlagOk(t)'
  BY <1>3, <1>5, <1>6, <1>7, FdOfOne, FlagsOne
<1> QED BY <1>2, <1>6, <1>8 DEF FlagsKept

(* So they tell zsocket_read_stop.                                         *)
LEMMA ReadStopKept ==
  ASSUME IInv, Flags, NEW s \in Sock, ReadStop(s), "stale_close" \notin Env
  PROVE  FlagsKept /\ pc' = pc
<1>1. InApp /\ Usable(s) /\ sk[s].fd \in watch.read /\ "READ_ENABLE" \in sk[s].state
      /\ sk[s].fd \notin sel.read
  BY DEF ReadStop, Flags, FlagOk
<1> DEFINE r == [sk[s] EXCEPT !.state = sk[s].state \ {"READ_ENABLE"}]
<1>2. sk' = [sk EXCEPT ![s] = r] /\ watch' = UnwatchRead(sk[s].fd) /\ sel' = sel /\ pc' = pc
  BY <1>1 DEF ReadStop, IInv, DataInv, control
<1>3. sk[s] \in Socket /\ sk[s].state \ {"READ_ENABLE"} \in SUBSET Flag /\ IsOpen(s) /\ sk[s].fd \in Fd
  BY <1>1, UsableSocket DEF Flag
<1>4. /\ r.state = sk[s].state \ {"READ_ENABLE"} /\ r.fd = sk[s].fd /\ r.wbuf = sk[s].wbuf
  BY <1>3, NewState
<1> HIDE DEF r
<1>5. sk'[s] = r /\ OthersSame(s)
  BY <1>2 DEF OthersSame, IInv, DataInv
<1>6. watch'.read = watch.read \ {sk[s].fd} /\ watch'.write = watch.write
  BY <1>2, <1>3, UnwatchReadEffect DEF IInv, DataInv
<1>7. FlagOk(s)'
  BY <1>1, <1>4, <1>5, <1>6 DEF Flags, FlagOk, Usable
<1>8. \A t \in Sock : FlagOk(t)'
  <2>1. /\ watch'.read \ {sk[s].fd} = watch.read \ {sk[s].fd}
        /\ watch'.write \ {sk[s].fd} = watch.write \ {sk[s].fd}
    BY <1>6
  <2>2. \A t \in Sock \ {s} : IsOpen(t) => sk[t].fd # sk[s].fd
    BY <1>3, FdOfOne
  <2> QED BY <1>5, <1>7, <2>1, <2>2, FlagsOne
<1> QED BY <1>1, <1>2, <1>6, <1>8 DEF FlagsKept

(* WRITE_ENABLE tells zsocket_write whether it has allocated the buffer.   *)
LEMMA FirstWriteKept ==
  ASSUME IInv, Flags, NEW s \in Sock, NEW n \in 1..MaxWrite, FirstWrite(s, n)
  PROVE  FlagsKept /\ pc' = pc
<1>1. InApp /\ Usable(s) /\ "WRITE_ENABLE" \notin sk[s].state /\ sk[s].wbuf = NoBuf
  BY DEF FirstWrite, Flags, FlagOk
<1>2. PICK b \in Enqueued(New(BufSize), n) :
        sk' = [sk EXCEPT ![s].state = @ \cup {"WRITE_ENABLE"}, ![s].wbuf = b]
  BY <1>1 DEF FirstWrite
<1> DEFINE q == [sk[s] EXCEPT !.state = sk[s].state \cup {"WRITE_ENABLE"}]
           r == [q EXCEPT !.wbuf = b]
<1>3. sk' = [sk EXCEPT ![s] = r] /\ watch' = WatchWrite(sk[s].fd) /\ sel' = sel /\ pc' = pc
  BY <1>1, <1>2 DEF FirstWrite, IInv, DataInv, control
<1>4. /\ sk[s] \in Socket /\ sk[s].state \cup {"WRITE_ENABLE"} \in SUBSET Flag /\ ~Eof(s)
      /\ IsOpen(s) /\ sk[s].fd \in Fd
  BY <1>1, UsableSocket DEF Flag
<1>5. b \in BufferOrNone /\ b # NoBuf
  <2>1. n \in Nat /\ BufSize \in Nat
    BY ZSocketAssumption
  <2> QED BY <2>1, NewType, EnqueuedType, NoBufType DEF BufferOrNone
<1>6. /\ q \in Socket /\ q.state = sk[s].state \cup {"WRITE_ENABLE"} /\ q.fd = sk[s].fd
  BY <1>4, NewState
<1> HIDE DEF q
<1>7. /\ r.state = q.state /\ r.fd = q.fd /\ r.wbuf = b
  BY <1>5, <1>6, NewWbuf
<1> HIDE DEF r
<1>8. sk'[s] = r /\ OthersSame(s)
  BY <1>3 DEF OthersSame, IInv, DataInv
<1>9. watch'.write = watch.write \cup {sk[s].fd} /\ watch'.read = watch.read
  BY <1>3, <1>4, WatchWriteEffect DEF IInv, DataInv
<1>10. FlagOk(s)'
  BY <1>1, <1>5, <1>6, <1>7, <1>8, <1>9 DEF Flags, FlagOk, Usable
<1>11. \A t \in Sock : FlagOk(t)'
  <2>1. /\ watch'.read \ {sk[s].fd} = watch.read \ {sk[s].fd}
        /\ watch'.write \ {sk[s].fd} = watch.write \ {sk[s].fd}
    BY <1>9
  <2>2. \A t \in Sock \ {s} : IsOpen(t) => sk[t].fd # sk[s].fd
    BY <1>4, FdOfOne
  <2> QED BY <1>8, <1>10, <2>1, <2>2, FlagsOne
<1> QED BY <1>3, <1>9, <1>11 DEF FlagsKept

(* An open socket gets another buffer or tick.                             *)
LEMMA BufferKept ==
  ASSUME IInv, Flags, NEW s \in Sock, IsOpen(s), NEW r, sk' = [sk EXCEPT ![s] = r], watch' = watch,
         r.fd = sk[s].fd, r.state = sk[s].state, r.wbuf = NoBuf <=> sk[s].wbuf = NoBuf
  PROVE  FlagsKept
<1>1. sk'[s] = r /\ OthersSame(s) /\ IsOpen(s)
  BY DEF OthersSame, IInv, DataInv, Usable
<1>2. FlagOk(s)'
  BY <1>1 DEF Flags, FlagOk, Usable, IsOpen, Eof
<1>3. \A t \in Sock : FlagOk(t)'
  BY <1>1, <1>2, FdOfOne, FlagsOne
<1> QED BY <1>3 DEF FlagsKept

(* The other writes only change the buffer.                                *)
LEMMA NextWriteKept ==
  ASSUME IInv, Flags, NEW s \in Sock, NEW n \in 1..MaxWrite, NextWrite(s, n)
  PROVE  FlagsKept
<1>1. /\ InApp /\ Usable(s) /\ "WRITE_ENABLE" \in sk[s].state /\ watch' = watch
  BY DEF NextWrite
<1>2. PICK b \in Enqueued(sk[s].wbuf, n) : sk' = [sk EXCEPT ![s].wbuf = b]
  BY DEF NextWrite
<1> DEFINE r == [sk[s] EXCEPT !.wbuf = b]
<1>3. sk' = [sk EXCEPT ![s] = r]
  BY <1>2 DEF IInv, DataInv
<1>4. sk[s] \in Socket /\ sk[s].wbuf \in Buffer
  BY <1>1, UsableSocket DEF BufferOrNone
<1>5. b \in BufferOrNone /\ b # NoBuf /\ sk[s].wbuf # NoBuf
  <2>1. n \in Nat
    BY ZSocketAssumption
  <2> QED BY <1>4, <2>1, EnqueuedType, NoBufType DEF BufferOrNone
<1>6. /\ r.state = sk[s].state /\ r.fd = sk[s].fd /\ r.wbuf = b
  BY <1>4, <1>5, NewWbuf
<1> HIDE DEF r
<1> QED BY <1>1, <1>3, <1>5, <1>6, BufferKept DEF Usable

(* Storing 0 in tick touches no flag.                                      *)
LEMMA DisableTimeoutKept ==
  ASSUME IInv, Flags, NEW s \in Heap, DisableTimeout(s)
  PROVE  FlagsKept
<1>1. /\ InApp /\ Usable(s) /\ s \in Sock /\ watch' = watch
      /\ sk' = [sk EXCEPT ![s].tick = "zero"]
  BY DEF DisableTimeout, Sock
<1> DEFINE r == [sk[s] EXCEPT !.tick = "zero"]
<1>2. sk' = [sk EXCEPT ![s] = r]
  BY <1>1 DEF IInv, DataInv
<1>3. sk[s] \in Socket
  BY <1>1, UsableSocket
<1>4. /\ r.state = sk[s].state /\ r.fd = sk[s].fd /\ r.wbuf = sk[s].wbuf
  BY <1>3, NewTick
<1> HIDE DEF r
<1> QED BY <1>1, <1>2, <1>4, BufferKept DEF Usable

(* zsocket_close of a socket without an event that is still to be handled. *)
LEMMA CloseKept ==
  ASSUME IInv, Flags, NEW s \in Sock, NEW cb \in CloseCb, Close(s, cb), "stale_close" \notin Env
  PROVE  FlagsKept
<1>1. /\ InApp /\ Usable(s) /\ MarkEof(s, sk[s], cb) /\ sel' = sel
      /\ sk[s].fd \notin sel.read \cup sel.write /\ UNCHANGED <<heap, socks>>
  BY DEF Close
<1>2. cb \in BOOLEAN /\ sk[s] \in Socket /\ IsOpen(s)
  BY <1>1, ZSocketAssumption, UsableSocket
<1>3. Closes(s) /\ watch' = Unwatch(sk[s].fd)
  BY <1>1, <1>2, CloseFields DEF IInv, MarkEof
<1> QED BY <1>1, <1>3, FlagsClosed DEF FlagsKept

(* Time passes, and select() reports.                                      *)
LEMMA CallLoopKept ==
  ASSUME IInv, Flags, CallLoop
  PROVE  FlagsKept /\ watch' = watch
<1>1. PICK late : late \subseteq Silent /\ EnterLoop(late)
  <2>1. {} \subseteq Silent
    OBVIOUS
  <2> QED BY <2>1 DEF CallLoop, SelectReady, SelectNothing, SelectFails
<1>2. /\ pc = "app" /\ watch' = watch
      /\ sk' = [s \in Sock |-> IF s \in late THEN [sk[s] EXCEPT !.tick = "expired"] ELSE sk[s]]
  BY <1>1 DEF EnterLoop
<1>3. ASSUME NEW s \in Sock
      PROVE  FlagOk(s)'
  <2>1. sk[s] \in Socket
    BY DEF IInv, DataInv
  <2>2. sk'[s].fd = sk[s].fd /\ sk'[s].state = sk[s].state /\ sk'[s].wbuf = sk[s].wbuf
    <3>1. CASE s \in late
      <4>1. sk'[s] = [sk[s] EXCEPT !.tick = "expired"]
        BY <1>2, <3>1
      <4> QED BY <2>1, <4>1, NewTick
    <3>2. CASE s \notin late
      BY <1>2, <3>2
    <3> QED BY <3>1, <3>2
  <2> QED BY <1>2, <2>2 DEF Flags, FlagOk, Usable, IsOpen, Eof
<1> QED BY <1>2, <1>3 DEF FlagsKept, ScanPoint

(* Data that is received touches no flag; only a failing recv() masks      *)
(* them.                                                                   *)
LEMMA RecvDataKept ==
  ASSUME IInv, Flags, NEW n \in -1..MaxBuf, RecvData(n), "recv_fail" \notin Env
  PROVE  FlagsKept
<1> DEFINE b == IF sk[cursor].rbuf = NoBuf THEN New(BufSize) ELSE sk[cursor].rbuf
           r == IF n = -1 THEN Masked(cursor, "READ_FAILED") ELSE sk[cursor]
           c == IF n > 0 THEN OffsetInHead(b, n) ELSE b
           q == [r EXCEPT !.rbuf = c]
           p == [q EXCEPT !.tick = "fresh"]
<1>1. /\ Recv("read_cb") /\ sk' = [sk EXCEPT ![cursor] = p]
      /\ n \in 0..Spare(b) /\ n # -1
  BY DEF RecvData
<1>2. /\ cursor \in Sock /\ IsOpen(cursor) /\ sk[cursor] \in Socket /\ watch' = watch
  BY <1>1, RecvFacts
<1>3. b \in Buffer
  <2>1. BufSize \in Nat
    BY ZSocketAssumption
  <2> QED BY <1>2, <2>1, NewType, SocketType DEF BufferOrNone
<1>4. r = sk[cursor]
  BY <1>1
<1> HIDE DEF b, r
<1>5. c \in BufferOrNone
  <2>1. CASE n > 0
    <3>1. n \in Nat /\ n <= Spare(b)
      BY <1>1, <1>3, <2>1 DEF Spare, Buffer
    <3> QED BY <1>3, <2>1, <3>1, OffsetInType DEF BufferOrNone
  <2>2. CASE ~(n > 0)
    BY <1>3, <2>2 DEF BufferOrNone
  <2> QED BY <2>1, <2>2
<1> HIDE DEF c
<1>6. /\ q \in Socket /\ q.fd = r.fd /\ q.state = r.state /\ q.wbuf = r.wbuf
  BY <1>2, <1>4, <1>5, NewRbuf
<1> HIDE DEF q
<1>7. /\ p.fd = q.fd /\ p.state = q.state /\ p.wbuf = q.wbuf
  BY <1>6, NewTick
<1> HIDE DEF p
<1> QED BY <1>1, <1>2, <1>4, <1>6, <1>7, BufferKept

(* The buffer that the callback leaves is emptied or doubled.              *)
LEMMA ReadCbReturnsKept ==
  ASSUME IInv, Flags, NEW n \in 0..(MaxBuf + 1), ReadCbReturns(n), "alloc_fail" \notin Env
  PROVE  FlagsKept
<1> DEFINE b == AfterRead(sk[cursor].rbuf, n)
           d == Realloc(b, b.size * 2, TRUE)
<1>1. PICK x \in {b, d} : sk' = [sk EXCEPT ![cursor].rbuf = x] /\ watch' = watch
  BY DEF ReadCbReturns, Grows
<1>2. cursor \in Sock /\ IsOpen(cursor)
  BY Cursor DEF OpenSet, ReadCbReturns
<1>3. sk[cursor] \in Socket /\ sk[cursor].rbuf \in BufferOrNone
  BY <1>2, SocketType DEF IInv, DataInv
<1>4. n \in Nat
  BY ZSocketAssumption
<1>5. x \in BufferOrNone
  BY <1>3, <1>4, AfterReadType
<1> HIDE DEF b, d
<1> DEFINE r == [sk[cursor] EXCEPT !.rbuf = x]
<1>6. sk' = [sk EXCEPT ![cursor] = r]
  BY <1>1, <1>2 DEF IInv, DataInv
<1>7. /\ r.fd = sk[cursor].fd /\ r.state = sk[cursor].state /\ r.wbuf = sk[cursor].wbuf
  BY <1>3, <1>5, NewRbuf
<1> HIDE DEF r
<1> QED BY <1>1, <1>2, <1>6, <1>7, BufferKept

(* A sent buffer stays allocated.                                          *)
LEMMA SendDataKept ==
  ASSUME IInv, Flags, NEW n \in 1..MaxBuf, SendData(n)
  PROVE  FlagsKept
<1> DEFINE w == sk[cursor].wbuf
           b == Collect(OffsetOutHead(w, n), {"LESS_SPARE"})
           r == [sk[cursor] EXCEPT !.wbuf = b]
<1>1. Send /\ n \in 1..Used(w)
  BY DEF SendData
<1>2. /\ cursor \in Sock /\ IsOpen(cursor) /\ sk[cursor] \in Socket /\ w \in Buffer
  BY <1>1, SendFacts
<1>3. Spare(b) > 0
  BY <1>1, <1>2, ConsumeLeavesRoom
<1>4. b \in BufferOrNone /\ b # NoBuf /\ w # NoBuf
  <2>1. n \in Nat
    BY ZSocketAssumption
  <2> QED BY <1>2, <2>1, OffsetOutType, CollectType, NoBufType DEF BufferOrNone
<1>5. sk' = [sk EXCEPT ![cursor].wbuf = b] /\ watch' = watch
  BY <1>3 DEF SendData
<1>6. sk' = [sk EXCEPT ![cursor] = r]
  BY <1>2, <1>5 DEF IInv, DataInv
<1> HIDE DEF b
<1>7. /\ r.fd = sk[cursor].fd /\ r.state = sk[cursor].state /\ r.wbuf = b
  BY <1>2, <1>4, NewWbuf
<1> HIDE DEF r
<1> QED BY <1>2, <1>4, <1>5, <1>6, <1>7, BufferKept

(* A failed send closes the socket whose two events are handled by then.   *)
LEMMA SendFailsKept ==
  ASSUME IInv, Flags, Counting, SendFails
  PROVE  FlagsKept
<1> DEFINE r == Masked(cursor, "WRITE_FAILED")
<1>1. Send /\ MarkEof(cursor, r, FALSE)
  BY DEF SendFails
<1>2. /\ pc = "send" /\ cursor \in Sock /\ IsOpen(cursor)
      /\ UNCHANGED <<heap, socks>>
  BY <1>1, SendFacts
<1>3. "WRITE_FAILED" \in Flag \ {"WRITE_ENABLE"} /\ FALSE \in BOOLEAN
  BY DEF Flag
<1>4. /\ r \in Socket /\ r.fd = sk[cursor].fd /\ r.type = sk[cursor].type
      /\ r.port = sk[cursor].port /\ r.tick = sk[cursor].tick
  BY <1>2, <1>3, MaskedSocket DEF IInv
<1> HIDE DEF r
<1>5. Closes(cursor) /\ watch' = Unwatch(sk[cursor].fd)
  BY <1>1, <1>2, <1>3, <1>4, CloseFields DEF IInv, MarkEof
<1>6. sel'.write = sel.write \ {sk[cursor].fd} /\ sel'.read = sel.read
  BY <1>1 DEF Send, IInv, ControlInv, Selected
<1>7. sk[cursor].fd \notin sel.read
  BY <1>2 DEF Counting, EventsAhead, ScanPoint
<1> QED BY <1>2, <1>5, <1>6, <1>7, FlagsClosed DEF FlagsKept

(* What the sweep closes or releases is no longer usable, and nobody else  *)
(* is touched.                                                             *)
LEMMA SweepKept ==
  ASSUME IInv, Flags, Sweep
  PROVE  FlagsKept
<1>1. CASE SweepTimeout
  <2> DEFINE r == Masked(cursor, "TIMEOUT")
  <2>1. /\ pc = "sweep" /\ cursor # NoSock /\ MarkEof(cursor, r, FALSE)
        /\ UNCHANGED <<heap, socks>>
    BY <1>1 DEF SweepTimeout, Sweeping
  <2>2. cursor \in Sock /\ IsOpen(cursor) /\ FALSE \in BOOLEAN
    BY <2>1, Cursor DEF OpenSet
  <2>3. "TIMEOUT" \in Flag \ {"WRITE_ENABLE"}
    BY DEF Flag
  <2>4. /\ r \in Socket /\ r.fd = sk[cursor].fd /\ r.type = sk[cursor].type
        /\ r.port = sk[cursor].port /\ r.tick = sk[cursor].tick
    BY <2>2, <2>3, MaskedSocket DEF IInv
  <2> HIDE DEF r
  <2>5. Closes(cursor) /\ watch' = Unwatch(sk[cursor].fd)
    BY <2>1, <2>2, <2>4, CloseFields DEF IInv, MarkEof
  <2> QED BY <2>1, <2>2, <2>5, FlagsClosed DEF FlagsKept, ScanPoint
<1>2. CASE CascadeCloses
  <2>1. /\ MarkEof(peer, sk[peer], FALSE) /\ pc = "cascade" /\ peer # NoSock
        /\ UNCHANGED <<heap, socks>>
    BY <1>2 DEF CascadeCloses, SamePort
  <2>2. peer \in Listed
    BY <2>1 DEF IInv, ControlInv, TraversalSafe
  <2>3. peer \in Sock /\ IsOpen(peer) /\ FALSE \in BOOLEAN
    BY <2>1, <2>2 DEF IInv, ControlInv, OpenSet
  <2>4. sk[peer] \in Socket
    BY <2>3, OpenFd DEF IInv
  <2>5. Closes(peer) /\ watch' = Unwatch(sk[peer].fd)
    BY <2>1, <2>3, <2>4, CloseFields DEF IInv, MarkEof
  <2> QED BY <2>1, <2>3, <2>5, FlagsClosed DEF FlagsKept, ScanPoint
<1>3. CASE Release
  <2> DEFINE r == IF in_looping /\ sk[cursor].type = "connection" THEN Fresh ELSE Released(sk[cursor])
  <2>1. pc = "release" /\ sk' = [sk EXCEPT ![cursor] = r] /\ watch' = watch
    BY <1>3 DEF Release
  <2>2. cursor \in Sock /\ IsOpen(cursor)
    BY <2>1 DEF IInv, ControlInv, OpenSet, Releasing
  <2>3. sk'[cursor] = r /\ OthersSame(cursor)
    BY <2>1, <2>2 DEF OthersSame, IInv, DataInv
  <2>4. r.fd = NoFd
    BY ReleasedFields DEF Fresh
  <2> HIDE DEF r
  <2>5. PICK c \in Sock : c = cursor
    BY <2>2
  <2>6. IsOpen(c) /\ OthersSame(c) /\ sk'[c].fd = NoFd
    BY <2>2, <2>3, <2>4, <2>5
  <2>7. FlagOk(c)'
    BY <2>6 DEF FlagOk, Usable, IsOpen
  <2>8. \A t \in Sock : FlagOk(t)'
    BY <2>1, <2>6, <2>7, FdOfOne, FlagsOne
  <2> QED BY <2>1, <2>8 DEF FlagsKept, ScanPoint
<1>4. CASE SweepEnds \/ SweepOthers \/ Reap \/ CascadeMoves \/ CascadeAborts
  <2>1. UNCHANGED <<sk, watch>>
    BY <1>4 DEF SweepEnds, SweepOthers, Reap, CascadeMoves, CascadeAborts, data, Abort
  <2> QED BY <2>1, FlagsSame
<1> QED BY <1>1, <1>2, <1>3, <1>4 DEF Sweep

(* Every call of the interface keeps the flags.                            *)
LEMMA AppCallKept ==
  ASSUME IInv, Flags, AppCall, "accept_fail" \notin Env, "stale_close" \notin Env
  PROVE  FlagsKept
<1>1. ASSUME NEW s \in User, Reinit(s)
      PROVE  FlagsKept
  BY <1>1, ReinitKept
<1>2. ASSUME NEW s \in Sock, ReadStart(s) \/ ReadStop(s)
      PROVE  FlagsKept
  BY <1>2, ReadStartKept, ReadStopKept
<1>3. ASSUME NEW s \in Sock, NEW n \in 1..MaxWrite, FirstWrite(s, n) \/ NextWrite(s, n)
      PROVE  FlagsKept
  BY <1>3, FirstWriteKept, NextWriteKept
<1>4. ASSUME NEW s \in Sock, NEW cb \in CloseCb, Close(s, cb)
      PROVE  FlagsKept
  BY <1>4, CloseKept
<1>5. ASSUME NEW s \in Heap, DisableTimeout(s)
      PROVE  FlagsKept
  BY <1>5, DisableTimeoutKept
<1>6. ~AcceptFails
  BY DEF AcceptFails
<1> QED BY <1>1, <1>2, <1>3, <1>4, <1>5, <1>6, OpenedKept DEF AppCall

(* Every point of the scan keeps them.                                     *)
LEMMA PollKept ==
  ASSUME IInv, Flags, Counting, Poll \/ CallbackReturns,
         "recv_fail" \notin Env, "alloc_fail" \notin Env
  PROVE  FlagsKept
<1>1. ASSUME ScanEnds \/ NotReadable \/ NotWritable \/ NextSocket \/ ConnCbReturns
             \/ RecvServer \/ RecvNoBuffer \/ SendNothing \/ RecvAborts \/ SendAborts
      PROVE  FlagsKept
  <2>1. UNCHANGED <<sk, watch>>
    BY <1>1 DEF ScanEnds, NotReadable, NotWritable, NextSocket, ConnCbReturns, RecvServer,
         RecvNoBuffer, SendNothing, RecvAborts, SendAborts, Recv, data, Abort
  <2> QED BY <2>1, FlagsSame
<1>2. ASSUME NEW n \in -1..MaxBuf, RecvData(n)
      PROVE  FlagsKept
  BY <1>2, RecvDataKept
<1>3. ASSUME NEW n \in 1..MaxBuf, SendData(n)
      PROVE  FlagsKept
  BY <1>3, SendDataKept
<1>4. ASSUME NEW n \in 0..(MaxBuf + 1), ReadCbReturns(n)
      PROVE  FlagsKept
  BY <1>4, ReadCbReturnsKept
<1> QED BY <1>1, <1>2, <1>3, <1>4, SendFailsKept DEF Poll, CallbackReturns

(* What select() reports it watches.                                       *)
LEMMA GatheringWatches ==
  ASSUME IInv, Flags, Next, Gathers
  PROVE  watch' = watch
<1>1. pc = "app" /\ pc' = "recv"
  BY DEF Gathers
<1>2. ~AppCall
  BY <1>1, AppCallKind DEF Calling, Still, ClosingAlone, Halting
<1>3. ~(Poll \/ CallbackReturns)
  BY <1>1, PollKind DEF Scanning, Halting, ScanPoint
<1>4. ~Sweep
  BY <1>1, SweepKind DEF Leaving, TimingOut, Passing, Reaping, Cascading, Releases, Halting
<1> QED BY <1>2, <1>3, <1>4, CallLoopKept DEF Next

(* Every step keeps them, and the events that are left are watched.        *)
LEMMA FlagsStep ==
  ASSUME IInv, Counting, Flags, [Next]_vars, "recv_fail" \notin Env, "accept_fail" \notin Env,
         "alloc_fail" \notin Env, "stale_close" \notin Env
  PROVE  Flags'
<1>1. CASE Next
  <2>1. FlagsKept
    BY <1>1, AppCallKept, CallLoopKept, PollKept, SweepKept DEF Next
  <2>2. sel \in Selected
    BY DEF IInv, ControlInv
  <2>3. CASE UNCHANGED <<sel, pc>>
    BY <2>1, <2>3 DEF Flags, FlagsKept
  <2>4. CASE (sel' = sel /\ pc \notin ScanPoint /\ pc' \notin ScanPoint) \/ pc' = "halt"
    BY <2>1, <2>4 DEF Flags, FlagsKept, ScanPoint
  <2>5. CASE Gathers
    BY <1>1, <2>1, <2>5, GatheringWatches DEF Gathers, Flags, FlagsKept
  <2>6. CASE Consumes
    <3>1. pc \in ScanPoint
      BY <2>6 DEF Consumes, ScanPoint
    <3>2. sel'.read \subseteq sel.read /\ sel'.write \subseteq sel.write
      BY <2>2, <2>6 DEF Consumes, Selected
    <3> QED BY <2>1, <3>1, <3>2 DEF Flags, FlagsKept
  <2> QED BY <1>1, <2>3, <2>4, <2>5, <2>6, Events
<1>2. CASE UNCHANGED vars
  BY <1>2 DEF vars, Flags, FlagOk, Usable, IsOpen, Eof
<1> QED BY <1>1, <1>2

(* No assertion of the program fails.                                      *)
LEMMA NoneAborts ==
  ASSUME IInv, Roles, Sorted, Flags, [Next]_vars, pc # "halt", "accept_fail" \notin Env
  PROVE  pc' # "halt"
<1>1. ~AcceptFails /\ ~CascadeAborts
  BY NoCascadeAborts DEF AcceptFails
<1>2. ASSUME NEW s \in Sock, ReadStart(s) \/ ReadStop(s) \/ \E n \in 1..MaxWrite : FirstWrite(s, n)
      PROVE  pc' = pc
  BY <1>2 DEF Flags, FlagOk, ReadStart, ReadStop, FirstWrite, control
<1>3. ~RecvAborts /\ ~SendAborts
  <2>1. ASSUME pc \in {"recv", "send"}, cursor \in Sock,
               NEW f, f = sk[cursor].fd, f \in watch.read \cup watch.write
        PROVE  Usable(cursor)
    <3>1. PICK s \in Sock : sk[s].fd = f /\ ~Eof(s)
      BY <2>1 DEF IInv, DataInv, WatchedAreUsable
    <3>2. sk[s].fd # NoFd
      <4>1. f \in Fd
        BY <2>1 DEF IInv, DataInv, Watch
      <4> QED BY <3>1, <4>1, ZSocketAssumption DEF NoFd
    <3>3. s = cursor
      BY <2>1, <3>1, <3>2 DEF IInv, DataInv, WatchedAreUsable, IsOpen
    <3> QED BY <3>1, <3>2, <3>3 DEF Usable, IsOpen
  <2>2. ASSUME RecvAborts PROVE FALSE
    <3>1. pc = "recv" /\ cursor \in Sock /\ sk[cursor].fd \in watch.read
      BY <2>2, Facts DEF RecvAborts, CanRecv, Flags, ScanPoint
    <3>2. Usable(cursor)
      BY <2>1, <3>1
    <3> QED BY <2>2, <3>1, <3>2 DEF RecvAborts, Flags, FlagOk, Usable
  <2>3. ASSUME SendAborts PROVE FALSE
    <3>1. pc = "send" /\ cursor \in Sock /\ sk[cursor].fd \in watch.write
      BY <2>3, Facts DEF SendAborts, CanSend, Flags, ScanPoint
    <3>2. Usable(cursor)
      BY <2>1, <3>1
    <3> QED BY <2>3, <3>1, <3>2 DEF SendAborts, Flags, FlagOk, Usable
  <2> QED BY <2>2, <2>3
<1>4. CASE AppCall
  <2>1. ASSUME NEW s, NEW f, NEW p, NEW n,
               Reinit(s) \/ Connect(s, f) \/ ListenOn(s, f, p) \/ Accept(s, f)
                 \/ NextWrite(s, n) \/ DisableTimeout(s)
        PROVE  pc' = pc
    BY <2>1 DEF Reinit, Connect, ListenOn, Accept, Open, NextWrite, DisableTimeout, control
  <2>2. ASSUME NEW s, NEW cb, Close(s, cb)
        PROVE  pc' \in {pc, "reap"}
    BY <2>2 DEF Close
  <2> QED BY <1>1, <1>2, <1>4, <2>1, <2>2 DEF AppCall
<1>5. CASE CallLoop
  BY <1>5 DEF CallLoop, SelectReady, SelectNothing, SelectFails
<1>6. CASE Poll \/ CallbackReturns
  BY <1>3, <1>6 DEF Poll, CallbackReturns, ScanEnds, NotReadable, RecvServer, RecvNoBuffer, RecvData,
     Recv, NotWritable, SendNothing, SendFails, SendData, Send, NextSocket, ConnCbReturns,
     ReadCbReturns
<1>7. CASE Sweep
  BY <1>1, <1>7 DEF Sweep, SweepEnds, SweepTimeout, SweepOthers, Reap, CascadeMoves, CascadeCloses,
     SamePort, Release
<1>8. CASE UNCHANGED vars
  BY <1>8 DEF vars
<1> QED BY <1>4, <1>5, <1>6, <1>7, <1>8 DEF Next

(* No assertion of zsocket.c fails and no pointer of a list that was left  *)
(* behind is followed, for any number of sockets and in any order of       *)
(* calls, errors of send() and select(), and timeouts.  The assumptions    *)
(* name the ways in which the code does fail: the state is masked by a     *)
(* failing recv() and by a failing realloc(), a failing accept() closes a  *)
(* socket that is not marked closed, and an application may close what the *)
(* scan has yet to come to, share a port, or close a server with           *)
(* connections outside the loop.                                           *)
THEOREM NeverAborts ==
  ASSUME "recv_fail" \notin Env, "accept_fail" \notin Env, "alloc_fail" \notin Env,
         "port_sharing" \notin Env, "stale_close" \notin Env, "server_close" \notin Env
  PROVE  Spec => []NoAbort
<1>1. Init => Counting /\ Roles /\ Sorted /\ Flags /\ NoAbort
  BY CountingInit, RolesInit, SortedInit, FlagsInit DEF Init, NoAbort
<1>0. IInv /\ IInv' /\ Counting /\ Roles /\ Sorted /\ [Next]_vars => Counting' /\ Roles' /\ Sorted'
  BY CountingStep, RolesStep, SortedStep
<1>2. IInv /\ Counting /\ Flags /\ [Next]_vars => Flags'
  BY FlagsStep
<1>3. IInv /\ Roles /\ Sorted /\ Flags /\ NoAbort /\ [Next]_vars => NoAbort'
  BY NoneAborts DEF NoAbort
<1> QED BY Invariance, <1>0, <1>1, <1>2, <1>3, PTL DEF Spec

=============================================================================
