----------------------- MODULE WebConnections_proofs ------------------------
(***************************************************************************)
(* Proofs about WebConnections, for every number of connections and every   *)
(* MAX_CONNECTIONS.                                                         *)
(***************************************************************************)
EXTENDS WebConnections, FiniteSetTheorems, TLAPS

\* What a step does to the set of connections that hold a slot.
Joins == /\ slots > 0 /\ slots' = slots - 1
         /\ \E c \in Connections : c \notin Booked /\ Booked' = Booked \cup {c}
Leaves == /\ slots' = slots + 1
          /\ \E c \in Connections : c \in Booked /\ Booked' = Booked \ {c}
Stays == slots' = slots /\ Booked' = Booked

\* The types that do not depend on the slots being balanced.
Typed == /\ place \in [Connections -> Places]
         /\ slots \in Nat
         /\ keep \in [Connections -> BOOLEAN]
         /\ unread \in [Connections -> Leftovers]

\* Every step takes a slot for one connection, returns the slot of one, or does
\* neither.
LEMMA BookedStep ==
  ASSUME Typed, Next
  PROVE  Typed' /\ (Joins \/ Leaves \/ Stays)
<1> USE DEF Typed, Goes, Places, Leftovers, Booked
<1> PICK c \in Connections : AcceptorStep(c) \/ HandlerStep(c)
  BY DEF Next
<1>1. CASE Admit(c)
  <2>1. c \notin Booked /\ Booked' = Booked \cup {c}
    BY <1>1 DEF Admit
  <2> QED
    BY <1>1, <2>1 DEF Admit, Joins
<1>2. CASE ReleaseSlot(c)
  <2>1. c \in Booked /\ Booked' = Booked \ {c}
    BY <1>2 DEF ReleaseSlot
  <2> QED
    BY <1>2, <2>1 DEF ReleaseSlot, Leaves
<1>3. CASE Accept(c) \/ TurnAway(c) \/ StartThread(c) \/ StartFails(c)
  BY <1>3 DEF Accept, TurnAway, StartThread, StartFails, Stays
<1>4. CASE Answer(c)
  <2>1. PICK alive \in BOOLEAN, left \in Leftovers : Replies(c, alive, left)
    BY <1>4 DEF Answer, Get, PostElsewhere, PostUnauthorised, PostRefusedLength, PostScan, PostChunked, Unread,
       Unsupported
  <2> QED
    BY <2>1 DEF Replies, Stays
<1>5. CASE HangUp(c) \/ CloseSocket(c)
  BY <1>5 DEF HangUp, CloseSocket, Stays
<1>6. CASE Loop(c)
  BY <1>6 DEF Loop, Stays
<1> QED
  BY <1>1, <1>2, <1>3, <1>4, <1>5, <1>6 DEF AcceptorStep, HandlerStep

BalanceInv == Typed /\ SlotsBalance

\* The semaphore and the set of holders move together.
LEMMA BalanceInvHolds == Spec => []BalanceInv
<1> USE DEF BalanceInv
<1>1. Init => BalanceInv
  <2> SUFFICES ASSUME Init PROVE BalanceInv
    OBVIOUS
  <2>1. Booked = {}
    BY DEF Init, Booked
  <2> QED
    BY <2>1, FS_EmptySet, WebConnectionsAssumption
    DEF Init, Typed, SlotsBalance, Places, Leftovers
<1>2. BalanceInv /\ [Next]_vars => BalanceInv'
  <2> SUFFICES ASSUME BalanceInv, [Next]_vars PROVE BalanceInv'
    OBVIOUS
  <2>1. CASE UNCHANGED vars
    BY <2>1 DEF vars, Typed, SlotsBalance, Booked
  <2>2. CASE Next
    <3>1. IsFiniteSet(Booked) /\ Cardinality(Booked) \in Nat
      BY FS_Subset, FS_CardinalityType, WebConnectionsAssumption DEF Booked
    <3>2. Typed' /\ (Joins \/ Leaves \/ Stays)
      BY <2>2, BookedStep
    <3>3. CASE Joins
      <4>1. Cardinality(Booked') = Cardinality(Booked) + 1
        BY <3>1, <3>3, FS_AddElement DEF Joins
      <4> QED
        BY <3>1, <3>2, <3>3, <4>1, WebConnectionsAssumption DEF Joins, Typed, SlotsBalance
    <3>4. CASE Leaves
      <4>1. Cardinality(Booked') = Cardinality(Booked) - 1
        BY <3>1, <3>4, FS_RemoveElement DEF Leaves
      <4> QED
        BY <3>1, <3>2, <3>4, <4>1, WebConnectionsAssumption DEF Leaves, Typed, SlotsBalance
    <3>5. CASE Stays
      BY <3>2, <3>5 DEF Stays, SlotsBalance
    <3> QED
      BY <3>2, <3>3, <3>4, <3>5
  <2> QED
    BY <2>1, <2>2
<1> QED
  BY <1>1, <1>2, PTL DEF Spec

\* Releases balance acquires in every reachable state (server.py:666-678).
THEOREM SlotsBalanced == Spec => []SlotsBalance
BY BalanceInvHolds, PTL DEF BalanceInv

\* The semaphore stays between 0 and its bound, so release() never raises
\* (server.py:664, 672-678).
THEOREM ConnectionsTyped == Spec => []TypeOK
<1>1. BalanceInv => TypeOK
  <2>1. IsFiniteSet(Booked)
    BY FS_Subset, WebConnectionsAssumption DEF Booked
  <2>2. Cardinality(Booked) \in Nat
    BY <2>1, FS_CardinalityType
  <2> QED
    BY <2>2, WebConnectionsAssumption DEF BalanceInv, Typed, SlotsBalance, TypeOK
<1> QED
  BY <1>1, BalanceInvHolds, PTL

-----------------------------------------------------------------------------
(* The acceptor and the sockets.                                            *)

\* One thread accepts: at most one connection is in its hands.
OneAcceptor ==
    \A c, d \in Connections :
        place[c] \in {"accepted", "starting"} /\ place[d] \in {"accepted", "starting"} => c = d

\* A body the handler refused is only ever followed by the end of its connection.
RefusedEnds ==
    \A c \in Connections :
        unread[c] = "scan" =>
            \/ place[c] \in {"shutdown", "unbooked", "closed"}
            \/ place[c] = "answered" /\ ~keep[c]

\* The two survive every step.
LEMMA LoopInvHolds == Spec => [](OneAcceptor /\ RefusedEnds)
<1>1. Init => OneAcceptor /\ RefusedEnds
  BY DEF Init, OneAcceptor, RefusedEnds
<1>2. TypeOK /\ OneAcceptor /\ RefusedEnds /\ [Next]_vars => (OneAcceptor /\ RefusedEnds)'
  <2> SUFFICES ASSUME TypeOK, OneAcceptor, RefusedEnds, [Next]_vars
               PROVE  (OneAcceptor /\ RefusedEnds)'
    OBVIOUS
  <2> USE DEF TypeOK, Goes, OneAcceptor, RefusedEnds
  <2>1. CASE UNCHANGED vars
    BY <2>1 DEF vars
  <2>2. ASSUME NEW c \in Connections, AcceptorStep(c) \/ HandlerStep(c)
        PROVE  (OneAcceptor /\ RefusedEnds)'
    <3>1. CASE Accept(c)
      BY <3>1 DEF Accept, AcceptorFree
    <3>2. CASE Admit(c) \/ TurnAway(c)
      BY <3>2 DEF Admit, TurnAway
    <3>3. CASE StartThread(c) \/ StartFails(c)
      BY <3>3 DEF StartThread, StartFails
    <3>4. CASE Answer(c)
      <4>1. PICK alive \in BOOLEAN, left \in Leftovers :
              Replies(c, alive, left) /\ (left = "scan" => ~alive)
        BY <3>4 DEF Answer, Get, PostElsewhere, PostUnauthorised, PostRefusedLength,
           PostScan, PostChunked, Unread,
           Unsupported, Leftovers
      <4> QED
        BY <4>1 DEF Replies
    <3>5. CASE HangUp(c)
      BY <3>5 DEF HangUp
    <3>6. CASE Loop(c)
      BY <3>6 DEF Loop
    <3>7. CASE CloseSocket(c) \/ ReleaseSlot(c)
      BY <3>7 DEF CloseSocket, ReleaseSlot
    <3> QED
      BY <2>2, <3>1, <3>2, <3>3, <3>4, <3>5, <3>6, <3>7 DEF AcceptorStep, HandlerStep
  <2> QED
    BY <2>1, <2>2 DEF Next
<1> QED
  BY <1>1, <1>2, ConnectionsTyped, PTL DEF Spec

\* At most MAX_CONNECTIONS sockets are open besides the one being accepted
\* (server.py:649-678).
THEOREM OpenSocketsBounded == Spec => []SocketsBounded
<1>1. BalanceInv /\ TypeOK /\ OneAcceptor => SocketsBounded
  <2> SUFFICES ASSUME BalanceInv, TypeOK, OneAcceptor PROVE SocketsBounded
    OBVIOUS
  <2>1. IsFiniteSet(Booked) /\ Cardinality(Booked) \in Nat
    BY FS_Subset, FS_CardinalityType, WebConnectionsAssumption DEF Booked
  <2>2. Cardinality(Booked) <= MaxConnections
    BY <2>1, WebConnectionsAssumption DEF BalanceInv, SlotsBalance, TypeOK
  <2>3. CASE \E c \in Connections : place[c] = "accepted"
    <3>1. PICK c \in Connections : place[c] = "accepted"
      BY <2>3
    <3>2. HasSocket \in SUBSET (Booked \cup {c})
      BY <3>1 DEF HasSocket, Booked, OneAcceptor
    <3>3. IsFiniteSet(Booked \cup {c}) /\ Cardinality(Booked \cup {c}) = Cardinality(Booked) + 1
      <4>1. c \notin Booked
        BY <3>1 DEF Booked
      <4> QED
        BY <2>1, <4>1, FS_AddElement
    <3>4. IsFiniteSet(HasSocket) /\ Cardinality(HasSocket) <= Cardinality(Booked \cup {c})
      BY <3>2, <3>3, FS_Subset
    <3>5. Cardinality(HasSocket) \in Nat /\ Cardinality(Booked \cup {c}) \in Nat
      BY <3>3, <3>4, FS_CardinalityType
    <3> QED
      BY <2>1, <2>2, <3>3, <3>4, <3>5, WebConnectionsAssumption DEF SocketsBounded
  <2>4. CASE ~\E c \in Connections : place[c] = "accepted"
    <3>1. HasSocket \in SUBSET Booked
      BY <2>4 DEF HasSocket, Booked
    <3>2. Cardinality(HasSocket) <= Cardinality(Booked) /\ Cardinality(HasSocket) \in Nat
      BY <2>1, <3>1, FS_Subset, FS_CardinalityType
    <3> QED
      BY <2>1, <2>2, <3>2, WebConnectionsAssumption DEF SocketsBounded
  <2> QED
    BY <2>3, <2>4
<1> QED
  BY <1>1, BalanceInvHolds, ConnectionsTyped, LoopInvHolds, PTL

\* No body of a scan request that announced its length is parsed as the next request
\* (server.py:614-633); nothing is said of one sent in chunks.
THEOREM RefusedBodyClosed == Spec => []RefusedBodyNeverParsed
<1>1. RefusedEnds => RefusedBodyNeverParsed
  BY DEF RefusedEnds, RefusedBodyNeverParsed
<1> QED
  BY <1>1, LoopInvHolds, PTL

-----------------------------------------------------------------------------
(* What the fairness of the acceptor is applied to.  NobodyQueues itself      *)
(* stays with TLC; that the acceptor never waits, and never goes back, is     *)
(* proved.                                                                    *)

\* The steps the acceptor still takes with a connection.
ToAccept(c) ==
    CASE place[c] = "backlog"  -> 3
      [] place[c] = "accepted" -> 2
      [] place[c] = "starting" -> 1
      [] OTHER                 -> 0

\* One of the acceptor's guards holds: it is free and somebody knocks, it has a
\* connection in hand and a slot or none, or a thread to start.
AcceptorCan ==
    \E c \in Connections :
        \/ place[c] = "backlog" /\ AcceptorFree
        \/ place[c] = "accepted" /\ (slots > 0 \/ slots = 0)
        \/ place[c] = "starting"

\* As long as a connection is not answered for, the acceptor has a step to take:
\* no handler, however long it keeps its slot, makes it wait
\* (server.py:649-670).
THEOREM AcceptorNeverWaits ==
    Spec => []((\E c \in Connections : ToAccept(c) > 0) => AcceptorCan)
<1>1. TypeOK => ((\E c \in Connections : ToAccept(c) > 0) => AcceptorCan)
  <2> SUFFICES ASSUME TypeOK, NEW c \in Connections, ToAccept(c) > 0 PROVE AcceptorCan
    OBVIOUS
  <2>1. place[c] \in {"backlog", "accepted", "starting"}
    BY DEF ToAccept
  <2>2. slots > 0 \/ slots = 0
    BY WebConnectionsAssumption DEF TypeOK
  <2>3. CASE AcceptorFree
    BY <2>1, <2>2, <2>3 DEF AcceptorCan
  <2>4. CASE ~AcceptorFree
    <3>1. PICK d \in Connections : place[d] \in {"accepted", "starting"}
      BY <2>4 DEF AcceptorFree
    <3> QED
      BY <2>2, <3>1 DEF AcceptorCan
  <2> QED
    BY <2>3, <2>4
<1> QED
  BY <1>1, ConnectionsTyped, PTL

\* No step sends a connection back to the acceptor, and each step of the
\* acceptor brings one connection nearer to a handler or to its end.
AcceptorAdvances ==
    [][/\ \A c \in Connections : ToAccept(c)' <= ToAccept(c)
       /\ \A c \in Connections : AcceptorStep(c) => ToAccept(c)' < ToAccept(c)]_vars

\* With AcceptorNeverWaits: every connection is served or turned away after at
\* most three steps of the acceptor for each that was opened
\* (server.py:649-670).
THEOREM NobodySentBack == Spec => AcceptorAdvances
<1>1. TypeOK /\ [Next]_vars =>
        [/\ \A c \in Connections : ToAccept(c)' <= ToAccept(c)
         /\ \A c \in Connections : AcceptorStep(c) => ToAccept(c)' < ToAccept(c)]_vars
  <2> SUFFICES ASSUME TypeOK, Next, NEW c \in Connections
               PROVE  /\ ToAccept(c)' <= ToAccept(c)
                      /\ AcceptorStep(c) => ToAccept(c)' < ToAccept(c)
    OBVIOUS
  <2> USE DEF TypeOK, Goes, ToAccept
  <2>1. ASSUME AcceptorStep(c) PROVE ToAccept(c)' < ToAccept(c)
    <3>1. \/ place[c] = "backlog" /\ place'[c] = "accepted"
          \/ place[c] = "accepted" /\ place'[c] \in {"starting", "closed"}
          \/ place[c] = "starting" /\ place'[c] \in {"reading", "shutdown"}
      BY <2>1 DEF AcceptorStep, Accept, Admit, TurnAway, StartThread, StartFails
    <3> QED
      BY <3>1
  <2>2. ASSUME HandlerStep(c) PROVE ToAccept(c)' = ToAccept(c)
    <3>1. /\ place[c] \in {"reading", "answered", "shutdown", "unbooked"}
          /\ place'[c] \in {"reading", "answered", "shutdown", "unbooked", "closed"}
      BY <2>2 DEF HandlerStep, Answer, Get, PostElsewhere, PostUnauthorised,
         PostRefusedLength, PostScan, PostChunked, Unread, Unsupported, Replies, HangUp, Loop, CloseSocket,
         ReleaseSlot
    <3> QED
      BY <3>1
  <2>3. ASSUME NEW d \in Connections, d # c, AcceptorStep(d) \/ HandlerStep(d)
        PROVE  ToAccept(c)' = ToAccept(c)
    <3>1. place'[c] = place[c]
      BY <2>3 DEF AcceptorStep, Accept, Admit, TurnAway, StartThread, StartFails,
         HandlerStep, Answer, Get, PostElsewhere, PostUnauthorised, PostRefusedLength,
         PostScan, PostChunked, Unread, Unsupported, Replies, HangUp, Loop, CloseSocket, ReleaseSlot
    <3> QED
      BY <3>1
  <2>4. ToAccept(c) \in 0..3
    OBVIOUS
  <2>5. ToAccept(c)' <= ToAccept(c)
    <3>1. ToAccept(c)' < ToAccept(c) \/ ToAccept(c)' = ToAccept(c)
      BY <2>1, <2>2, <2>3 DEF Next
    <3>2. ToAccept(c)' \in 0..3
      OBVIOUS
    <3> QED
      BY <2>4, <3>1, <3>2
  <2> QED
    BY <2>1, <2>5
<1> QED
  BY <1>1, ConnectionsTyped, PTL DEF Spec, AcceptorAdvances
=============================================================================
