--------------------------- MODULE WsClientProofs ---------------------------
(***************************************************************************)
(* Proofs about WsClient for every number of attempts, sockets and calls.  *)
(***************************************************************************)
EXTENDS WsClient, FiniteSetTheorems, TLAPS

USE WsClientAssumption DEF WsClientAssumption

States == [Sockets -> {"connecting", "open", "closing", "closed"}]

\* The sockets that are not closed in state.
AliveIn(state) == {s \in Sockets : state[s] # "closed"}

-----------------------------------------------------------------------------
(* What the hook's callbacks do.                                           *)

\* disconnect() closes no socket for good: the sockets that are alive stay so until
\* their close event.
LEMMA DisconnectKeepsAlive ==
    ASSUME TypeOK
    PROVE  AfterDisconnect \in States /\ AliveIn(AfterDisconnect) = Alive
BY DEF TypeOK, AfterDisconnect, States, AliveIn, Alive

\* The sockets that are alive are finitely many.
LEMMA AliveFinite ==
    ASSUME NEW state
    PROVE  /\ IsFiniteSet(AliveIn(state))
           /\ Cardinality(AliveIn(state)) \in Nat
<1>1. AliveIn(state) \subseteq Sockets
      BY DEF AliveIn
<1>2. IsFiniteSet(AliveIn(state))
      BY <1>1, FS_Subset
<1> QED BY <1>2, FS_CardinalityType

\* connect() leaves at least one socket alive, and at most one more than before.
LEMMA ConnectAlive ==
    ASSUME NEW state \in States, NEW ref \in Sockets \union {None}, Connect(state, ref)
    PROVE  /\ readyState' \in States
           /\ wsRef' \in Sockets \union {None}
           /\ Alive' # {}
           /\ Cardinality(Alive') <= Cardinality(AliveIn(state)) + 1
<1>0. Cardinality(AliveIn(state)) \in Nat
      BY AliveFinite
<1>1. CASE AlreadyOpen(state, ref) /\ readyState' = state /\ wsRef' = ref
  <2>1. Alive' = AliveIn(state)
        BY <1>1 DEF Alive, AliveIn
  <2>2. ref \in Sockets /\ state[ref] = "open"
        BY <1>1 DEF AlreadyOpen
  <2> QED BY <1>0, <1>1, <2>1, <2>2 DEF AliveIn
<1>2. CASE \E s \in Sockets \ {ref} :
             /\ state[s] = "closed"
             /\ readyState' = [state EXCEPT ![s] = "connecting"]
             /\ wsRef' = s
  <2>1. PICK s \in Sockets \ {ref} :
             /\ state[s] = "closed"
             /\ readyState' = [state EXCEPT ![s] = "connecting"]
             /\ wsRef' = s
        BY <1>2
  <2>2. Alive' = AliveIn(state) \union {s} /\ s \notin AliveIn(state)
        BY <2>1 DEF Alive, AliveIn, States
  <2>3. Cardinality(Alive') = Cardinality(AliveIn(state)) + 1
        BY <2>2, AliveFinite, FS_AddElement
  <2> QED BY <1>0, <2>1, <2>2, <2>3 DEF States
<1> QED BY <1>1, <1>2 DEF Connect

\* A close event takes one socket from those that are alive.
LEMMA CloseAlive ==
    ASSUME TypeOK, NEW s \in Sockets, OnClose(s)
    PROVE  Cardinality(Alive') = Cardinality(Alive) - 1 /\ Cardinality(Alive) \in Nat \ {0}
<1>1. s \in Alive /\ Alive' = Alive \ {s}
      BY DEF OnClose, Alive, TypeOK
<1>2. IsFiniteSet(Alive) /\ Cardinality(Alive) \in Nat
      BY AliveFinite DEF Alive, AliveIn
<1>3. Cardinality(Alive \ {s}) = Cardinality(Alive) - 1
      BY <1>1, <1>2, FS_RemoveElement
<1>4. Cardinality(Alive) # 0
      BY <1>1, <1>2, FS_EmptySet
<1> QED BY <1>1, <1>2, <1>3, <1>4

\* A socket that opens, or starts to close, stays alive.
LEMMA StillAlive ==
    ASSUME TypeOK, NEW s \in Sockets, OnOpen(s) \/ PeerCloses(s)
    PROVE  Alive' = Alive /\ s \in Alive
BY DEF TypeOK, OnOpen, PeerCloses, Alive

-----------------------------------------------------------------------------
(* Type correctness.                                                       *)

\* Init is well typed.
LEMMA TypeInit == Init => TypeOK
BY DEF Init, TypeOK

\* Every step keeps the types; attempts never pass the maximum.
LEMMA TypeStep == TypeOK /\ [Next]_vars => TypeOK'
<1> SUFFICES ASSUME TypeOK, [Next]_vars PROVE TypeOK'
    OBVIOUS
<1> readyState \in States /\ wsRef \in Sockets \union {None}
    BY DEF TypeOK, States
<1>1. CASE Mount
      BY <1>1, ConnectAlive DEF TypeOK, Mount, Connect, SetStatus, States
<1>2. CASE ChangeHandler
      BY <1>2, ConnectAlive, DisconnectKeepsAlive
      DEF TypeOK, ChangeHandler, Connect, SetStatus, States
<1>3. CASE Reconnect
      BY <1>3, ConnectAlive, DisconnectKeepsAlive
      DEF TypeOK, Reconnect, Connect, SetStatus, States
<1>4. CASE Unmount
      BY <1>4, DisconnectKeepsAlive DEF TypeOK, Unmount, States
<1>5. ASSUME NEW s \in Sockets, OnOpen(s) PROVE TypeOK'
      BY <1>5 DEF TypeOK, OnOpen, SetStatus
<1>6. ASSUME NEW s \in Sockets, PeerCloses(s) PROVE TypeOK'
      BY <1>6 DEF TypeOK, PeerCloses
<1>7. ASSUME NEW s \in Sockets, OnClose(s) PROVE TypeOK'
      BY <1>7 DEF TypeOK, OnClose, ReportClose, SetStatus, MayRetry, NextAttempt, Schedule
<1>8. CASE TimerFires
      BY <1>8, ConnectAlive DEF TypeOK, TimerFires, Connect, SetStatus, States
<1>9. CASE NetSettles
      BY <1>9 DEF TypeOK, NetSettles
<1>10. CASE UNCHANGED vars
      BY <1>10 DEF TypeOK, vars
<1> QED BY <1>1, <1>2, <1>3, <1>4, <1>5, <1>6, <1>7, <1>8, <1>9, <1>10 DEF Next

\* The hook's state is well typed, and its attempts never pass maxReconnectAttempts.
THEOREM WsClientTypeCorrect == Spec => []TypeOK
<1> QED BY TypeInit, TypeStep, PTL DEF Spec

-----------------------------------------------------------------------------
(* Retries never multiply.                                                 *)

\* No step adds a connection, alive or scheduled, but mounting and calling the hook.
LEMMA NoStormStep == TypeOK /\ NoStorm /\ [Next]_vars => NoStorm'
<1> SUFFICES ASSUME TypeOK, NoStorm, [Next]_vars PROVE NoStorm'
    OBVIOUS
<1> readyState \in States /\ wsRef \in Sockets \union {None}
    BY DEF TypeOK, States
<1> /\ Cardinality(Alive) \in Nat
    /\ Alive = AliveIn(readyState)
    /\ Cardinality(Alive') \in Nat
    BY AliveFinite DEF Alive, AliveIn
<1> calls \in Nat /\ loose \in Nat /\ timer \in 0..1
    BY DEF TypeOK
<1>1. CASE Mount
      BY <1>1, ConnectAlive DEF NoStorm, Mount, Pending
<1>2. CASE ChangeHandler \/ Reconnect
  <2>1. /\ Connect(AfterDisconnect, None) /\ timer' = 0 /\ loose' = loose
        /\ calls' = calls + 1 /\ page = "mounted" /\ page' = page
        BY <1>2 DEF ChangeHandler, Reconnect
  <2>2. Cardinality(Alive') <= Cardinality(Alive) + 1
        BY <2>1, ConnectAlive, DisconnectKeepsAlive
  <2> QED BY <2>1, <2>2 DEF NoStorm, Pending
<1>3. CASE Unmount
  <2>1. Alive' = Alive
        BY <1>3, DisconnectKeepsAlive DEF Unmount, Alive, AliveIn
  <2> QED BY <1>3, <2>1 DEF NoStorm, Unmount, Pending
<1>4. ASSUME NEW s \in Sockets, OnOpen(s) \/ PeerCloses(s) PROVE NoStorm'
      BY <1>4, StillAlive DEF NoStorm, OnOpen, PeerCloses, Pending
<1>5. ASSUME NEW s \in Sockets, OnClose(s) PROVE NoStorm'
  <2>1. Pending' <= Pending + 1
        BY <1>5 DEF OnClose, Schedule, Pending
  <2>2. Pending \in Nat /\ Pending' \in Nat
        BY <1>5 DEF OnClose, Schedule, Pending
  <2>3. Cardinality(Alive') = Cardinality(Alive) - 1
        BY <1>5, CloseAlive
  <2>4. UNCHANGED <<page, calls>>
        BY <1>5 DEF OnClose
  <2> QED BY <2>1, <2>2, <2>3, <2>4 DEF NoStorm
<1>6. CASE TimerFires
  <2>1. Pending' = Pending - 1 /\ Pending \in Nat
        BY <1>6 DEF TimerFires, Pending
  <2>2. Cardinality(Alive') <= Cardinality(Alive) + 1
        BY <1>6, ConnectAlive DEF TimerFires
  <2> QED BY <1>6, <2>1, <2>2 DEF NoStorm, TimerFires
<1>7. CASE NetSettles \/ UNCHANGED vars
  <2>1. UNCHANGED <<page, readyState, timer, loose, calls>>
        BY <1>7 DEF NetSettles, vars
  <2> QED BY <2>1 DEF NoStorm, Alive, Pending
<1> QED BY <1>1, <1>2, <1>3, <1>4, <1>5, <1>6, <1>7 DEF Next

\* However closes, timeouts and calls are ordered, the hook holds at most one connection
\* for its mount and one for each handler change or reconnect.
THEOREM WsClientNoStorm == Spec => []NoStorm
<1>1. Init => NoStorm
  <2> SUFFICES ASSUME Init PROVE NoStorm
      OBVIOUS
  <2>1. Alive = {}
        BY DEF Init, Alive
  <2> QED BY <2>1, FS_EmptySet DEF Init, NoStorm, Pending
<1> QED BY <1>1, NoStormStep, WsClientTypeCorrect, PTL DEF Spec

-----------------------------------------------------------------------------
(* The mounted page.                                                       *)

\* Every step leaves a mounted page something to wait for, or with no attempt left.
LEMMA GivesUpLastStep == TypeOK /\ GivesUpLast /\ [Next]_vars => GivesUpLast'
<1> SUFFICES ASSUME TypeOK, GivesUpLast, [Next]_vars PROVE GivesUpLast'
    OBVIOUS
<1> readyState \in States /\ wsRef \in Sockets \union {None}
    BY DEF TypeOK, States
<1>1. CASE Mount \/ ChangeHandler \/ Reconnect \/ TimerFires
  <2>1. Alive' # {}
        BY <1>1, ConnectAlive, DisconnectKeepsAlive
        DEF Mount, ChangeHandler, Reconnect, TimerFires
  <2> QED BY <2>1 DEF GivesUpLast
<1>2. CASE Unmount
      BY <1>2 DEF GivesUpLast, Unmount
<1>3. ASSUME NEW s \in Sockets, OnOpen(s) \/ PeerCloses(s) PROVE GivesUpLast'
      BY <1>3, StillAlive DEF GivesUpLast
<1>4. ASSUME NEW s \in Sockets, OnClose(s) PROVE GivesUpLast'
  <2>1. CASE MayRetry
        BY <1>4, <2>1 DEF GivesUpLast, OnClose, Schedule, Pending, TypeOK
  <2>2. CASE ~MayRetry
        BY <1>4, <2>2 DEF GivesUpLast, OnClose, MayRetry, TypeOK
  <2> QED BY <2>1, <2>2
<1>5. CASE NetSettles \/ UNCHANGED vars
      BY <1>5 DEF GivesUpLast, NetSettles, vars, Alive, Pending
<1> QED BY <1>1, <1>2, <1>3, <1>4, <1>5 DEF Next

\* A mounted page gives up only after its last attempt.
THEOREM WsClientGivesUpLast == Spec => []GivesUpLast
<1>1. Init => GivesUpLast
      BY DEF Init, GivesUpLast
<1> QED BY <1>1, GivesUpLastStep, WsClientTypeCorrect, PTL DEF Spec

\* Every step that leaves the status at "connected" leaves a socket behind it.
LEMMA LiveBadgeStep == TypeOK /\ LiveBadgeIsTrue /\ [Next]_vars => LiveBadgeIsTrue'
<1> SUFFICES ASSUME TypeOK, LiveBadgeIsTrue, [Next]_vars PROVE LiveBadgeIsTrue'
    OBVIOUS
<1>1. CASE Mount
      BY <1>1 DEF LiveBadgeIsTrue, Mount, Connect, SetStatus, AlreadyOpen, TypeOK
<1>2. CASE ChangeHandler \/ Reconnect
      BY <1>2 DEF LiveBadgeIsTrue, ChangeHandler, Reconnect, Connect, SetStatus, AlreadyOpen
<1>3. CASE Unmount
      BY <1>3 DEF LiveBadgeIsTrue, Unmount
<1>4. ASSUME NEW s \in Sockets, OnOpen(s) PROVE LiveBadgeIsTrue'
      BY <1>4 DEF LiveBadgeIsTrue, OnOpen, TypeOK
<1>5. ASSUME NEW s \in Sockets, PeerCloses(s) PROVE LiveBadgeIsTrue'
      BY <1>5 DEF LiveBadgeIsTrue, PeerCloses, TypeOK
<1>6. ASSUME NEW s \in Sockets, OnClose(s) PROVE LiveBadgeIsTrue'
      BY <1>6 DEF LiveBadgeIsTrue, OnClose, ReportClose, SetStatus
<1>7. CASE TimerFires
      BY <1>7 DEF LiveBadgeIsTrue, TimerFires, Connect, SetStatus, AlreadyOpen, TypeOK
<1>8. CASE NetSettles \/ UNCHANGED vars
      BY <1>8 DEF LiveBadgeIsTrue, NetSettles, vars
<1> QED BY <1>1, <1>2, <1>3, <1>4, <1>5, <1>6, <1>7, <1>8 DEF Next

\* The page never says Live without a connection whose closing it has not been told of.
THEOREM WsClientLiveBadge == Spec => []LiveBadgeIsTrue
<1>1. Init => LiveBadgeIsTrue
      BY DEF Init, LiveBadgeIsTrue
<1> QED BY <1>1, LiveBadgeStep, WsClientTypeCorrect, PTL DEF Spec

=============================================================================
