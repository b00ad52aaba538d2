------------------------------ MODULE WsClient ------------------------------
(***************************************************************************)
(* frontend-react/src/hooks/useWebSocket.ts: the browser's end of /api/ws. *)
(* One use of the hook by one mounted page, with every WebSocket object it *)
(* creates, the timeouts it schedules and the events the browser delivers. *)
(*                                                                         *)
(* Each action is one task of the browser's event loop.  A socket that is  *)
(* "closed" and not in wsRef is garbage, so a new one may take its name.   *)
(* new WebSocket throws only for a URL that cannot be parsed or a scheme   *)
(* the page may not use; WS_URL is made from the page's own location, and  *)
(* the catch clause is not modelled.                                       *)
(***************************************************************************)
EXTENDS Naturals, FiniteSets

CONSTANTS
    Sockets,               \* names for the WebSocket objects that are not garbage
    None,                  \* wsRef.current = null
    MaxReconnectAttempts,  \* maxReconnectAttempts
    MaxCalls               \* bound: handler changes and calls of reconnect

ASSUME WsClientAssumption ==
    /\ IsFiniteSet(Sockets)
    /\ None \notin Sockets
    /\ MaxReconnectAttempts \in Nat
    /\ MaxCalls \in Nat

VARIABLES
    page,        \* the component that uses the hook: "new", "mounted" or "left"
    readyState,  \* readyState[s]
    wsRef,       \* wsRef.current
    timer,       \* 1 if the timeout in reconnectTimeoutRef is pending, 0 if none is
    loose,       \* number of pending timeouts reconnectTimeoutRef has forgotten
    attempts,    \* reconnectAttempts.current
    status,      \* the status the hook returns
    net,         \* the way to the server: "flaky", then "good" or "dead" for ever
    calls        \* handler changes and calls of reconnect so far

vars == <<page, readyState, wsRef, timer, loose, attempts, status, net, calls>>

Init ==
    /\ page = "new"
    /\ readyState = [s \in Sockets |-> "closed"]
    /\ wsRef = None
    /\ timer = 0
    /\ loose = 0
    /\ attempts = 0
    /\ status = "connecting"
    /\ net = "flaky"
    /\ calls = 0

-----------------------------------------------------------------------------
(* The hook's callbacks, as parts of the tasks that run them.              *)

\* React ignores setStatus once the component is gone.
SetStatus(value) == status' = IF page = "left" THEN status ELSE value

\* mutant: any socket the ref holds counts, whatever its state
AlreadyCreated(state, ref) == ref # None
AlreadyOpen(state, ref) == ref # None /\ state[ref] = "open"

\* connect(), from ready states "state" and wsRef.current = ref: only an open socket
\* stops it, and the socket that was in wsRef is forgotten, not closed.
Connect(state, ref) ==
    \/ /\ AlreadyOpen(state, ref)
       /\ readyState' = state
       /\ wsRef' = ref
       /\ UNCHANGED status
    \/ /\ ~AlreadyOpen(state, ref)
       /\ \E s \in Sockets \ {ref} :
            /\ state[s] = "closed"
            /\ readyState' = [state EXCEPT ![s] = "connecting"]
            /\ wsRef' = s
       /\ SetStatus("connecting")

\* The ready states after disconnect() has called close() on wsRef.current: the close
\* event is still to come, and onclose is still installed.
AfterDisconnect ==
    [s \in Sockets |-> IF s = wsRef /\ readyState[s] \in {"connecting", "open"}
                       THEN "closing" ELSE readyState[s]]

\* mutant: one attempt too many
MayRetryOnceMore == attempts <= MaxReconnectAttempts
MayRetry == attempts < MaxReconnectAttempts

\* mutant: attempts are not counted
SameAttempt == attempts
NextAttempt == attempts + 1

\* mutant: the error handler schedules a reconnect as well
ScheduleTwice == timer' = 1 /\ loose' = loose + timer + 1
\* reconnectTimeoutRef.current = setTimeout(connect): a timeout it held stays pending.
Schedule == timer' = 1 /\ loose' = loose + timer

\* mutant: a closed connection shows only when the hook gives up
ReportGivingUp == IF MayRetry THEN UNCHANGED status ELSE SetStatus("disconnected")
ReportClose == SetStatus("disconnected")

-----------------------------------------------------------------------------
(* The component.                                                          *)

\* The effect runs for the first time.
Mount ==
    /\ page = "new"
    /\ page' = "mounted"
    /\ Connect(readyState, wsRef)
    /\ UNCHANGED <<timer, loose, attempts, net, calls>>

\* onMessage is another function (in Networks, after another network is selected):
\* so is connect, and the effect's cleanup and the effect run.
ChangeHandler ==
    /\ page = "mounted"
    /\ calls < MaxCalls
    /\ calls' = calls + 1
    /\ timer' = 0
    /\ Connect(AfterDisconnect, None)
    /\ UNCHANGED <<page, loose, attempts, net>>

\* reconnect(), which the hook returns.
Reconnect ==
    /\ page = "mounted"
    /\ calls < MaxCalls
    /\ calls' = calls + 1
    /\ timer' = 0
    /\ attempts' = 0
    /\ Connect(AfterDisconnect, None)
    /\ UNCHANGED <<page, loose, net>>

\* The page is left: only the cleanup runs.
Unmount ==
    /\ page = "mounted"
    /\ page' = "left"
    /\ timer' = 0
    /\ readyState' = AfterDisconnect
    /\ wsRef' = None
    /\ status' = "disconnected"
    /\ UNCHANGED <<loose, attempts, net, calls>>

-----------------------------------------------------------------------------
(* Events.                                                                 *)

OnOpen(s) ==
    /\ readyState[s] = "connecting"
    /\ net # "dead"
    /\ readyState' = [readyState EXCEPT ![s] = "open"]
    /\ SetStatus("connected")
    /\ attempts' = 0
    /\ UNCHANGED <<page, wsRef, timer, loose, net, calls>>

\* The server starts to close: the close event comes when it has ended.
PeerCloses(s) ==
    /\ readyState[s] = "open"
    /\ net # "good"
    /\ readyState' = [readyState EXCEPT ![s] = "closing"]
    /\ UNCHANGED <<page, wsRef, timer, loose, attempts, status, net, calls>>

\* onclose, after onerror in the same task if the connection failed.
OnClose(s) ==
    /\ \/ readyState[s] = "closing"
       \/ readyState[s] \in {"connecting", "open"} /\ net # "good"
    /\ readyState' = [readyState EXCEPT ![s] = "closed"]
    /\ ReportClose
    /\ IF MayRetry THEN attempts' = NextAttempt /\ Schedule
                   ELSE UNCHANGED <<attempts, timer, loose>>
    /\ UNCHANGED <<page, wsRef, net, calls>>

\* The timeout reconnectTimeoutRef holds, or one it has forgotten, calls connect.
TimerFires ==
    /\ \/ timer = 1 /\ timer' = 0 /\ UNCHANGED loose
       \/ loose > 0 /\ loose' = loose - 1 /\ UNCHANGED timer
    /\ Connect(readyState, wsRef)
    /\ UNCHANGED <<page, attempts, net, calls>>

NetSettles ==
    /\ net = "flaky"
    /\ net' \in {"good", "dead"}
    /\ UNCHANGED <<page, readyState, wsRef, timer, loose, attempts, status, calls>>

Next ==
    \/ Mount \/ ChangeHandler \/ Reconnect \/ Unmount
    \/ \E s \in Sockets : OnOpen(s) \/ PeerCloses(s) \/ OnClose(s)
    \/ TimerFires
    \/ NetSettles

Spec == Init /\ [][Next]_vars

\* The browser delivers events and runs timeouts, and a dead connection is noticed.
FairSpec ==
    /\ Spec
    /\ \A s \in Sockets : WF_vars(OnOpen(s)) /\ WF_vars(OnClose(s) /\ net # "flaky")
    /\ WF_vars(TimerFires)

-----------------------------------------------------------------------------
(* Properties.                                                             *)

TypeOK ==
    /\ page \in {"new", "mounted", "left"}
    /\ readyState \in [Sockets -> {"connecting", "open", "closing", "closed"}]
    /\ wsRef \in Sockets \union {None}
    /\ timer \in 0..1
    /\ loose \in Nat
    /\ attempts \in 0..MaxReconnectAttempts
    /\ status \in {"connecting", "connected", "disconnected"}
    /\ net \in {"flaky", "good", "dead"}
    /\ calls \in 0..MaxCalls

\* Sockets whose close event has not come yet, and timeouts that will call connect.
Alive == {s \in Sockets : readyState[s] # "closed"}
Pending == loose + timer

\* Retries never multiply: the hook holds at most one connection (open, on its way in or
\* out, or scheduled) for the mount and one for each handler change or reconnect, whatever
\* the order of close events, timeouts and calls, also after the page is left.
NoStorm == Cardinality(Alive) + Pending <= calls + (IF page = "new" THEN 0 ELSE 1)

\* A mounted page without a connection has a retry scheduled, or has used up its
\* attempts: no order of closes, timeouts and handler changes makes it give up early.
\* (The connection may be one wsRef has forgotten: such a socket counts the hook's
\* attempts up when it fails, and sets them to 0 when it opens.)
GivesUpLast ==
    page = "mounted" => Alive # {} \/ Pending > 0 \/ attempts = MaxReconnectAttempts

\* The page says Live only while a connection has been opened whose closing has not been
\* reported yet, however many sockets take part.  (It may say Disconnected beside an open
\* connection: an old socket's late close is reported over a new one's opening.)
LiveBadgeIsTrue ==
    page = "mounted" /\ status = "connected"
        => \E s \in Sockets : readyState[s] \in {"open", "closing"}

\* Over a network that has become good a mounted page gets connected, unless it had given
\* up before.
GivenUp == Alive = {} /\ Pending = 0 /\ attempts = MaxReconnectAttempts
GoodNetConnects ==
    page = "mounted" /\ net = "good"
        ~> page = "left" \/ GivenUp \/ \E s \in Sockets : readyState[s] = "open"

\* With the server gone for good the hook stops trying, on the page or off it.
DeadNetGoesQuiet == net = "dead" ~> [](page # "new" => Alive = {} /\ Pending = 0)

=============================================================================
