------------------------------- MODULE WsHub --------------------------------
(***************************************************************************)
(* pkg/websocket/broadcast.go and the /api/ws handler of                   *)
(* pkg/http/server.go: the registry of WebSocket connections, its mutex,   *)
(* the broadcast loop that writes to every registered connection while it  *)
(* holds that mutex, and one handler goroutine per connection that         *)
(* registers it, reads until an error, and unregisters it.                 *)
(*                                                                         *)
(* A connection is used once: a browser that reconnects is another one.    *)
(***************************************************************************)
EXTENDS Naturals, Sequences

CONSTANTS
    Conns,         \* the WebSocket connections
    Broadcasters,  \* the goroutines that call BroadcastMessage
    Nobody         \* holder of the free mutex

ASSUME HubAssumption == Nobody \notin Broadcasters

VARIABLES
    hub,       \* who is inside WsClients.Mu for longer than one step
    conns,     \* WsClients.Conns
    todo,      \* todo[b]: connections b's range loop has yet to visit
    session,   \* session[c]: where c's handler goroutine is
    link,      \* link[c]: what the client and the network do to c
    written,   \* written[c]: the messages WriteJSON has written to c
    log,       \* history: messages in the order their broadcasts took the mutex
    joined     \* history: Len(log) when c was registered

hubVars == <<hub, conns, todo, session, link, written, log, joined>>

HubInit ==
    /\ hub = Nobody
    /\ conns = {}
    /\ todo = [b \in Broadcasters |-> {}]
    /\ session = [c \in Conns |-> "idle"]
    /\ link = [c \in Conns |-> "up"]
    /\ written = [c \in Conns |-> <<>>]
    /\ log = <<>>
    /\ joined = [c \in Conns |-> 0]

-----------------------------------------------------------------------------
(* BroadcastMessage.                                                       *)

\* mutant: the mutex is not taken
HubFreeIgnored == TRUE
HubFree == hub = Nobody

LockHub(b, message) ==
    /\ HubFree
    /\ hub' = b
    /\ todo' = [todo EXCEPT ![b] = conns]
    /\ log' = Append(log, message)
    /\ UNCHANGED <<conns, session, link, written, joined>>

\* conn.WriteJSON returns nil: it has no deadline, and returns only once the client's
\* socket takes the bytes; a socket whose peer is gone may still take some.
WriteJSON(b, c, message) ==
    /\ c \in todo[b]
    /\ link[c] # "stalled"
    /\ written' = [written EXCEPT ![c] = Append(@, message)]
    /\ todo' = [todo EXCEPT ![b] = @ \ {c}]
    /\ UNCHANGED <<hub, conns, session, link, log, joined>>

\* conn.WriteJSON returns an error: the connection is closed and forgotten, and the
\* loop goes on.
WriteFails(b, c) ==
    /\ c \in todo[b]
    /\ link[c] = "down"
    /\ conns' = conns \ {c}
    /\ todo' = [todo EXCEPT ![b] = @ \ {c}]
    /\ UNCHANGED <<hub, session, link, written, log, joined>>

\* mutant: BroadcastMessage returns without releasing the mutex
KeepHub(b) ==
    /\ todo[b] = {}
    /\ UNCHANGED hubVars

UnlockHub(b) ==
    /\ todo[b] = {}
    /\ hub' = Nobody
    /\ UNCHANGED <<conns, todo, session, link, written, log, joined>>

-----------------------------------------------------------------------------
(* The /api/ws handler.                                                    *)

Upgrade(c) ==
    /\ session[c] = "idle"
    /\ session' = [session EXCEPT ![c] = "upgraded"]
    /\ UNCHANGED <<hub, conns, todo, link, written, log, joined>>

\* The client may be gone already: the first NextReader finds out.
Register(c) ==
    /\ session[c] = "upgraded"
    /\ HubFree
    /\ session' = [session EXCEPT ![c] = "reading"]
    /\ conns' = conns \union {c}
    /\ joined' = [joined EXCEPT ![c] = Len(log)]
    /\ UNCHANGED <<hub, todo, link, written, log>>

\* mutant: the handler closes the connection and leaves it in the registry
KeepRegistered(c) == conns
Forgotten(c) == conns \ {c}

\* NextReader returns an error: lock, delete, unlock, close.  The broadcast may have
\* deleted and closed the connection before; deleting it again does nothing.
Unregister(c) ==
    /\ session[c] = "reading"
    /\ link[c] = "down"
    /\ HubFree
    /\ session' = [session EXCEPT ![c] = "closed"]
    /\ conns' = Forgotten(c)
    /\ UNCHANGED <<hub, todo, link, written, log, joined>>

-----------------------------------------------------------------------------
(* The clients and the network.                                            *)

\* The client stops reading and its socket buffers are full ...
Stall(c) ==
    /\ session[c] \in {"upgraded", "reading"}
    /\ link[c] = "up"
    /\ link' = [link EXCEPT ![c] = "stalled"]
    /\ UNCHANGED <<hub, conns, todo, session, written, log, joined>>

\* ... it reads again ...
Resume(c) ==
    /\ link[c] = "stalled"
    /\ link' = [link EXCEPT ![c] = "up"]
    /\ UNCHANGED <<hub, conns, todo, session, written, log, joined>>

\* ... or the connection breaks.
Drop(c) ==
    /\ session[c] \in {"upgraded", "reading"}
    /\ link[c] # "down"
    /\ link' = [link EXCEPT ![c] = "down"]
    /\ UNCHANGED <<hub, conns, todo, session, written, log, joined>>

ConnStep(c) ==
    Upgrade(c) \/ Register(c) \/ Unregister(c) \/ Stall(c) \/ Resume(c) \/ Drop(c)

-----------------------------------------------------------------------------
(* Properties.                                                             *)

\* What c was sent is one stretch of the log, from where it joined, in the log's order.
Stretch(c) == SubSeq(log, joined[c] + 1, joined[c] + Len(written[c]))

\* Every client is sent the broadcasts that began since it registered, each once, in
\* the one order in which the topics' goroutines took the mutex; a client still
\* registered has been sent all of them, but for the broadcast that has yet to visit it.
OneOrderNoGaps ==
    \A c \in Conns :
        /\ written[c] = Stretch(c)
        /\ c \in conns =>
             Len(log) = joined[c] + Len(written[c])
                          + (IF \E b \in Broadcasters : c \in todo[b] THEN 1 ELSE 0)

\* Only connections whose handler is reading are registered, and a connection that
\* is not broken stays registered as long as its handler reads.
RegistryMatchesHandlers ==
    \A c \in Conns :
        /\ c \in conns => session[c] = "reading"
        /\ session[c] = "reading" /\ link[c] # "down" => c \in conns

=============================================================================
