----------------------------- MODULE RemoteLink -----------------------------
(***************************************************************************)
(* Remote control: the machine's RemoteLink (packages/remote-link/src/     *)
(* index.ts), which dials the gateway and serves its RPCs, and the         *)
(* gateway's UplinkRegistry and RemoteHub (packages/gateway-server/src/    *)
(* uplink.ts), over WebSocket connections that may break at any moment.    *)
(*                                                                         *)
(* Connections are numbered in the order of dialling; up[c] and down[c]    *)
(* are the frames in transit.  What is forwarded is the hub's active       *)
(* session (with the pending cards, which travel in the same frame).       *)
(* phase[l] is the await of one loop() call:                               *)
(*   token    ensureToken;  linked  connect() until its connection closes  *)
(*   backoff  delay(backoff)                                               *)
(***************************************************************************)
EXTENDS Naturals, Sequences, FiniteSets

CONSTANTS MaxConns,      \* bound: connections
          MaxStarts,     \* bound: loop() calls, one per start()
          MaxStops,      \* bound: stop() calls
          MaxRpcs,       \* bound: hub RPCs of the gateway's clients
          Actives,       \* the hub's active session
          nil,           \* no active session, no client
          peer,          \* the connection of another process with the same credential
          MaxFaults,     \* bound: failed tokens, failed dials and broken connections
          MaxChanges     \* bound: sessions activated or closed, and registrations of the peer

ASSUME RemoteLinkAssumption ==
    /\ nil \notin Actives /\ peer \notin 0..MaxConns
    /\ {MaxConns, MaxStarts, MaxStops, MaxRpcs, MaxFaults, MaxChanges} \subseteq Nat

Conns == 1..MaxConns
Loops == 1..MaxStarts
Rpcs == 1..MaxRpcs

VARIABLES
    \* the machine
    running, state,
    replaced,        \* replacedByPeer
    phase, dialled,  \* the loops, and the connection each waits on
    socket,          \* this.socket, 0 for none
    forwarding,      \* detachHub: the hub's events are forwarded
    active,          \* hub.active
    signature,       \* stateSignature
    handling,        \* RPCs being served
    conn,            \* the machine's end of each connection; aborted: closed while dialling
    \* the network
    up, down, broken,
    \* the gateway
    uplink,          \* its end of each connection
    route,           \* instances.get(client)
    bound,           \* the connection whose RemoteHub a /v1/ws client talks to
    snapshot,        \* activeState of the RemoteHub of the route
    applying,        \* results of its RPCs whose promise is resolved: what each will set
    rpc, rpcConn, rpcId, method,   \* each RPC: its state, its RemoteHub, id and method
    \* bookkeeping
    used,            \* connections dialled so far
    unforwarded,     \* history: a change since the last frame that no frame reports
    overtaken,       \* history: the last state frame was handled with a result still to apply
    faults, changes

link == <<running, state, replaced, phase, dialled, socket, forwarding>>
local == <<active, signature, handling>>
network == <<up, down, broken>>
hub == <<snapshot, applying, overtaken>>
gateway == <<uplink, route, bound, hub>>
calls == <<rpc, rpcConn, rpcId, method>>
vars == <<link, local, conn, network, gateway, calls, used, unforwarded, faults, changes>>

Init ==
    /\ running = FALSE /\ state = "off" /\ replaced = FALSE
    /\ phase = [l \in Loops |-> "unused"] /\ dialled = [l \in Loops |-> 0]
    /\ socket = 0 /\ forwarding = FALSE
    /\ active = nil /\ signature = nil /\ handling = {}
    /\ conn = [c \in Conns |-> "unused"]
    /\ up = [c \in Conns |-> <<>>] /\ down = [c \in Conns |-> <<>>]
    /\ broken = [c \in Conns |-> "no"]
    /\ uplink = [c \in Conns |-> "unused"]
    /\ route = 0 /\ bound = nil
    /\ snapshot = nil /\ applying = <<>> /\ overtaken = FALSE
    /\ rpc = [k \in Rpcs |-> "unused"] /\ rpcConn = [k \in Rpcs |-> 0]
    /\ rpcId = [k \in Rpcs |-> 0] /\ method = [k \in Rpcs |-> "query"]
    /\ used = 0 /\ unforwarded = FALSE
    /\ faults = 0 /\ changes = 0

-----------------------------------------------------------------------------
(* The machine: start, stop and the dialling loop *)

Register(a) == [type |-> "register", active |-> a]
State(a) == [type |-> "state", active |-> a]
Result(h, ok, a) == [type |-> "result", id |-> h.id, method |-> h.method, ok |-> ok, active |-> a]
Call(i, m) == [type |-> "rpc", id |-> i, method |-> m]
Registered == [type |-> "registered"]

\* this.socket?.send
Sent(frames) == IF socket = 0 \/ conn[socket] # "open" \/ uplink[socket] = "closed" THEN up
                ELSE [up EXCEPT ![socket] = @ \o frames]

\* start(): a no-op while running
Start(l) ==
    /\ ~running /\ phase[l] = "unused" /\ \A x \in 1..(l - 1) : phase[x] # "unused"
    /\ running' = TRUE /\ replaced' = FALSE
    /\ phase' = [phase EXCEPT ![l] = "token"]
    /\ state' = "connecting"
    /\ UNCHANGED <<dialled, socket, forwarding, local, conn, network, gateway, calls, used,
                   unforwarded, faults, changes>>

\* stop(), as one step: its last assignment, state, comes after the closing handshake or 1 s.
\* The loop's await goes on.
Stop ==
    /\ running /\ Cardinality({l \in Loops : phase[l] # "unused"}) <= MaxStops
    /\ running' = FALSE
    /\ state' = "off"
    /\ forwarding' = FALSE
    /\ socket' = 0
    /\ IF socket = 0 THEN UNCHANGED <<conn, broken, down>>
       ELSE /\ conn' = [conn EXCEPT ![socket] = IF @ = "dialling" THEN "aborted" ELSE "closing"]
            /\ down' = [down EXCEPT ![socket] = <<>>]
            /\ broken' = [broken EXCEPT ![socket] = IF @ = "no" THEN "closed" ELSE @]
    /\ UNCHANGED <<replaced, phase, dialled, local, up, gateway, calls, used, unforwarded, faults,
                   changes>>

\* connect() after ensureToken: a socket, whether or not the link still runs
Dial(l) ==
    /\ phase[l] = "token" /\ used < MaxConns
    /\ used' = used + 1
    /\ phase' = [phase EXCEPT ![l] = "linked"]
    /\ dialled' = [dialled EXCEPT ![l] = used + 1]
    /\ conn' = [conn EXCEPT ![used + 1] = "dialling"]
    /\ socket' = used + 1
    /\ UNCHANGED <<running, state, replaced, forwarding, local, network, gateway, calls,
                   unforwarded, faults, changes>>

\* The catch of loop(): no look at running before the state is set
Failed(l) ==
    /\ state' = "connecting"
    /\ phase' = [phase EXCEPT ![l] = IF running THEN "backoff" ELSE "done"]

\* No token, or no configuration
TokenFails(l) ==
    /\ phase[l] = "token" /\ faults < MaxFaults
    /\ faults' = faults + 1
    /\ Failed(l)
    /\ UNCHANGED <<running, replaced, dialled, socket, forwarding, local, conn, network, gateway,
                   calls, used, unforwarded, changes>>

\* The delay is over: while (this.running)
Retry(l) ==
    /\ phase[l] = "backoff"
    /\ phase' = [phase EXCEPT ![l] = IF running THEN "token" ELSE "done"]
    /\ state' = IF running THEN "connecting" ELSE state
    /\ UNCHANGED <<running, replaced, dialled, socket, forwarding, local, conn, network, gateway,
                   calls, used, unforwarded, faults, changes>>

\* onOpen: sendRegister on this.socket, whichever it is, with the state of this moment
Open(c) ==
    /\ conn[c] = "dialling" /\ broken[c] = "no"
    /\ conn' = [conn EXCEPT ![c] = "open"]
    /\ uplink' = [uplink EXCEPT ![c] = "attached"]
    /\ up' = IF socket = c THEN [up EXCEPT ![c] = Append(@, Register(active))]
             ELSE Sent(<<Register(active)>>)
    /\ signature' = active
    /\ unforwarded' = FALSE
    /\ UNCHANGED <<link, active, handling, down, broken, route, bound, hub, calls, used,
                   faults, changes>>

\* A mutant of Disconnected: a lost connection is not dialled again.
DisconnectedForGood(l) ==
    /\ phase' = [phase EXCEPT ![l] = "done"]
    /\ state' = IF ~running THEN state ELSE IF replaced' THEN "off" ELSE "connecting"

\* loop() after a connection that was open: it stands down when a peer has taken over
Disconnected(l) ==
    /\ phase' = [phase EXCEPT ![l] = IF running /\ ~replaced' THEN "backoff" ELSE "done"]
    /\ state' = IF ~running THEN state ELSE IF replaced' THEN "off" ELSE "connecting"

\* onClose of connection c: forwarding and this.socket go, whosever they are
Closed(c) ==
    /\ conn' = [conn EXCEPT ![c] = "closed"]
    /\ socket' = 0
    /\ forwarding' = FALSE
    /\ down' = [down EXCEPT ![c] = <<>>]
    /\ dialled' = [l \in Loops |-> IF dialled[l] = c THEN 0 ELSE dialled[l]]
    /\ UNCHANGED <<running, local, up, broken, gateway, calls, used, unforwarded, changes>>

\* An open connection closes; a close frame arrives after the frames before it
Lost(c) ==
    /\ conn[c] \in {"open", "closing"} /\ broken[c] # "no"
    /\ conn[c] = "open" /\ broken[c] \in {"replaced", "refused"} => down[c] = <<>>
    /\ CASE broken[c] # "replaced" -> UNCHANGED replaced
         [] broken[c] = "replaced" /\ conn[c] = "open" -> replaced' = TRUE
         [] OTHER -> replaced' \in {TRUE, replaced}   \* the two close frames cross after stop()
    /\ \E l \in Loops : dialled[l] = c /\ Disconnected(l)
    /\ Closed(c)
    /\ UNCHANGED faults

\* The dial fails
Unreached(c) ==
    /\ \/ conn[c] = "aborted" /\ UNCHANGED faults
       \/ conn[c] = "dialling" /\ faults < MaxFaults /\ faults' = faults + 1
    /\ UNCHANGED replaced
    /\ \E l \in Loops : dialled[l] = c /\ Failed(l)
    /\ Closed(c)

-----------------------------------------------------------------------------
(* The machine: its hub, and the frames it receives *)

\* A mutant of Push: every change is taken as already reported.
PushNever(a, result) ==
    up' = Sent(result) /\ UNCHANGED <<signature, unforwarded>>

\* The subscription of attachHubForwarding: a state frame when the signature has changed
Push(a, result) ==
    IF forwarding /\ a # signature
    THEN up' = Sent(<<State(a)>> \o result) /\ signature' = a /\ unforwarded' = FALSE
    ELSE /\ up' = Sent(result)
         /\ unforwarded' = (unforwarded \/ ~forwarding)
         /\ UNCHANGED signature

\* A session is activated on the machine: session.attached
Activate(a) ==
    /\ changes < MaxChanges /\ a # active
    /\ changes' = changes + 1
    /\ active' = a
    /\ Push(a, <<>>)
    /\ UNCHANGED <<link, handling, conn, down, broken, gateway, calls, used, faults>>

\* A frame from the gateway on a connection that is open
Received(c, type) ==
    /\ conn[c] = "open" /\ broken[c] \in {"no", "replaced", "refused"}
    /\ down[c] # <<>> /\ Head(down[c]).type = type
    /\ down' = [down EXCEPT ![c] = Tail(@)]

\* uplink.registered
Online(c) ==
    /\ Received(c, "registered")
    /\ forwarding' = TRUE
    /\ state' = "online"
    /\ UNCHANGED <<running, replaced, phase, dialled, socket, local, conn, up, broken, gateway,
                   calls, used, unforwarded, faults, changes>>

\* rpc: hub.start, hub.resume and hub.closeActive first detach the embedded hub, without an
\* event; that is all closeActive does
Serve(c) ==
    /\ Received(c, "rpc")
    /\ LET f == Head(down[c])
       IN /\ IF f.method = "close"
             THEN up' = Sent(<<Result(f, TRUE, nil)>>) /\ UNCHANGED handling
             ELSE /\ handling' = handling \cup {[conn |-> c, id |-> f.id, method |-> f.method]}
                  /\ UNCHANGED up
          /\ active' = IF f.method = "query" THEN active ELSE nil
          /\ unforwarded' = (unforwarded \/ active' # active)
    /\ UNCHANGED <<link, signature, conn, broken, gateway, calls, used, faults, changes>>

\* The session that hub.start or hub.resume asked for is attached, and then the result is sent
Reopen(h, a) ==
    /\ h.method = "open"
    /\ handling' = handling \ {h}
    /\ active' = a
    /\ Push(a, <<Result(h, TRUE, a)>>)
    /\ UNCHANGED <<link, conn, down, broken, gateway, calls, used, faults, changes>>

\* invokeHub returns or throws: the result goes out on the socket of this moment
Answer(h, ok) ==
    /\ ok => h.method # "open"
    /\ handling' = handling \ {h}
    /\ up' = Sent(<<Result(h, ok, nil)>>)
    /\ UNCHANGED <<link, active, signature, conn, down, broken, gateway, calls, used, unforwarded,
                   faults, changes>>

-----------------------------------------------------------------------------
(* The network *)

Break(c) ==
    /\ broken[c] = "no" /\ conn[c] = "open" /\ faults < MaxFaults
    /\ faults' = faults + 1
    /\ broken' = [broken EXCEPT ![c] = "cut"]
    /\ UNCHANGED <<link, local, conn, up, down, gateway, calls, used, unforwarded, changes>>

-----------------------------------------------------------------------------
(* The gateway *)

\* A mutant of Rejected: the table of RPCs is cleared, nobody is told.
RejectedSilently(c) ==
    [k \in Rpcs |-> IF rpc[k] = "pending" /\ rpcConn[k] = c THEN "cleared" ELSE rpc[k]]

\* hub.close(): the RPCs in flight on connection c fail
Rejected(c) ==
    [k \in Rpcs |-> IF rpc[k] = "pending" /\ rpcConn[k] = c THEN "failed" ELSE rpc[k]]

\* A frame from the machine on a connection that the gateway has not closed
Got(c, type) ==
    /\ uplink[c] \in {"attached", "registered"} /\ broken[c] \in {"no", "closed"}
    /\ up[c] # <<>> /\ Head(up[c]).type = type

\* A mutant of Kicked: the clients of a machine that reconnects stay.
KickedNone == bound

\* machine.online: the gateway closes the machine's /v1/ws clients, bound to the hub before
Kicked == nil

\* Node runs the continuations of resolved promises before it handles another socket, a timer
\* or a request; frames of the same chunk of one socket are handled before them.
Settled == applying = <<>> /\ UNCHANGED applying

\* A registration takes the route over: the RPCs of the one before fail and it is closed
TakeOver(x, a, rest) ==
    /\ Settled
    /\ route' = x
    /\ snapshot' = a /\ overtaken' = FALSE
    /\ bound' = Kicked
    /\ uplink' = [c \in Conns |-> CASE c = x -> "registered"
                                    [] c = route -> "closed"
                                    [] OTHER -> uplink[c]]
    /\ up' = [c \in Conns |-> CASE c = x -> rest [] c = route -> <<>> [] OTHER -> up[c]]
    /\ broken' = [c \in Conns |-> IF c = route /\ broken[c] = "no" THEN "replaced" ELSE broken[c]]
    /\ rpc' = Rejected(route)

\* uplink.register, the first frame of a connection
Accept(c) ==
    /\ uplink[c] = "attached" /\ Got(c, "register")
    /\ TakeOver(c, Head(up[c]).active, Tail(up[c]))
    /\ down' = IF conn[c] = "open" THEN [down EXCEPT ![c] = Append(@, Registered)] ELSE down
    /\ UNCHANGED <<link, local, conn, rpcConn, rpcId, method, used, unforwarded, faults, changes>>

\* Another process registers with the same credential, and may go away.
PeerRegisters ==
    /\ route # peer /\ changes < MaxChanges
    /\ changes' = changes + 1
    /\ TakeOver(peer, nil, <<>>)
    /\ UNCHANGED <<link, local, conn, down, rpcConn, rpcId, method, used, unforwarded, faults>>

PeerLeaves ==
    /\ route = peer /\ Settled
    /\ route' = 0
    /\ UNCHANGED <<link, local, conn, network, uplink, bound, snapshot, overtaken, calls, used,
                   unforwarded, faults, changes>>

\* onClose of a connection at the gateway; the results still to apply go with its RemoteHub
Drop(c) ==
    /\ uplink' = [uplink EXCEPT ![c] = "closed"]
    /\ up' = [up EXCEPT ![c] = <<>>]
    /\ rpc' = Rejected(c)
    /\ IF route = c THEN route' = 0 /\ snapshot' = nil /\ applying' = <<>>
       ELSE UNCHANGED <<route, snapshot, applying>>
    /\ UNCHANGED overtaken

Gone(c) ==
    /\ uplink[c] \in {"attached", "registered"}
    /\ broken[c] = "cut" \/ (broken[c] = "closed" /\ up[c] = <<>>)
    /\ applying = <<>>
    /\ Drop(c)
    /\ UNCHANGED <<link, local, conn, down, broken, bound, rpcConn, rpcId, method, used,
                   unforwarded, faults, changes>>

\* A second register (the onOpen of an older socket sends it on this one) closes the connection;
\* a first frame of another type never occurs.
Refuse(c) ==
    /\ uplink[c] = "registered" /\ Got(c, "register")
    /\ broken' = [broken EXCEPT ![c] = IF @ = "no" THEN "refused" ELSE @]
    /\ Drop(c)
    /\ UNCHANGED <<link, local, conn, down, bound, rpcConn, rpcId, method, used, unforwarded,
                   faults, changes>>

\* uplink.state, of the next chunk or of the one that the results still to apply came in
Report(c) ==
    /\ uplink[c] = "registered" /\ Got(c, "state")
    /\ up' = [up EXCEPT ![c] = Tail(@)]
    /\ snapshot' = Head(up[c]).active
    /\ overtaken' = (applying # <<>>)
    /\ UNCHANGED <<link, local, conn, down, broken, uplink, route, bound, applying, calls, used,
                   unforwarded, faults, changes>>

\* optimistic: what the result will do to the snapshot depends on the method that waited for it
Resolves(k, f) == CASE f.ok /\ method[k] = "close" -> <<nil>>
                    [] f.ok /\ method[k] = "open" /\ f.method = "open" -> <<f.active>>
                    [] OTHER -> <<>>

\* The continuation of a resolved result
Apply ==
    /\ applying # <<>>
    /\ snapshot' = Head(applying)
    /\ applying' = Tail(applying)
    /\ UNCHANGED <<link, local, conn, network, uplink, route, bound, overtaken, calls, used,
                   unforwarded, faults, changes>>

\* acceptResult: the pending RPC of this hub with that id, if any, is resolved or rejected
Settle(c) ==
    /\ uplink[c] = "registered" /\ Got(c, "result")
    /\ LET f == Head(up[c])
           K == {k \in Rpcs : rpc[k] = "pending" /\ rpcConn[k] = c /\ rpcId[k] = f.id}
       IN IF K = {} THEN UNCHANGED <<rpc, applying>>
          ELSE \E k \in K :
                  /\ rpc' = [rpc EXCEPT ![k] = IF f.ok THEN "answered" ELSE "failed"]
                  /\ applying' = applying \o Resolves(k, f)
    /\ up' = [up EXCEPT ![c] = Tail(@)]
    /\ UNCHANGED <<link, local, conn, down, broken, uplink, route, bound, snapshot, overtaken,
                   rpcConn, rpcId, method, used, unforwarded, faults, changes>>

\* A /v1/ws client connects: resolveHub at the handshake, or 503
Connect ==
    /\ bound = nil /\ route # 0 /\ applying = <<>>
    /\ bound' = route
    /\ UNCHANGED <<link, local, conn, network, uplink, route, hub, calls, used, unforwarded,
                   faults, changes>>

\* call() by a client: REST resolves the hub for each request, /v1/ws uses its own; a closed
\* hub refuses.  Ids are counted per RemoteHub.
Invoke(k, m) ==
    /\ rpc[k] = "unused" /\ (\A x \in 1..(k - 1) : rpc[x] # "unused") /\ applying = <<>>
    /\ \E c \in {route, bound} \cap Conns :
          /\ uplink[c] = "registered"
          /\ LET i == Cardinality({x \in Rpcs : rpcConn[x] = c}) + 1
             IN /\ rpcId' = [rpcId EXCEPT ![k] = i]
                /\ down' = IF conn[c] = "open"
                           THEN [down EXCEPT ![c] = Append(@, Call(i, m))] ELSE down
          /\ rpcConn' = [rpcConn EXCEPT ![k] = c]
    /\ rpc' = [rpc EXCEPT ![k] = "pending"]
    /\ method' = [method EXCEPT ![k] = m]
    /\ UNCHANGED <<link, local, conn, up, broken, gateway, used, unforwarded, faults, changes>>

\* The RPC's timer
Expire(k) ==
    /\ rpc[k] = "pending" /\ applying = <<>>
    /\ rpc' = [rpc EXCEPT ![k] = "failed"]
    /\ UNCHANGED <<link, local, conn, network, gateway, rpcConn, rpcId, method, used, unforwarded,
                   faults, changes>>

-----------------------------------------------------------------------------
Methods == {"query", "open", "close"}

\* What the machine, the connections and the gateway do by themselves
LinkWork(l) == Dial(l) \/ Retry(l)
ConnWork(c) == \/ Open(c) \/ Lost(c) \/ Online(c) \/ Serve(c)
               \/ Accept(c) \/ Refuse(c) \/ Report(c) \/ Settle(c) \/ Gone(c)

Next ==
    \/ \E l \in Loops : LinkWork(l) \/ Start(l) \/ TokenFails(l)
    \/ \E c \in Conns : ConnWork(c) \/ Unreached(c) \/ Break(c)
    \/ Stop
    \/ \E a \in Actives : Activate(a)
    \/ \E h \in handling : (\E a \in Actives : Reopen(h, a)) \/ (\E ok \in BOOLEAN : Answer(h, ok))
    \/ PeerRegisters \/ PeerLeaves \/ Connect \/ Apply
    \/ \E k \in Rpcs : Expire(k) \/ (\E m \in Methods : Invoke(k, m))

(***************************************************************************)
(* Fairness: tokens arrive and delays end, frames that are not lost are    *)
(* delivered, both ends of a broken connection notice, and a resolved      *)
(* promise is continued.  Faults, users and peers owe nothing.             *)
(***************************************************************************)
Spec == /\ Init /\ [][Next]_vars
        /\ \A l \in Loops : WF_vars(LinkWork(l))
        /\ \A c \in Conns : WF_vars(ConnWork(c))
        /\ WF_vars(Apply)

-----------------------------------------------------------------------------
(* Properties *)

\* Every variable has its type.  The RPC states are the three outcomes of the promise that
\* RemoteHub.call returns: nothing but a result, a failure or a timeout removes a pending RPC.
TypeOK ==
    /\ {running, replaced, forwarding, unforwarded, overtaken} \subseteq BOOLEAN
    /\ state \in {"off", "connecting", "online"}
    /\ phase \in [Loops -> {"unused", "token", "linked", "backoff", "done"}]
    /\ dialled \in [Loops -> 0..MaxConns]
    /\ socket \in 0..MaxConns /\ used \in 0..MaxConns
    /\ {active, signature} \subseteq Actives \cup {nil}
    /\ \A h \in handling : h.conn \in Conns /\ h.id \in 1..MaxRpcs /\ h.method \in Methods
    /\ conn \in [Conns -> {"unused", "dialling", "open", "aborted", "closing", "closed"}]
    /\ broken \in [Conns -> {"no", "cut", "closed", "replaced", "refused"}]
    /\ uplink \in [Conns -> {"unused", "attached", "registered", "closed"}]
    /\ route \in 0..MaxConns \cup {peer} /\ bound \in Conns \cup {peer, nil}
    /\ snapshot \in Actives \cup {nil} /\ applying \in Seq(Actives \cup {nil})
    /\ rpc \in [Rpcs -> {"unused", "pending", "answered", "failed"}]
    /\ rpcConn \in [Rpcs -> 0..MaxConns] /\ rpcId \in [Rpcs -> 0..MaxRpcs]
    /\ method \in [Rpcs -> Methods]

\* While a machine is registered, every /v1/ws client of it talks to the hub of the connection
\* that is registered now, and every RPC in flight waits on that connection: none is left with
\* a hub that was closed when the machine reconnected or was replaced.
ClientsFollow ==
    /\ bound # nil /\ route # 0 => bound = route
    /\ \A c \in Conns : uplink[c] = "registered" <=> route = c
    /\ \A k \in Rpcs : rpc[k] = "pending" => rpcConn[k] = route

\* The link has had one loop that is still at work.
Alone(l) == \A x \in Loops \ {l} : phase[x] \in {"unused", "done"}

\* Once every frame between the machine and the gateway has been handled and every result
\* applied, the active session that the gateway answers its clients with is the machine's,
\* unless the session changed where no frame reports it (between uplink.register and
\* uplink.registered, or by a close, which has no event), or the last state frame came in one
\* chunk with the result of an RPC that was applied after it: optimistic lets the older result
\* overwrite the newer state until the next frame, though its comment has the state frame
\* overwrite the result.
SnapshotFollows ==
    \A c \in Conns :
        /\ socket = c /\ route = c /\ up[c] = <<>> /\ down[c] = <<>> /\ applying = <<>>
        /\ ~unforwarded /\ ~overtaken
        => snapshot = active

\* A link with one loop comes online, whatever tokens, dials and connections failed before,
\* unless it is stopped or stands down for a peer (or the connections of the model are spent).
LinkComesOnline ==
    (running /\ \E l \in Loops : phase[l] \in {"token", "linked", "backoff"} /\ Alone(l))
        ~> (state = "online" \/ ~running \/ replaced \/ conn[MaxConns] = "closed")
=============================================================================
