-------------------------- MODULE RemoteLinkProofs --------------------------
(***************************************************************************)
(* Proofs about RemoteLink for any number of connections, loops and RPCs:  *)
(* the types, with those of the frames in transit, that the gateway's      *)
(* clients and RPCs are always with the connection that is registered, and *)
(* that the gateway's snapshot becomes the session of the machine.         *)
(***************************************************************************)
EXTENDS RemoteLink, FiniteSetTheorems, SequenceTheorems, TLAPS

(***************************************************************************)
(* The frames.  TypeOK does not type them, but the gateway takes its       *)
(* snapshot from the frames of the machine, and the machine its RPCs from  *)
(* those of the gateway.                                                   *)
(***************************************************************************)
Sessions == Actives \cup {nil}
Ids == 1..MaxRpcs
Handles == [conn : Conns, id : Ids, method : Methods]

UpFrames == [type : {"register", "state"}, active : Sessions]
            \cup [type : {"result"}, id : Ids, method : Methods, ok : BOOLEAN, active : Sessions]
DownFrames == [type : {"registered"}] \cup [type : {"rpc"}, id : Ids, method : Methods]

LinkTypes ==
    /\ running \in BOOLEAN /\ replaced \in BOOLEAN /\ forwarding \in BOOLEAN
    /\ state \in {"off", "connecting", "online"}
    /\ phase \in [Loops -> {"unused", "token", "linked", "backoff", "done"}]
    /\ dialled \in [Loops -> 0..MaxConns]
    /\ socket \in 0..MaxConns /\ used \in 0..MaxConns
    /\ faults \in Nat /\ changes \in Nat

HubTypes ==
    /\ unforwarded \in BOOLEAN
    /\ active \in Sessions /\ signature \in Sessions
    /\ handling \subseteq Handles

ConnTypes ==
    /\ conn \in [Conns -> {"unused", "dialling", "open", "aborted", "closing", "closed"}]
    /\ broken \in [Conns -> {"no", "cut", "closed", "replaced", "refused"}]
    /\ uplink \in [Conns -> {"unused", "attached", "registered", "closed"}]

FrameTypes == up \in [Conns -> Seq(UpFrames)] /\ down \in [Conns -> Seq(DownFrames)]

RouteTypes ==
    /\ route \in 0..MaxConns \cup {peer} /\ bound \in Conns \cup {peer, nil}
    /\ snapshot \in Sessions /\ applying \in Seq(Sessions) /\ overtaken \in BOOLEAN

\* An RPC has no connection before it is sent: the ids of a RemoteHub count those that were.
CallTypes ==
    /\ rpc \in [Rpcs -> {"unused", "pending", "answered", "failed"}]
    /\ rpcConn \in [Rpcs -> 0..MaxConns] /\ rpcId \in [Rpcs -> 0..MaxRpcs]
    /\ method \in [Rpcs -> Methods]
    /\ \A k \in Rpcs : rpc[k] = "unused" => rpcConn[k] = 0

TypeInv == LinkTypes /\ HubTypes /\ ConnTypes /\ FrameTypes /\ RouteTypes /\ CallTypes

LEMMA Frames ==
  /\ \A a \in Sessions : Register(a) \in UpFrames /\ State(a) \in UpFrames
  /\ \A h \in Handles, ok \in BOOLEAN, a \in Sessions : Result(h, ok, a) \in UpFrames
  /\ \A i \in Ids, m \in Methods : Call(i, m) \in DownFrames
  /\ Registered \in DownFrames
BY DEF Register, State, Result, Call, Registered, UpFrames, DownFrames, Handles

LEMMA Ranges ==
  /\ Conns \subseteq 0..MaxConns /\ 0 \in 0..MaxConns
  /\ 0 \notin Conns /\ peer \notin Conns
  /\ \A c \in 0..MaxConns : c # 0 => c \in Conns
BY RemoteLinkAssumption DEF Conns

LEMMA ResultSeqs ==
  <<>> \in Seq(Sessions) /\ \A a \in Sessions, q \in Seq(Sessions) : q \o <<a>> \in Seq(Sessions)
OBVIOUS

LEMMA FrameSeqs ==
  /\ <<>> \in Seq(UpFrames) /\ <<>> \in Seq(DownFrames)
  /\ \A f \in UpFrames : <<f>> \in Seq(UpFrames) /\ \A s \in Seq(UpFrames) :
        Append(s, f) \in Seq(UpFrames) /\ <<f>> \o s \in Seq(UpFrames)
  /\ \A f \in DownFrames, s \in Seq(DownFrames) : Append(s, f) \in Seq(DownFrames)
OBVIOUS

\* The id of the next RPC: RPC k itself is not among those that the RemoteHub has sent.
LEMMA NextId ==
  ASSUME TypeInv, NEW k \in Rpcs, rpc[k] = "unused", NEW c \in Conns
  PROVE  Cardinality({x \in Rpcs : rpcConn[x] = c}) + 1 \in Ids
<1> DEFINE K == {x \in Rpcs : rpcConn[x] = c}
<1>1. IsFiniteSet(Rpcs) /\ Cardinality(Rpcs) = MaxRpcs /\ MaxRpcs \in Nat
  BY FS_Interval, RemoteLinkAssumption DEF Rpcs
<1>2. K \subseteq Rpcs /\ k \notin K
  BY Ranges DEF TypeInv, CallTypes
<1>3. IsFiniteSet(K) /\ Cardinality(K) <= Cardinality(Rpcs) /\ Cardinality(K) # Cardinality(Rpcs)
  BY <1>1, <1>2, FS_Subset
<1>4. Cardinality(K) \in Nat
  BY <1>3, FS_CardinalityType
<1> QED
  BY <1>1, <1>3, <1>4 DEF Ids

LEMMA SentType ==
  ASSUME TypeInv, NEW s \in Seq(UpFrames)
  PROVE  Sent(s) \in [Conns -> Seq(UpFrames)]
BY Ranges DEF TypeInv, LinkTypes, FrameTypes, Sent

LEMMA HeadType ==
  ASSUME TypeInv, NEW c \in Conns
  PROVE  /\ up[c] # <<>> => Head(up[c]) \in UpFrames /\ Tail(up[c]) \in Seq(UpFrames)
         /\ down[c] # <<>> => Head(down[c]) \in DownFrames /\ Tail(down[c]) \in Seq(DownFrames)
BY HeadTailProperties DEF TypeInv, FrameTypes

LEMMA TypeStep == TypeInv /\ [Next]_vars => TypeInv'
<1> SUFFICES ASSUME TypeInv, [Next]_vars
             PROVE  TypeInv'
  OBVIOUS
<1> USE Ranges DEF TypeInv
<1>1. ASSUME NEW l \in Loops, Start(l) PROVE TypeInv'
  BY ZenonT(60), <1>1 DEF LinkTypes, link, HubTypes, Sessions, local, ConnTypes, network, gateway, hub, FrameTypes,
     RouteTypes, CallTypes, calls, Start
<1>2. ASSUME NEW l \in Loops, Dial(l) PROVE TypeInv'
  <2>1. LinkTypes'
    BY RemoteLinkAssumption, <1>2 DEF LinkTypes, link, Dial, Conns
  <2>2. HubTypes' /\ ConnTypes' /\ FrameTypes' /\ RouteTypes' /\ CallTypes'
    BY <1>2 DEF HubTypes, Sessions, local, ConnTypes, LinkTypes, network, gateway, hub, FrameTypes,
       RouteTypes, CallTypes, calls, Dial
  <2> QED
    BY <2>1, <2>2
<1>3. ASSUME NEW l \in Loops, TokenFails(l) PROVE TypeInv'
  BY SMTT(40), <1>3 DEF LinkTypes, link, HubTypes, Sessions, local, ConnTypes, network, gateway, hub, FrameTypes,
     RouteTypes, CallTypes, calls, TokenFails, Failed
<1>4. ASSUME NEW l \in Loops, Retry(l) PROVE TypeInv'
  BY SMTT(40), <1>4 DEF LinkTypes, link, HubTypes, Sessions, local, ConnTypes, network, gateway, hub, FrameTypes,
     RouteTypes, CallTypes, calls, Retry
<1>5. CASE Stop
  <2>1. ConnTypes'
    BY SMTT(40), <1>5 DEF ConnTypes, LinkTypes, network, gateway, hub, Stop
  <2>2. FrameTypes'
    BY FrameSeqs, <1>5 DEF FrameTypes, network, Stop, LinkTypes
  <2>3. LinkTypes' /\ HubTypes' /\ RouteTypes' /\ CallTypes'
    BY <1>5 DEF LinkTypes, link, HubTypes, Sessions, local, RouteTypes, gateway, hub, CallTypes,
       calls, Stop
  <2> QED
    BY <2>1, <2>2, <2>3
<1>6. ASSUME NEW c \in Conns, Open(c) PROVE TypeInv'
  <2>1. FrameTypes'
    BY SentType, Frames, FrameSeqs, <1>6 DEF FrameTypes, network, Open, HubTypes
  <2>2. LinkTypes' /\ HubTypes' /\ ConnTypes' /\ RouteTypes' /\ CallTypes'
    BY ZenonT(60), <1>6 DEF LinkTypes, link, HubTypes, Sessions, local, ConnTypes, network, gateway, hub,
       RouteTypes, CallTypes, calls, Open
  <2> QED
    BY <2>1, <2>2
<1>7. ASSUME NEW c \in Conns, Lost(c) PROVE TypeInv'
  <2>1. LinkTypes'
    BY <1>7 DEF LinkTypes, link, Lost, Closed, Disconnected
  <2>2. FrameTypes'
    BY <1>7 DEF FrameTypes, network, Lost, Closed, Disconnected
  <2>3. HubTypes' /\ ConnTypes' /\ RouteTypes' /\ CallTypes'
    BY <1>7 DEF HubTypes, Sessions, local, ConnTypes, LinkTypes, network, gateway, hub, RouteTypes,
       CallTypes, calls, Lost, Closed, Disconnected
  <2> QED
    BY <2>1, <2>2, <2>3
<1>8. ASSUME NEW c \in Conns, Unreached(c) PROVE TypeInv'
  <2>1. LinkTypes'
    <3>1. faults' \in Nat
      BY <1>8 DEF LinkTypes, Unreached
    <3>2. PICK l \in Loops : dialled[l] = c /\ Failed(l)
      BY <1>8 DEF Unreached
    <3> QED
      BY <1>8, <3>1, <3>2 DEF LinkTypes, Unreached, Failed, Closed
  <2>2. HubTypes' /\ ConnTypes' /\ FrameTypes' /\ RouteTypes' /\ CallTypes'
    BY SMTT(40), <1>8 DEF HubTypes, Sessions, local, ConnTypes, LinkTypes, network, gateway, hub, FrameTypes,
       RouteTypes, CallTypes, calls, Unreached, Closed, Failed
  <2> QED
    BY <2>1, <2>2
<1>9. ASSUME NEW c \in Conns, Break(c) PROVE TypeInv'
  BY SMTT(40), <1>9 DEF LinkTypes, link, HubTypes, Sessions, local, ConnTypes, network, gateway, hub, FrameTypes,
     RouteTypes, CallTypes, calls, Break
<1>10. ASSUME NEW a \in Actives, Activate(a) PROVE TypeInv'
  <2>1. HubTypes'
    BY <1>10 DEF HubTypes, Sessions, local, Activate, Push
  <2>2. FrameTypes'
    BY SentType, Frames, FrameSeqs, <1>10 DEF FrameTypes, network, Activate, Push, HubTypes,
       Sessions
  <2>3. LinkTypes' /\ ConnTypes' /\ RouteTypes' /\ CallTypes'
    BY <1>10 DEF LinkTypes, link, ConnTypes, network, gateway, hub, RouteTypes, CallTypes, calls,
       Activate, Push
  <2> QED
    BY <2>1, <2>2, <2>3
<1>11. ASSUME NEW c \in Conns, Online(c) PROVE TypeInv'
  <2>1. FrameTypes'
    BY <1>11 DEF FrameTypes, network, Online, Received
  <2>2. LinkTypes' /\ HubTypes' /\ ConnTypes' /\ RouteTypes' /\ CallTypes'
    BY <1>11 DEF LinkTypes, link, HubTypes, Sessions, local, ConnTypes, network, gateway, hub,
       RouteTypes, CallTypes, calls, Online, Received
  <2> QED
    BY <2>1, <2>2
<1>12. ASSUME NEW c \in Conns, Serve(c) PROVE TypeInv'
  <2>1. HubTypes'
    <3>1. Head(down[c]).type = "rpc" /\ Head(down[c]) \in DownFrames
      BY HeadType, <1>12 DEF Serve, Received
    <3>2. [conn |-> c, id |-> Head(down[c]).id, method |-> Head(down[c]).method] \in Handles
      BY <3>1 DEF DownFrames, Handles
    <3> QED
      BY <1>12, <3>2 DEF HubTypes, Sessions, Serve, Received
  <2>2. FrameTypes'
    <3>1. Head(down[c]).type = "rpc" /\ Head(down[c]) \in DownFrames
      BY HeadType, <1>12 DEF Serve, Received
    <3>2. Result(Head(down[c]), TRUE, nil) \in UpFrames
      BY <3>1 DEF DownFrames, UpFrames, Result, Sessions
    <3>3. up' \in [Conns -> Seq(UpFrames)]
      BY <1>12, <3>2, SentType, FrameSeqs DEF Serve, FrameTypes
    <3> QED
      BY <1>12, <3>3, HeadType DEF FrameTypes, Serve, Received
  <2>3. LinkTypes' /\ ConnTypes' /\ RouteTypes' /\ CallTypes'
    BY <1>12 DEF LinkTypes, link, ConnTypes, network, gateway, hub, RouteTypes, CallTypes, calls,
       Serve, Received
  <2> QED
    BY <2>1, <2>2, <2>3
<1>13. ASSUME NEW h \in handling, NEW a \in Actives, Reopen(h, a) PROVE TypeInv'
  <2>1. FrameTypes'
    BY ZenonT(60), SentType, Frames, FrameSeqs, <1>13 DEF FrameTypes, network, Reopen, Push, HubTypes, Sessions
  <2>2. LinkTypes' /\ HubTypes' /\ ConnTypes' /\ RouteTypes' /\ CallTypes'
    BY ZenonT(60), <1>13 DEF LinkTypes, link, HubTypes, Sessions, local, ConnTypes, network, gateway, hub,
       RouteTypes, CallTypes, calls, Reopen, Push
  <2> QED
    BY <2>1, <2>2
<1>14. ASSUME NEW h \in handling, NEW ok \in BOOLEAN, Answer(h, ok) PROVE TypeInv'
  <2>1. FrameTypes'
    BY SentType, Frames, FrameSeqs, <1>14 DEF FrameTypes, network, Answer, HubTypes, Sessions
  <2>2. LinkTypes' /\ HubTypes' /\ ConnTypes' /\ RouteTypes' /\ CallTypes'
    BY <1>14 DEF LinkTypes, link, HubTypes, Sessions, local, ConnTypes, network, gateway, hub,
       RouteTypes, CallTypes, calls, Answer
  <2> QED
    BY <2>1, <2>2
<1>15. ASSUME NEW c \in Conns, Accept(c) PROVE TypeInv'
  <2>1. FrameTypes'
    BY HeadType, Frames, FrameSeqs, <1>15 DEF FrameTypes, network, Accept, Got, TakeOver, Settled,
       Rejected, Kicked
  <2>2. RouteTypes'
    BY HeadType, <1>15 DEF RouteTypes, gateway, hub, Accept, Got, TakeOver, Settled, Rejected, Kicked, UpFrames
  <2>3. LinkTypes' /\ HubTypes' /\ ConnTypes' /\ CallTypes'
    BY <1>15 DEF LinkTypes, link, HubTypes, Sessions, local, ConnTypes, network, gateway, hub,
       CallTypes, calls, Accept, Got, TakeOver, Settled, Rejected, Kicked
  <2> QED
    BY <2>1, <2>2, <2>3
<1>16. CASE PeerRegisters
  <2>1. RouteTypes'
    BY <1>16 DEF RouteTypes, gateway, hub, PeerRegisters, TakeOver, Settled, Rejected, Kicked, Sessions
  <2>2. LinkTypes' /\ HubTypes' /\ ConnTypes' /\ FrameTypes' /\ CallTypes'
    BY <1>16 DEF LinkTypes, link, HubTypes, Sessions, local, ConnTypes, network, gateway, hub,
       FrameTypes, CallTypes, calls, PeerRegisters, TakeOver, Settled, Rejected, Kicked
  <2> QED
    BY <2>1, <2>2
<1>17. CASE PeerLeaves
  BY <1>17 DEF LinkTypes, link, HubTypes, Sessions, local, ConnTypes, network, gateway, hub,
     FrameTypes, RouteTypes, CallTypes, calls, PeerLeaves, Settled
<1>18. ASSUME NEW c \in Conns, Gone(c) PROVE TypeInv'
  <2>1. RouteTypes'
    BY <1>18 DEF RouteTypes, gateway, hub, Gone, Drop, Rejected, Sessions
  <2>2. LinkTypes' /\ HubTypes' /\ ConnTypes' /\ FrameTypes' /\ CallTypes'
    BY <1>18 DEF LinkTypes, link, HubTypes, Sessions, local, ConnTypes, network, gateway, hub,
       FrameTypes, CallTypes, calls, Gone, Drop, Rejected
  <2> QED
    BY <2>1, <2>2
<1>19. ASSUME NEW c \in Conns, Refuse(c) PROVE TypeInv'
  <2>1. RouteTypes'
    BY <1>19, ResultSeqs DEF RouteTypes, gateway, hub, Refuse, Drop, Rejected, Sessions
  <2>2. LinkTypes' /\ HubTypes' /\ ConnTypes' /\ FrameTypes' /\ CallTypes'
    BY <1>19 DEF LinkTypes, link, HubTypes, Sessions, local, ConnTypes, network, gateway, hub,
       FrameTypes, CallTypes, calls, Refuse, Drop, Rejected
  <2> QED
    BY <2>1, <2>2
<1>20. ASSUME NEW c \in Conns, Report(c) PROVE TypeInv'
  <2>1. RouteTypes'
    BY HeadType, <1>20 DEF RouteTypes, gateway, hub, Report, Got, UpFrames
  <2>2. LinkTypes' /\ HubTypes' /\ ConnTypes' /\ FrameTypes' /\ CallTypes'
    BY SMTT(40), <1>20 DEF LinkTypes, link, HubTypes, Sessions, local, ConnTypes, network, gateway, hub,
       FrameTypes, CallTypes, calls, Report, Got
  <2> QED
    BY <2>1, <2>2
<1>21. ASSUME NEW c \in Conns, Settle(c) PROVE TypeInv'
  <2>1. RouteTypes'
    <3>1. applying' \in Seq(Sessions)
      <4> DEFINE f == Head(up[c])
      <4>1. f.active \in Sessions
        BY HeadType, <1>21 DEF Settle, Got, UpFrames
      <4>2. applying' = applying \/ \E k \in Rpcs : applying' = applying \o Resolves(k, f)
        BY <1>21 DEF Settle
      <4> HIDE DEF f
      <4>3. \A k \in Rpcs : Resolves(k, f) \in {<<>>, <<nil>>, <<f.active>>}
        BY DEF Resolves
      <4>4. \A k \in Rpcs : applying \o Resolves(k, f) \in Seq(Sessions)
        <5>1. applying \in Seq(Sessions) /\ applying \o <<>> = applying /\ nil \in Sessions
          BY DEF RouteTypes, Sessions
        <5> QED
          BY <4>1, <4>3, <5>1, ResultSeqs
      <4> QED
        BY <4>2, <4>4 DEF RouteTypes
    <3> QED
      BY <1>21, <3>1 DEF RouteTypes, Settle
  <2>2. CallTypes'
    BY <1>21 DEF CallTypes, calls, Settle, Got, Resolves
  <2>3. LinkTypes' /\ HubTypes' /\ ConnTypes' /\ FrameTypes'
    BY SMTT(40), <1>21 DEF LinkTypes, link, HubTypes, Sessions, local, ConnTypes, FrameTypes, Settle, Got
  <2> QED
    BY <2>1, <2>2, <2>3
<1>22. CASE Connect
  BY <1>22 DEF LinkTypes, link, HubTypes, Sessions, local, ConnTypes, network, gateway, hub,
     FrameTypes, RouteTypes, CallTypes, calls, Connect
<1>23. ASSUME NEW k \in Rpcs, NEW m \in Methods, Invoke(k, m) PROVE TypeInv'
  <2>1. FrameTypes'
    <3>1. PICK c \in Conns : LET i == Cardinality({x \in Rpcs : rpcConn[x] = c}) + 1
            IN down' = IF conn[c] = "open" THEN [down EXCEPT ![c] = Append(@, Call(i, m))] ELSE down
      BY <1>23 DEF Invoke
    <3>2. Call(Cardinality({x \in Rpcs : rpcConn[x] = c}) + 1, m) \in DownFrames
      BY <1>23, NextId, Frames DEF Invoke
    <3> QED
      BY <1>23, <3>1, <3>2, FrameSeqs DEF FrameTypes, Invoke
  <2>2. CallTypes'
    <3>1. PICK c \in Conns : /\ rpcId' = [rpcId EXCEPT ![k] = Cardinality({x \in Rpcs : rpcConn[x] = c}) + 1]
                             /\ rpcConn' = [rpcConn EXCEPT ![k] = c]
      BY <1>23 DEF Invoke
    <3>2. Cardinality({x \in Rpcs : rpcConn[x] = c}) + 1 \in 0..MaxRpcs
      BY <1>23, NextId, RemoteLinkAssumption DEF Invoke, Ids
    <3> QED
      BY <1>23, <3>1, <3>2 DEF CallTypes, Invoke
  <2>3. LinkTypes' /\ HubTypes' /\ ConnTypes' /\ RouteTypes'
    BY <1>23 DEF LinkTypes, link, HubTypes, Sessions, local, ConnTypes, network, gateway, hub,
       RouteTypes, Invoke
  <2> QED
    BY <2>1, <2>2, <2>3
<1>24. ASSUME NEW k \in Rpcs, Expire(k) PROVE TypeInv'
  BY <1>24 DEF LinkTypes, link, HubTypes, Sessions, local, ConnTypes, network, gateway, hub,
     FrameTypes, RouteTypes, CallTypes, calls, Expire
<1>25. CASE Apply
  <2>1. Head(applying) \in Sessions /\ Tail(applying) \in Seq(Sessions)
    BY <1>25, HeadTailProperties DEF Apply, RouteTypes
  <2>2. RouteTypes'
    BY <1>25, <2>1 DEF Apply, RouteTypes
  <2>3. LinkTypes' /\ HubTypes' /\ ConnTypes' /\ FrameTypes' /\ CallTypes'
    BY <1>25 DEF LinkTypes, link, HubTypes, Sessions, local, ConnTypes, network, FrameTypes,
       CallTypes, calls, Apply
  <2> QED
    BY <2>2, <2>3
<1>26. CASE UNCHANGED vars
  BY SMTT(40), <1>26 DEF vars, LinkTypes, link, HubTypes, Sessions, local, ConnTypes, network, gateway, hub,
     FrameTypes, RouteTypes, CallTypes, calls, calls
<1> QED
  BY ONLY [Next]_vars, <1>1, <1>2, <1>3, <1>4, <1>5, <1>6, <1>7, <1>8, <1>9, <1>10, <1>11, <1>12,
     <1>13, <1>14, <1>15, <1>16, <1>17, <1>18, <1>19, <1>20, <1>21, <1>22, <1>23, <1>24, <1>25, <1>26
  DEF Next, LinkWork, ConnWork

LEMMA InitTyped == Init => TypeInv
<1> SUFFICES ASSUME Init PROVE TypeInv
  OBVIOUS
<1>1. LinkTypes /\ HubTypes
  BY Ranges DEF Init, LinkTypes, HubTypes, Sessions
<1>2. ConnTypes /\ RouteTypes
  BY Ranges, ResultSeqs DEF Init, ConnTypes, RouteTypes, Sessions
<1>3. FrameTypes
  BY FrameSeqs DEF Init, FrameTypes
<1>4. CallTypes
  BY Ranges, RemoteLinkAssumption DEF Init, CallTypes, Methods
<1> QED
  BY <1>1, <1>2, <1>3, <1>4 DEF TypeInv

\* Every frame in transit has its type, whatever connections broke around it: no handler of the
\* machine or the gateway meets a frame of another shape, and no RPC has another outcome than
\* a result, a failure or a timeout.
THEOREM TypeCorrect == Spec => []TypeOK
<1>1. TypeInv => TypeOK
  BY DEF TypeInv, TypeOK, LinkTypes, HubTypes, ConnTypes, RouteTypes, CallTypes, Sessions, Ids, Handles
<1> QED
  BY <1>1, InitTyped, TypeStep, PTL DEF Spec

-----------------------------------------------------------------------------
(***************************************************************************)
(* The clients of the gateway.  A registration moves the route, closes the *)
(* connection before, fails its RPCs and closes the clients in one step;   *)
(* that no other connection claims to be registered needs that the gateway *)
(* has an end of a connection only once the machine has opened it.         *)
(***************************************************************************)
Opened ==
    /\ socket <= used
    /\ \A c \in Conns :
        /\ conn[c] \in {"unused", "dialling", "aborted"} => uplink[c] = "unused"
        /\ c > used => conn[c] = "unused"

IInv == TypeInv /\ ClientsFollow /\ Opened

LEMMA OpenedStep == TypeInv /\ ClientsFollow /\ Opened /\ [Next]_vars => Opened'
<1> SUFFICES ASSUME TypeInv, ClientsFollow, Opened, [Next]_vars
             PROVE  Opened'
  OBVIOUS
<1> USE Ranges DEF TypeInv, LinkTypes, ConnTypes, Opened
<1>1. ASSUME NEW l \in Loops, LinkWork(l) \/ Start(l) \/ TokenFails(l) PROVE Opened'
  <2>1. CASE Dial(l)
    BY <2>1 DEF Dial, LinkTypes, Conns, gateway
  <2> QED
    BY <1>1, <2>1 DEF LinkWork, Retry, Start, TokenFails, gateway, link
<1>2. ASSUME NEW c \in Conns, Open(c) PROVE Opened'
  BY <1>2 DEF Open, link
<1>3. ASSUME NEW c \in Conns, Lost(c) \/ Unreached(c) PROVE Opened'
  <2>1. /\ conn' = [conn EXCEPT ![c] = "closed"] /\ socket' = 0 /\ conn[c] # "unused"
        /\ UNCHANGED <<uplink, used>>
    BY <1>3 DEF Lost, Unreached, Closed, gateway
  <2> QED
    BY <2>1
<1>4. ASSUME NEW c \in Conns, Accept(c) PROVE Opened'
  BY <1>4 DEF Accept, TakeOver, Got, ClientsFollow, link
<1>5. ASSUME NEW c \in Conns, Refuse(c) \/ Gone(c) PROVE Opened'
  BY <1>5 DEF Refuse, Gone, Drop, Got, link
<1>6. CASE PeerRegisters
  BY <1>6 DEF PeerRegisters, TakeOver, ClientsFollow, link
<1>7. CASE Stop
  BY <1>7 DEF Stop, LinkTypes, gateway
<1>8. ASSUME UNCHANGED <<conn, uplink, used, socket>> PROVE Opened'
  BY <1>8
<1> QED
  BY ONLY [Next]_vars, <1>1, <1>2, <1>3, <1>4, <1>5, <1>6, <1>7, <1>8
  DEF Next, ConnWork, Online, Serve, Break, Report, Settle, Activate, Reopen, Answer, PeerLeaves,
      Connect, Invoke, Expire, vars, gateway, link, Apply

\* A step that leaves the gateway and its RPCs alone.
LEMMA GatewayIdle ==
  ClientsFollow /\ UNCHANGED <<uplink, route, bound, rpc, rpcConn>> => ClientsFollow'
BY DEF ClientsFollow

LEMMA ClientsStep == IInv /\ [Next]_vars => ClientsFollow'
<1> SUFFICES ASSUME IInv, [Next]_vars
             PROVE  ClientsFollow'
  OBVIOUS
<1> USE Ranges DEF IInv, TypeInv, ConnTypes, RouteTypes, CallTypes, ClientsFollow
<1>1. ASSUME NEW l \in Loops, LinkWork(l) \/ Start(l) \/ TokenFails(l) PROVE ClientsFollow'
  BY <1>1, GatewayIdle DEF LinkWork, Dial, Retry, Start, TokenFails, gateway, calls
<1>2. ASSUME NEW c \in Conns, Open(c) PROVE ClientsFollow'
  BY <1>2 DEF Open, Opened, calls
<1>3. ASSUME NEW c \in Conns, Lost(c) \/ Unreached(c) \/ Online(c) \/ Serve(c) \/ Break(c)
      PROVE  ClientsFollow'
  BY <1>3, GatewayIdle DEF Lost, Unreached, Closed, Online, Serve, Break, gateway, calls
<1>4. ASSUME NEW c \in Conns, Accept(c) PROVE ClientsFollow'
  BY <1>4 DEF Accept, TakeOver, Kicked, Rejected
<1>5. ASSUME NEW c \in Conns, Refuse(c) \/ Gone(c) PROVE ClientsFollow'
  <2>1. Drop(c) /\ UNCHANGED <<bound, rpcConn>> /\ uplink[c] \in {"attached", "registered"}
    BY <1>5 DEF Refuse, Gone
  <2> QED
    BY <2>1 DEF Drop, Rejected
<1>6. ASSUME NEW c \in Conns, Report(c) PROVE ClientsFollow'
  BY <1>6 DEF Report, calls
<1>7. ASSUME NEW c \in Conns, Settle(c) PROVE ClientsFollow'
  BY <1>7 DEF Settle
<1>8. CASE Stop \/ \E a \in Actives : Activate(a)
  BY <1>8, GatewayIdle DEF Stop, Activate, gateway, calls
<1>9. ASSUME NEW h \in handling,
             (\E a \in Actives : Reopen(h, a)) \/ \E ok \in BOOLEAN : Answer(h, ok)
      PROVE  ClientsFollow'
  BY <1>9, GatewayIdle DEF Reopen, Answer, gateway, calls
<1>10. CASE PeerRegisters
  BY <1>10 DEF PeerRegisters, TakeOver, Kicked, Rejected
<1>11. CASE PeerLeaves
  BY <1>11 DEF PeerLeaves, calls
<1>12. CASE Connect
  BY <1>12 DEF Connect, calls
<1>13. ASSUME NEW k \in Rpcs, NEW m \in Methods, Invoke(k, m) PROVE ClientsFollow'
  BY <1>13 DEF Invoke, gateway
<1>14. ASSUME NEW k \in Rpcs, Expire(k) PROVE ClientsFollow'
  BY <1>14 DEF Expire, gateway
<1>15. CASE Apply \/ UNCHANGED vars
  BY <1>15, GatewayIdle DEF vars, gateway, calls, Apply
<1> QED
  BY ONLY [Next]_vars, <1>1, <1>2, <1>3, <1>4, <1>5, <1>6, <1>7, <1>8, <1>9, <1>10, <1>11, <1>12,
          <1>13, <1>14, <1>15
  DEF Next, ConnWork

\* UplinkRegistry: any number of reconnections, take-overs and refusals leave no /v1/ws client
\* and no RPC in flight with the RemoteHub of a connection that is not the registered one.
THEOREM ClientsReachTheMachine == Spec => []ClientsFollow
<1>1. Init => ClientsFollow /\ Opened
  BY Ranges DEF Init, ClientsFollow, Opened
<1>2. Init => IInv
  BY <1>1, InitTyped DEF IInv
<1>3. IInv /\ [Next]_vars => IInv'
  BY TypeStep, OpenedStep, ClientsStep DEF IInv
<1>4. IInv => ClientsFollow
  BY DEF IInv
<1> QED
  BY <1>2, <1>3, <1>4, PTL DEF Spec
-----------------------------------------------------------------------------
(***************************************************************************)
(* The gateway's snapshot.  What it will be once the frames in transit     *)
(* are handled is decided by the last frame that carries the session, and  *)
(* by the results of hub.resume, hub.start and hub.closeActive behind it.  *)
(***************************************************************************)
Carries(f) == f.type \in {"register", "state"}
Reopens(f) == f.type = "result" /\ f.ok /\ f.method = "open"
Answers(f, i) == f.type = "result" /\ f.id = i
Closes(f) == f.type = "rpc" /\ f.method = "close"

Silent(s) == \A u \in DOMAIN s : ~Carries(s[u])

\* The last frame that carries the session, and the results behind it, say a.
Tells(s, a) ==
    \A i \in DOMAIN s :
        (\A u \in DOMAIN s : u > i => ~Carries(s[u])) /\ (Carries(s[i]) \/ Reopens(s[i]))
            => s[i].active = a

Answered(s, i) == \E j \in DOMAIN s : Answers(s[j], i)

\* A result of RPC i that a frame with the session follows
Corrected(s, i) == \E j, u \in DOMAIN s : j < u /\ Answers(s[j], i) /\ Carries(s[u])

Called(s, i) == \E j \in DOMAIN s : Closes(s[j]) /\ s[j].id = i
CloseDue(s) == \E j \in DOMAIN s : Closes(s[j])

\* The connection that the machine writes to and the gateway reads
Live(c) == socket = c /\ conn[c] = "open" /\ uplink[c] \in {"attached", "registered"}

PendingClose(c) == {k \in Rpcs : rpc[k] = "pending" /\ rpcConn[k] = c /\ method[k] = "close"}

\* A close that the gateway waits for is still to be served or has been answered.
ClosesAnswered(c) ==
    \A k \in PendingClose(c) : Called(down[c], rpcId[k]) \/ Answered(up[c], rpcId[k])

\* What the snapshot is once the resolved results are applied: the last of them decides.
Due == IF applying = <<>> THEN snapshot ELSE applying[Len(applying)]

\* Results find their RPC by its id, which an older connection may have used too: such a
\* result may settle a close that is still to be served, and clear the snapshot early.
Follows(c) ==
    /\ Tells(up[c], active)
    /\ \A k \in PendingClose(c) :
           active = nil \/ Called(down[c], rpcId[k]) \/ Corrected(up[c], rpcId[k])
    /\ uplink[c] = "registered" /\ Silent(up[c]) /\ ~overtaken
           => Due = active \/ (Due = nil /\ CloseDue(down[c]))

\* The ids of a RemoteHub are counted, and no two of its RPCs have the same.
IdsCounted ==
    /\ \A k \in Rpcs : rpcConn[k] # 0 =>
           rpcId[k] <= Cardinality({x \in Rpcs : rpcConn[x] = rpcConn[k]})
    /\ \A j, k \in Rpcs : rpcConn[j] # 0 /\ rpcConn[j] = rpcConn[k] /\ rpcId[j] = rpcId[k] => j = k

SnapInv ==
    /\ ~unforwarded => active = signature
    /\ \A c \in Conns : socket = c => conn[c] \in {"dialling", "open"}
    /\ IdsCounted
    /\ \A c \in Conns : Live(c) => ClosesAnswered(c) /\ (~unforwarded => Follows(c))

-----------------------------------------------------------------------------
(* Frames in a sequence *)

LEMMA PushFrame ==
  ASSUME NEW S, NEW s \in Seq(S), NEW f \in S
  PROVE  /\ DOMAIN Append(s, f) = DOMAIN s \cup {Len(s) + 1}
         /\ \A i \in DOMAIN s : Append(s, f)[i] = s[i] /\ i < Len(s) + 1 /\ i \in Nat
         /\ Append(s, f)[Len(s) + 1] = f /\ Len(s) + 1 \in Nat
OBVIOUS

LEMMA PopFrame ==
  ASSUME NEW S, NEW s \in Seq(S), s # <<>>
  PROVE  /\ DOMAIN Tail(s) \subseteq Nat
         /\ \A i \in DOMAIN Tail(s) : i + 1 \in DOMAIN s /\ i + 1 > 1 /\ Tail(s)[i] = s[i + 1]
         /\ 1 \in DOMAIN s /\ Head(s) = s[1]
         /\ DOMAIN s \subseteq Nat
         /\ \A i \in DOMAIN s : i = 1 \/ (i > 1 /\ i - 1 \in DOMAIN Tail(s) /\ Tail(s)[i - 1] = s[i])
OBVIOUS

LEMMA PopLast ==
  ASSUME NEW S, NEW s \in Seq(S), s # <<>>
  PROVE  IF Len(s) = 1 THEN Tail(s) = <<>>
         ELSE Tail(s) # <<>> /\ Tail(s)[Len(Tail(s))] = s[Len(s)]
<1>1. Len(s) \in Nat /\ Len(s) >= 1
  BY EmptySeq, LenProperties
<1>2. Len(Tail(s)) = Len(s) - 1 /\ Tail(s) \in Seq(S)
  BY HeadTailProperties
<1>3. CASE Len(s) = 1
  <2>1. Len(Tail(s)) = 0
    BY <1>2, <1>3
  <2> QED
    BY <1>2, <1>3, <2>1, EmptySeq
<1>4. CASE Len(s) # 1
  <2> DEFINE n == Len(s)
             t == Tail(s)
  <2>1. n \in Nat /\ n > 1 /\ Len(t) = n - 1 /\ \A i \in 1..(n - 1) : t[i] = s[i + 1]
    BY <1>1, <1>2, <1>4, HeadTailProperties
  <2> HIDE DEF n, t
  <2>2. n - 1 \in 1..(n - 1) /\ (n - 1) + 1 = n
    BY <2>1
  <2>3. t[n - 1] = s[n]
    BY <2>1, <2>2
  <2>4. Len(t) # 0
    BY <2>1
  <2>5. t # <<>>
    BY <2>4, EmptySeq
  <2> QED
    BY <1>4, <2>1, <2>3, <2>5 DEF n, t
<1> QED
  BY <1>3, <1>4

\* A frame with the session settles what the snapshot will be.
LEMMA PushCarrier ==
  ASSUME NEW S, NEW s \in Seq(S), NEW f \in S, Carries(f)
  PROVE  /\ Tells(Append(s, f), f.active) /\ ~Silent(Append(s, f))
         /\ \A i : Answered(s, i) => Answered(Append(s, f), i) /\ Corrected(Append(s, f), i)
<1> DEFINE n == Len(s) + 1
           t == Append(s, f)
<1>1. /\ DOMAIN t = DOMAIN s \cup {n} /\ t[n] = f
      /\ \A i \in DOMAIN s : t[i] = s[i] /\ i < n
  BY PushFrame
<1> HIDE DEF n, t
<1>2. Tells(t, f.active)
  BY <1>1 DEF Tells
<1>3. ~Silent(t)
  BY <1>1 DEF Silent
<1>4. ASSUME NEW i, Answered(s, i) PROVE Answered(t, i) /\ Corrected(t, i)
  <2>1. PICK j \in DOMAIN s : Answers(s[j], i)
    BY <1>4 DEF Answered
  <2>2. j \in DOMAIN t /\ n \in DOMAIN t /\ Answers(t[j], i) /\ j < n /\ Carries(t[n])
    BY <1>1, <2>1
  <2> QED
    BY <2>2 DEF Answered, Corrected
<1> QED
  BY <1>2, <1>3, <1>4 DEF t

LEMMA PushResult ==
  ASSUME NEW S, NEW s \in Seq(S), NEW f \in S, f.type = "result"
  PROVE  /\ \A a : Tells(s, a) /\ (Reopens(f) => f.active = a) => Tells(Append(s, f), a)
         /\ Silent(Append(s, f)) => Silent(s)
         /\ \A i : Answered(s, i) => Answered(Append(s, f), i)
         /\ Answered(Append(s, f), f.id)
         /\ \A i : Corrected(s, i) => Corrected(Append(s, f), i)
<1> DEFINE n == Len(s) + 1
           t == Append(s, f)
<1>1. /\ DOMAIN t = DOMAIN s \cup {n} /\ t[n] = f
      /\ \A i \in DOMAIN s : t[i] = s[i] /\ i < n
  BY PushFrame
<1>0. ~Carries(f)
  BY DEF Carries
<1> HIDE DEF n, t
<1>2. ASSUME NEW a, Tells(s, a), Reopens(f) => f.active = a PROVE Tells(t, a)
  <2> SUFFICES ASSUME NEW i \in DOMAIN t, \A u \in DOMAIN t : u > i => ~Carries(t[u]),
                      Carries(t[i]) \/ Reopens(t[i])
               PROVE  t[i].active = a
    BY DEF Tells
  <2>1. CASE i = n
    BY <1>0, <1>1, <1>2, <2>1
  <2>2. CASE i \in DOMAIN s
    <3>1. t[i] = s[i] /\ \A u \in DOMAIN s : u > i => ~Carries(s[u])
      BY <1>1, <2>2
    <3> QED
      BY <1>2, <2>2, <3>1 DEF Tells
  <2> QED
    BY <1>1, <2>1, <2>2
<1>3. Silent(t) => Silent(s)
  BY <1>1 DEF Silent
<1>4. \A i : Answered(s, i) => Answered(t, i)
  BY <1>1 DEF Answered
<1>5. Answered(t, f.id)
  BY <1>1 DEF Answered, Answers
<1>6. \A i : Corrected(s, i) => Corrected(t, i)
  BY <1>1 DEF Corrected
<1> QED
  BY <1>2, <1>3, <1>4, <1>5, <1>6 DEF t

LEMMA PopUp ==
  ASSUME NEW S, NEW s \in Seq(S), s # <<>>
  PROVE  /\ \A a : Tells(s, a) => Tells(Tail(s), a)
         /\ \A a : Tells(s, a) /\ Silent(Tail(s)) /\ (Carries(Head(s)) \/ Reopens(Head(s)))
                       => Head(s).active = a
         /\ Silent(Tail(s)) /\ ~Carries(Head(s)) => Silent(s)
         /\ \A i : Answered(s, i) /\ ~Answers(Head(s), i) => Answered(Tail(s), i)
         /\ \A i : Corrected(s, i) /\ ~Answers(Head(s), i) => Corrected(Tail(s), i)
         /\ \A i : Corrected(s, i) => ~Silent(Tail(s))
<1> DEFINE t == Tail(s)
<1>1. /\ DOMAIN t \subseteq Nat
      /\ \A i \in DOMAIN t : i + 1 \in DOMAIN s /\ i + 1 > 1 /\ t[i] = s[i + 1]
      /\ 1 \in DOMAIN s /\ Head(s) = s[1]
      /\ DOMAIN s \subseteq Nat
      /\ \A i \in DOMAIN s : i = 1 \/ (i > 1 /\ i - 1 \in DOMAIN t /\ t[i - 1] = s[i])
  BY PopFrame
<1> HIDE DEF t
<1>2. ASSUME NEW a, Tells(s, a) PROVE Tells(t, a)
  <2> SUFFICES ASSUME NEW i \in DOMAIN t, \A u \in DOMAIN t : u > i => ~Carries(t[u]),
                      Carries(t[i]) \/ Reopens(t[i])
               PROVE  t[i].active = a
    BY DEF Tells
  <2>1. ASSUME NEW u \in DOMAIN s, u > i + 1 PROVE ~Carries(s[u])
    <3>1. u - 1 \in DOMAIN t /\ t[u - 1] = s[u] /\ u - 1 > i
      BY <1>1, <2>1
    <3> QED
      BY <3>1
  <2>2. i + 1 \in DOMAIN s /\ t[i] = s[i + 1]
    BY <1>1
  <2> QED
    BY <1>2, <2>1, <2>2 DEF Tells
<1>3. ASSUME NEW a, Tells(s, a), Silent(t), Carries(Head(s)) \/ Reopens(Head(s))
      PROVE  Head(s).active = a
  <2>1. ASSUME NEW u \in DOMAIN s, u > 1 PROVE ~Carries(s[u])
    <3>1. u - 1 \in DOMAIN t /\ t[u - 1] = s[u]
      BY <1>1, <2>1
    <3> QED
      BY <1>3, <3>1 DEF Silent
  <2> QED
    BY <1>1, <1>3, <2>1 DEF Tells
<1>4. ASSUME Silent(t), ~Carries(Head(s)) PROVE Silent(s)
  BY <1>1, <1>4 DEF Silent
<1>5. ASSUME NEW i, Answered(s, i), ~Answers(Head(s), i) PROVE Answered(t, i)
  BY <1>1, <1>5 DEF Answered
<1>6. ASSUME NEW i, Corrected(s, i)
      PROVE  ~Silent(t) /\ (~Answers(Head(s), i) => Corrected(t, i))
  <2>1. PICK j \in DOMAIN s, u \in DOMAIN s : j < u /\ Answers(s[j], i) /\ Carries(s[u])
    BY <1>6 DEF Corrected
  <2>2. j \in Nat /\ u \in Nat /\ u # 1
    BY <1>1, <2>1
  <2>3. u - 1 \in DOMAIN t /\ t[u - 1] = s[u]
    BY <1>1, <2>2
  <2>4. ASSUME j # 1 PROVE Corrected(t, i)
    <3>1. j - 1 \in DOMAIN t /\ t[j - 1] = s[j] /\ j - 1 < u - 1
      BY <1>1, <2>1, <2>2, <2>4
    <3> QED
      BY <2>1, <2>3, <3>1 DEF Corrected
  <2> QED
    BY <1>1, <2>1, <2>3, <2>4 DEF Silent
<1> QED
  BY <1>2, <1>3, <1>4, <1>5, <1>6 DEF t

LEMMA PushDown ==
  ASSUME NEW S, NEW s \in Seq(S), NEW f \in S
  PROVE  /\ \A i : Called(s, i) => Called(Append(s, f), i)
         /\ CloseDue(s) => CloseDue(Append(s, f))
         /\ Closes(f) => Called(Append(s, f), f.id) /\ CloseDue(Append(s, f))
<1> DEFINE n == Len(s) + 1
           t == Append(s, f)
<1>1. DOMAIN t = DOMAIN s \cup {n} /\ t[n] = f /\ \A i \in DOMAIN s : t[i] = s[i]
  BY PushFrame
<1> HIDE DEF n, t
<1>2. \A i : Called(s, i) => Called(t, i)
  BY <1>1 DEF Called
<1>3. CloseDue(s) => CloseDue(t)
  BY <1>1 DEF CloseDue
<1>4. Closes(f) => Called(t, f.id) /\ CloseDue(t)
  BY <1>1 DEF Called, CloseDue
<1> QED
  BY <1>2, <1>3, <1>4 DEF t

LEMMA PopDown ==
  ASSUME NEW S, NEW s \in Seq(S), s # <<>>
  PROVE  /\ \A i : Called(s, i) /\ ~(Closes(Head(s)) /\ Head(s).id = i) => Called(Tail(s), i)
         /\ CloseDue(s) /\ ~Closes(Head(s)) => CloseDue(Tail(s))
<1> DEFINE t == Tail(s)
<1>1. /\ Head(s) = s[1]
      /\ \A i \in DOMAIN s : i = 1 \/ (i - 1 \in DOMAIN t /\ t[i - 1] = s[i])
  BY PopFrame
<1> HIDE DEF t
<1>2. \A i : Called(s, i) /\ ~(Closes(Head(s)) /\ Head(s).id = i) => Called(t, i)
  BY <1>1 DEF Called
<1>3. CloseDue(s) /\ ~Closes(Head(s)) => CloseDue(t)
  BY <1>1 DEF CloseDue
<1> QED
  BY <1>2, <1>3 DEF t
-----------------------------------------------------------------------------
(* The steps *)

LEMMA SentLive ==
  ASSUME TypeInv, NEW c \in Conns, Live(c), NEW f \in UpFrames
  PROVE  /\ Sent(<<f>>)[c] = Append(up[c], f)
         /\ Sent(<<>>)[c] = up[c]
         /\ \A g \in UpFrames : Sent(<<f>> \o <<g>>)[c] = Append(Append(up[c], f), g)
         /\ up[c] \in Seq(UpFrames) /\ Append(up[c], f) \in Seq(UpFrames)
         /\ down[c] \in Seq(DownFrames)
<1>1. up \in [Conns -> Seq(UpFrames)] /\ down \in [Conns -> Seq(DownFrames)]
  BY DEF TypeInv, FrameTypes
<1>2. \A s \in Seq(UpFrames) : Sent(s)[c] = up[c] \o s
  BY <1>1, Ranges DEF Sent, Live
<1>3. \A g \in UpFrames : <<f>> \o <<g>> \in Seq(UpFrames)
  OBVIOUS
<1>4. up[c] \o <<f>> = Append(up[c], f) /\ up[c] \o <<>> = up[c]
  BY <1>1
<1>5. \A g \in UpFrames : up[c] \o (<<f>> \o <<g>>) = Append(Append(up[c], f), g)
  BY <1>1
<1>6. Sent(<<f>>)[c] = Append(up[c], f) /\ Sent(<<>>)[c] = up[c]
  <2>1. <<f>> \in Seq(UpFrames) /\ <<>> \in Seq(UpFrames)
    OBVIOUS
  <2> QED
    BY <1>2, <1>4, <2>1
<1>7. \A g \in UpFrames : Sent(<<f>> \o <<g>>)[c] = Append(Append(up[c], f), g)
  BY <1>2, <1>3, <1>5
<1>8. Append(up[c], f) \in Seq(UpFrames)
  BY <1>1
<1> QED
  BY <1>1, <1>6, <1>7, <1>8

\* A machine's RPCs wait on the registered connection.
LEMMA Waiting ==
  ASSUME IInv, NEW c \in Conns, NEW k \in PendingClose(c)
  PROVE  uplink[c] = "registered" /\ route = c
BY DEF IInv, ClientsFollow, PendingClose

\* A step that does not touch the frames of c, the session or the snapshot
LEMMA Kept ==
  ASSUME SnapInv, NEW c \in Conns, Live(c),
         \A k \in PendingClose(c)' : k \in PendingClose(c) /\ rpcId'[k] = rpcId[k],
         up'[c] = up[c], down'[c] = down[c], uplink'[c] = uplink[c],
         active' = active, unforwarded' = unforwarded,
         uplink[c] = "registered" => Due' = Due /\ overtaken' = overtaken
  PROVE  ClosesAnswered(c)' /\ (~unforwarded' => Follows(c)')
BY DEF SnapInv, ClosesAnswered, Follows

Sound(c) == Live(c) => ClosesAnswered(c) /\ (~unforwarded => Follows(c))

\* sendRegister: the session of this moment
LEMMA OpenSound ==
  ASSUME IInv, SnapInv, NEW x \in Conns, Open(x), NEW c \in Conns
  PROVE  Sound(c)'
<1> SUFFICES ASSUME Live(c)' PROVE ClosesAnswered(c)' /\ Follows(c)'
  BY DEF Sound
<1>1. /\ socket' = socket /\ socket = c /\ active' = active /\ down' = down
      /\ UNCHANGED <<rpc, rpcConn, rpcId, method>>
  BY DEF Open, Live, link, calls
<1>2. PendingClose(c)' = PendingClose(c)
  BY <1>1 DEF PendingClose
<1>3. Register(active) \in UpFrames /\ Carries(Register(active)) /\ Register(active).active = active
  BY Frames DEF Register, Carries, IInv, TypeInv, HubTypes
<1>4. up[c] \in Seq(UpFrames)
  BY DEF IInv, TypeInv, FrameTypes
<1>5. up'[c] = Append(up[c], Register(active)) /\ (\A k \in PendingClose(c) : Live(c))
  <2>1. CASE x = c
    <3>1. PendingClose(c) = {}
      BY <2>1, Waiting DEF Open, IInv, Opened
    <3> QED
      BY <1>1, <2>1, <3>1 DEF Open, IInv, TypeInv, FrameTypes
  <2>2. CASE x # c
    <3>1. Live(c)
      BY <1>1, <2>2 DEF Live, Open, IInv, TypeInv, ConnTypes
    <3>2. up' = Sent(<<Register(active)>>)
      BY <1>1, <2>2 DEF Open
    <3> QED
      BY <1>3, <3>1, <3>2, SentLive DEF IInv
  <2> QED
    BY <2>1, <2>2
<1>6. /\ Tells(up'[c], active) /\ ~Silent(up'[c])
      /\ \A i : Answered(up[c], i) => Answered(up'[c], i) /\ Corrected(up'[c], i)
  BY <1>3, <1>4, <1>5, PushCarrier
<1>7. \A k \in PendingClose(c) : Called(down[c], rpcId[k]) \/ Answered(up[c], rpcId[k])
  BY <1>5 DEF SnapInv, ClosesAnswered
<1> QED
  BY <1>1, <1>2, <1>6, <1>7 DEF ClosesAnswered, Follows

LEMMA ActivateSound ==
  ASSUME IInv, SnapInv, NEW a \in Actives, Activate(a), NEW c \in Conns
  PROVE  Sound(c)'
<1> SUFFICES ASSUME Live(c)' PROVE ClosesAnswered(c)' /\ (~unforwarded' => Follows(c)')
  BY DEF Sound
<1>1. /\ Live(c) /\ active' = a /\ a # active /\ Push(a, <<>>)
      /\ UNCHANGED <<rpc, rpcConn, rpcId, method, down, uplink, hub>>
      /\ Due' = Due /\ overtaken' = overtaken
  BY DEF Activate, Live, link, calls, gateway, hub, Due
<1>2. PendingClose(c)' = PendingClose(c)
  BY <1>1 DEF PendingClose
<1>3. State(a) \in UpFrames /\ Carries(State(a)) /\ State(a).active = a
  BY Frames DEF State, Carries, Sessions
<1>4. up[c] \in Seq(UpFrames)
  BY DEF IInv, TypeInv, FrameTypes
<1>5. ClosesAnswered(c)
  BY <1>1 DEF SnapInv
<1>6. CASE forwarding /\ a # signature
  <2>0. <<State(a)>> \o <<>> = <<State(a)>>
    BY <1>3
  <2>1. up'[c] = Append(up[c], State(a))
    BY <1>1, <1>3, <1>6, <2>0, SentLive DEF Push, IInv
  <2>2. /\ Tells(up'[c], a) /\ ~Silent(up'[c])
        /\ \A i : Answered(up[c], i) => Answered(up'[c], i) /\ Corrected(up'[c], i)
    BY <1>3, <1>4, <2>1, PushCarrier
  <2> QED
    BY <1>1, <1>2, <1>5, <2>2 DEF ClosesAnswered, Follows
<1>7. CASE ~(forwarding /\ a # signature)
  <2>1. up'[c] = up[c]
    BY <1>1, <1>3, <1>7, SentLive DEF Push, IInv
  <2>2. unforwarded'
    BY <1>1, <1>7 DEF Push, SnapInv
  <2> QED
    BY <1>1, <1>2, <1>5, <2>1, <2>2 DEF ClosesAnswered
<1> QED
  BY <1>6, <1>7

LEMMA ReopenSound ==
  ASSUME IInv, SnapInv, NEW h \in handling, NEW a \in Actives, Reopen(h, a), NEW c \in Conns
  PROVE  Sound(c)'
<1> DEFINE r == Result(h, TRUE, a)
<1> SUFFICES ASSUME Live(c)' PROVE ClosesAnswered(c)' /\ (~unforwarded' => Follows(c)')
  BY DEF Sound
<1>1. /\ Live(c) /\ active' = a /\ Push(a, <<r>>)
      /\ UNCHANGED <<rpc, rpcConn, rpcId, method, down, uplink, hub>>
      /\ Due' = Due /\ overtaken' = overtaken
  BY DEF Reopen, Live, link, calls, gateway, hub, Due
<1>2. PendingClose(c)' = PendingClose(c)
  BY <1>1 DEF PendingClose
<1>3. State(a) \in UpFrames /\ Carries(State(a)) /\ State(a).active = a
  BY Frames DEF State, Carries, Sessions
<1>4. r \in UpFrames /\ r.type = "result" /\ r.active = a
  BY Frames DEF Result, Sessions, IInv, TypeInv, HubTypes
<1>5. up[c] \in Seq(UpFrames)
  BY DEF IInv, TypeInv, FrameTypes
<1>6. ClosesAnswered(c) /\ (~unforwarded => Follows(c))
  BY <1>1 DEF SnapInv
<1>7. CASE forwarding /\ a # signature
  <2> DEFINE s == Append(up[c], State(a))
  <2>1. up'[c] = Append(s, r) /\ s \in Seq(UpFrames)
    BY <1>1, <1>3, <1>4, <1>7, SentLive DEF Push, IInv
  <2>2. /\ Tells(s, a) /\ ~Silent(s)
        /\ \A i : Answered(up[c], i) => Answered(s, i) /\ Corrected(s, i)
    BY <1>3, <1>5, PushCarrier
  <2> HIDE DEF s, r
  <2>3. /\ Tells(up'[c], a) /\ ~Silent(up'[c])
        /\ \A i : Answered(up[c], i) => Answered(up'[c], i) /\ Corrected(up'[c], i)
    BY <1>4, <2>1, <2>2, PushResult
  <2> QED
    BY <1>1, <1>2, <1>6, <2>3 DEF ClosesAnswered, Follows
<1>8. CASE ~(forwarding /\ a # signature)
  <2>1. up'[c] = Append(up[c], r)
    BY <1>1, <1>4, <1>8, SentLive DEF Push, IInv
  <2>2. ~unforwarded' => ~unforwarded /\ active = a
    BY <1>1, <1>8 DEF Push, SnapInv
  <2> HIDE DEF r
  <2>3. /\ Tells(up[c], a) => Tells(up'[c], a)
        /\ Silent(up'[c]) => Silent(up[c])
        /\ \A i : Answered(up[c], i) => Answered(up'[c], i)
        /\ \A i : Corrected(up[c], i) => Corrected(up'[c], i)
    BY <1>4, <1>5, <2>1, PushResult
  <2> QED
    BY <1>1, <1>2, <1>6, <2>2, <2>3 DEF ClosesAnswered, Follows
<1> QED
  BY <1>7, <1>8

LEMMA AnswerSound ==
  ASSUME IInv, SnapInv, NEW h \in handling, NEW ok \in BOOLEAN, Answer(h, ok), NEW c \in Conns
  PROVE  Sound(c)'
<1> DEFINE r == Result(h, ok, nil)
<1> SUFFICES ASSUME Live(c)' PROVE ClosesAnswered(c)' /\ (~unforwarded' => Follows(c)')
  BY DEF Sound
<1>1. /\ Live(c) /\ up' = Sent(<<r>>)
      /\ UNCHANGED <<rpc, rpcConn, rpcId, method, down, uplink, hub, active, unforwarded>>
      /\ Due' = Due /\ overtaken' = overtaken
  BY DEF Answer, Live, link, calls, gateway, hub, Due
<1>2. PendingClose(c)' = PendingClose(c)
  BY <1>1 DEF PendingClose
<1>3. r \in UpFrames /\ r.type = "result" /\ ~Reopens(r)
  BY Frames DEF Result, Sessions, IInv, TypeInv, HubTypes, Answer, Reopens
<1>4. up[c] \in Seq(UpFrames) /\ up'[c] = Append(up[c], r)
  BY <1>1, <1>3, SentLive DEF IInv
<1> HIDE DEF r
<1>5. /\ Tells(up[c], active) => Tells(up'[c], active)
      /\ Silent(up'[c]) => Silent(up[c])
      /\ \A i : Answered(up[c], i) => Answered(up'[c], i)
      /\ \A i : Corrected(up[c], i) => Corrected(up'[c], i)
  BY <1>3, <1>4, PushResult
<1>6. ClosesAnswered(c) /\ (~unforwarded => Follows(c))
  BY <1>1 DEF SnapInv
<1> QED
  BY <1>1, <1>2, <1>5, <1>6 DEF ClosesAnswered, Follows

LEMMA OnlineSound ==
  ASSUME IInv, SnapInv, NEW x \in Conns, Online(x), NEW c \in Conns
  PROVE  Sound(c)'
<1> SUFFICES ASSUME Live(c)' PROVE ClosesAnswered(c)' /\ (~unforwarded' => Follows(c)')
  BY DEF Sound
<1>1. /\ Live(c) /\ Received(x, "registered")
      /\ UNCHANGED <<rpc, rpcConn, rpcId, method, up, uplink, hub, active, unforwarded>>
      /\ Due' = Due /\ overtaken' = overtaken
  BY DEF Online, Live, calls, gateway, local, hub, Due
<1>2. PendingClose(c)' = PendingClose(c)
  BY <1>1 DEF PendingClose
<1>3. down[x] \in Seq(DownFrames) /\ down[x] # <<>> /\ ~Closes(Head(down[x]))
  BY <1>1 DEF IInv, TypeInv, FrameTypes, Received, Closes
<1>4. down'[c] = IF c = x THEN Tail(down[x]) ELSE down[c]
  BY <1>1 DEF IInv, TypeInv, FrameTypes, Received
<1>5. /\ \A i : Called(down[c], i) => Called(down'[c], i)
      /\ CloseDue(down[c]) => CloseDue(down'[c])
  BY <1>3, <1>4, PopDown
<1>6. ClosesAnswered(c) /\ (~unforwarded => Follows(c))
  BY <1>1 DEF SnapInv
<1> QED
  BY <1>1, <1>2, <1>5, <1>6 DEF ClosesAnswered, Follows

LEMMA ServeSound ==
  ASSUME IInv, SnapInv, NEW x \in Conns, Serve(x), NEW c \in Conns
  PROVE  Sound(c)'
<1> DEFINE f == Head(down[x])
           r == Result(f, TRUE, nil)
<1> SUFFICES ASSUME Live(c)' PROVE ClosesAnswered(c)' /\ (~unforwarded' => Follows(c)')
  BY DEF Sound
<1>1. /\ Live(c) /\ Received(x, "rpc")
      /\ IF f.method = "close" THEN up' = Sent(<<r>>) ELSE up' = up
      /\ active' = IF f.method = "query" THEN active ELSE nil
      /\ unforwarded' = (unforwarded \/ active' # active)
      /\ UNCHANGED <<rpc, rpcConn, rpcId, method, uplink, hub>>
      /\ Due' = Due /\ overtaken' = overtaken
  BY DEF Serve, Live, calls, gateway, link, hub, Due
<1>2. PendingClose(c)' = PendingClose(c)
  BY <1>1 DEF PendingClose
<1>3. /\ down[x] \in Seq(DownFrames) /\ down[x] # <<>> /\ f \in DownFrames /\ f.type = "rpc"
  BY <1>1, HeadType DEF IInv, TypeInv, FrameTypes, Received
<1>4. down'[c] = IF c = x THEN Tail(down[x]) ELSE down[c]
  BY <1>1 DEF IInv, TypeInv, FrameTypes, Received
<1>5. r \in UpFrames /\ r.type = "result" /\ r.id = f.id /\ r.method = f.method
  BY <1>3 DEF Result, UpFrames, DownFrames, Sessions
<1>6. up[c] \in Seq(UpFrames)
  BY DEF IInv, TypeInv, FrameTypes
<1>7. ClosesAnswered(c) /\ (~unforwarded => Follows(c))
  BY <1>1 DEF SnapInv
<1>8. CASE f.method = "close"
  <2>1. /\ \A i : Called(down[c], i) => Called(down'[c], i) \/ f.id = i
    BY <1>3, <1>4, PopDown
  <2>2. up'[c] = Append(up[c], r) /\ ~Reopens(r)
    BY <1>1, <1>5, <1>8, SentLive DEF Reopens, IInv
  <2> HIDE DEF r, f
  <2>3. /\ Tells(up[c], active) => Tells(up'[c], active)
        /\ Silent(up'[c]) => Silent(up[c])
        /\ \A i : Answered(up[c], i) => Answered(up'[c], i)
        /\ Answered(up'[c], f.id)
    BY <1>5, <1>6, <2>2, PushResult
  <2>4. active' = nil /\ (~unforwarded' => ~unforwarded /\ active = nil)
    BY <1>1, <1>8
  <2>5. ClosesAnswered(c)'
    BY <1>1, <1>2, <1>7, <2>1, <2>3 DEF ClosesAnswered
  <2>6. ASSUME ~unforwarded' PROVE Follows(c)'
    BY <1>1, <1>2, <1>7, <2>3, <2>4, <2>6 DEF Follows
  <2> QED
    BY <2>5, <2>6
<1>9. CASE f.method # "close"
  <2>1. ~Closes(f)
    BY <1>9 DEF Closes
  <2>2. /\ \A i : Called(down[c], i) => Called(down'[c], i)
        /\ CloseDue(down[c]) => CloseDue(down'[c])
    BY <1>3, <1>4, <2>1, PopDown
  <2>3. up' = up /\ (~unforwarded' => ~unforwarded /\ active' = active)
    BY <1>1, <1>9
  <2> QED
    BY <1>1, <1>2, <1>7, <2>2, <2>3 DEF ClosesAnswered, Follows
<1> QED
  BY <1>8, <1>9
LEMMA AcceptSound ==
  ASSUME IInv, SnapInv, NEW x \in Conns, Accept(x), NEW c \in Conns
  PROVE  Sound(c)'
<1> SUFFICES ASSUME Live(c)' PROVE ClosesAnswered(c)' /\ (~unforwarded' => Follows(c)')
  BY DEF Sound
<1>0. uplink \in [Conns -> {"unused", "attached", "registered", "closed"}]
  BY DEF IInv, TypeInv, ConnTypes
<1>1. /\ uplink[x] = "attached" /\ up[x] # <<>> /\ Head(up[x]).type = "register"
      /\ TakeOver(x, Head(up[x]).active, Tail(up[x]))
      /\ UNCHANGED <<socket, conn, active, unforwarded, rpcConn, rpcId, method>>
  BY DEF Accept, Got, link, local
<1>2. c = x \/ (c # x /\ c # route /\ uplink'[c] = uplink[c])
  BY <1>1 DEF TakeOver, Live
<1>3. Live(c)
  BY <1>1, <1>2 DEF Live
<1>4. \A k \in PendingClose(c)' : k \in PendingClose(c) /\ rpcId'[k] = rpcId[k]
  BY <1>1 DEF PendingClose, TakeOver, Rejected
<1>5. CASE c = x
  <2>1. PendingClose(c)' = {}
    BY <1>1, <1>4, <1>5, Waiting
  <2>2. up[c] \in Seq(UpFrames) /\ up'[c] = Tail(up[c]) /\ snapshot' = Head(up[c]).active
    BY <1>1, <1>5 DEF IInv, TypeInv, FrameTypes, ClientsFollow, TakeOver
  <2>6. Due' = snapshot'
    BY <1>1 DEF TakeOver, Settled, Due
  <2>3. Carries(Head(up[c]))
    BY <1>1, <1>5 DEF Carries
  <2>4. ~unforwarded => Tells(up[c], active)
    BY <1>3 DEF SnapInv, Follows
  <2>5. ~unforwarded => Tells(up'[c], active) /\ (Silent(up'[c]) => snapshot' = active)
    BY <1>1, <1>5, <2>2, <2>3, <2>4, PopUp
  <2> QED
    BY <1>1, <2>1, <2>5, <2>6 DEF ClosesAnswered, Follows
<1>6. CASE c # x
  <2>1. up'[c] = up[c] /\ uplink'[c] = uplink[c] /\ uplink[c] # "registered"
    BY <1>1, <1>2, <1>6 DEF TakeOver, IInv, ClientsFollow
  <2>2. down'[c] = down[c]
    BY <1>6 DEF Accept, IInv, TypeInv, FrameTypes
  <2> QED
    BY <1>1, <1>3, <1>4, <2>1, <2>2, Kept
<1> QED
  BY <1>5, <1>6

LEMMA PeerSound ==
  ASSUME IInv, SnapInv, PeerRegisters, NEW c \in Conns
  PROVE  Sound(c)'
<1> SUFFICES ASSUME Live(c)' PROVE ClosesAnswered(c)' /\ (~unforwarded' => Follows(c)')
  BY DEF Sound
<1>1. /\ TakeOver(peer, nil, <<>>)
      /\ UNCHANGED <<socket, conn, down, active, unforwarded, rpcConn, rpcId, method>>
  BY DEF PeerRegisters, link, local
<1>2. c # peer /\ c # route /\ uplink'[c] = uplink[c] /\ up'[c] = up[c]
  BY <1>1, Ranges DEF TakeOver, Live
<1>3. Live(c) /\ uplink[c] # "registered"
  BY <1>1, <1>2 DEF Live, IInv, ClientsFollow
<1>4. \A k \in PendingClose(c)' : k \in PendingClose(c) /\ rpcId'[k] = rpcId[k]
  BY <1>1 DEF PendingClose, TakeOver, Rejected
<1> QED
  BY <1>1, <1>2, <1>3, <1>4, Kept

LEMMA DropSound ==
  ASSUME IInv, SnapInv, NEW x \in Conns, Gone(x) \/ Refuse(x), NEW c \in Conns
  PROVE  Sound(c)'
<1> SUFFICES ASSUME Live(c)' PROVE ClosesAnswered(c)' /\ (~unforwarded' => Follows(c)')
  BY DEF Sound
<1>1. /\ Drop(x) /\ uplink[x] \in {"attached", "registered"}
      /\ UNCHANGED <<socket, conn, down, active, unforwarded, rpcConn, rpcId, method>>
  BY DEF Gone, Refuse, link, local
<1>2. c # x /\ uplink'[c] = uplink[c] /\ up'[c] = up[c]
  BY <1>1 DEF Drop, Live, IInv, TypeInv, ConnTypes, FrameTypes
<1>3. Live(c) /\ (uplink[c] = "registered" => Due' = Due /\ overtaken' = overtaken)
  BY <1>1, <1>2 DEF Live, IInv, ClientsFollow, Drop, Due
<1>4. \A k \in PendingClose(c)' : k \in PendingClose(c) /\ rpcId'[k] = rpcId[k]
  BY <1>1 DEF PendingClose, Drop, Rejected
<1> QED
  BY <1>1, <1>2, <1>3, <1>4, Kept

LEMMA ReportSound ==
  ASSUME IInv, SnapInv, NEW x \in Conns, Report(x), NEW c \in Conns
  PROVE  Sound(c)'
<1> SUFFICES ASSUME Live(c)' PROVE ClosesAnswered(c)' /\ (~unforwarded' => Follows(c)')
  BY DEF Sound
<1>1. /\ uplink[x] = "registered" /\ up[x] # <<>> /\ Head(up[x]).type = "state"
      /\ up' = [up EXCEPT ![x] = Tail(@)] /\ Live(c)
      /\ ~overtaken' => Due' = Head(up[x]).active
      /\ UNCHANGED <<down, active, unforwarded, uplink, rpc, rpcConn, rpcId, method>>
  BY DEF Report, Got, link, local, calls, Live, Due
<1>2. PendingClose(c)' = PendingClose(c)
  BY <1>1 DEF PendingClose
<1>3. CASE c = x
  <2>1. up[c] \in Seq(UpFrames) /\ up[c] # <<>> /\ up'[c] = Tail(up[c])
    BY <1>1, <1>3 DEF IInv, TypeInv, FrameTypes
  <2>2. Carries(Head(up[c])) /\ \A i : ~Answers(Head(up[c]), i)
    BY <1>1, <1>3 DEF Carries, Answers
  <2>3. /\ \A i : Answered(up[c], i) => Answered(up'[c], i)
        /\ \A i : Corrected(up[c], i) => Corrected(up'[c], i)
        /\ Tells(up[c], active)
              => Tells(up'[c], active) /\ (Silent(up'[c]) => Head(up[c]).active = active)
    BY <2>1, <2>2, PopUp
  <2>4. ClosesAnswered(c) /\ (~unforwarded => Follows(c))
    BY <1>1 DEF SnapInv
  <2> QED
    BY <1>1, <1>2, <1>3, <2>3, <2>4 DEF ClosesAnswered, Follows
<1>4. CASE c # x
  <2>1. up'[c] = up[c] /\ uplink[c] # "registered"
    BY <1>1, <1>4 DEF IInv, TypeInv, FrameTypes, ClientsFollow
  <2> QED
    BY <1>1, <1>2, <2>1, Kept
<1> QED
  BY <1>3, <1>4

\* The last result to be applied decides.
LEMMA LastDue ==
  ASSUME NEW q \in Seq(Sessions), NEW a \in Sessions, applying' = q \o <<a>>
  PROVE  Due' = a
BY DEF Due

\* A result is applied: what the snapshot is due to become stays the same.
LEMMA ApplySound ==
  ASSUME IInv, SnapInv, Apply, NEW c \in Conns
  PROVE  Sound(c)'
<1> SUFFICES ASSUME Live(c)' PROVE ClosesAnswered(c)' /\ (~unforwarded' => Follows(c)')
  BY DEF Sound
<1>1. applying \in Seq(Sessions) /\ applying # <<>>
  BY DEF Apply, IInv, TypeInv, RouteTypes
<1>2. Due' = Due
  <2>1. snapshot' = applying[1] /\ applying' = Tail(applying)
    BY <1>1 DEF Apply
  <2>2. CASE Len(applying) = 1
    <3>1. Tail(applying) = <<>>
      BY <1>1, <2>2, PopLast
    <3> QED
      BY <1>1, <2>1, <2>2, <3>1 DEF Due
  <2>3. CASE Len(applying) # 1
    <3>1. /\ Tail(applying) # <<>>
          /\ Tail(applying)[Len(Tail(applying))] = applying[Len(applying)]
      BY <1>1, <2>3, PopLast
    <3> QED
      BY <1>1, <2>1, <3>1 DEF Due
  <2> QED
    BY <2>2, <2>3
<1>3. /\ Live(c)
      /\ UNCHANGED <<up, down, uplink, active, unforwarded, overtaken, rpc, rpcConn, rpcId, method>>
  BY DEF Apply, Live, link, local, network, calls
<1>4. PendingClose(c)' = PendingClose(c)
  BY <1>3 DEF PendingClose
<1> QED
  BY <1>2, <1>3, <1>4, Kept

\* The RPC that a result settles is the only one of its connection with that id.
LEMMA SettleSound ==
  ASSUME IInv, SnapInv, NEW x \in Conns, Settle(x), NEW c \in Conns
  PROVE  Sound(c)'
<1> DEFINE f == Head(up[x])
           K == {k \in Rpcs : rpc[k] = "pending" /\ rpcConn[k] = x /\ rpcId[k] = f.id}
<1> SUFFICES ASSUME Live(c)' PROVE ClosesAnswered(c)' /\ (~unforwarded' => Follows(c)')
  BY DEF Sound
<1>1. /\ uplink[x] = "registered" /\ up[x] # <<>> /\ f.type = "result"
      /\ up' = [up EXCEPT ![x] = Tail(@)] /\ Live(c)
      /\ \/ K = {} /\ rpc' = rpc /\ applying' = applying
         \/ \E k \in K : /\ rpc' = [rpc EXCEPT ![k] = IF f.ok THEN "answered" ELSE "failed"]
                         /\ applying' = applying \o Resolves(k, f)
      /\ UNCHANGED <<down, active, unforwarded, uplink, rpcConn, rpcId, method, snapshot, overtaken>>
  BY DEF Settle, Got, link, local, Live
<1>2. \A k \in PendingClose(c)' : k \in PendingClose(c) /\ rpcId'[k] = rpcId[k]
  BY <1>1 DEF PendingClose, IInv, TypeInv, CallTypes
<1>3. CASE c = x
  <2>1. up[c] \in Seq(UpFrames) /\ up[c] # <<>> /\ up'[c] = Tail(up[c]) /\ f = Head(up[c])
    BY <1>1, <1>3 DEF IInv, TypeInv, FrameTypes
  <2>2. ~Carries(f)
    BY <1>1 DEF Carries
  <2>3. ASSUME NEW k \in PendingClose(c)' PROVE ~Answers(f, rpcId[k])
    <3> SUFFICES ASSUME rpcId[k] = f.id PROVE FALSE
      BY DEF Answers
    <3>1. k \in K /\ rpc'[k] = "pending"
      BY <1>2, <1>3, <2>3 DEF PendingClose
    <3>2. PICK j \in K : rpc' = [rpc EXCEPT ![j] = IF f.ok THEN "answered" ELSE "failed"]
      BY <1>1, <3>1
    <3>3. j = k
      BY <3>1, <3>2, Ranges DEF SnapInv, IdsCounted
    <3> QED
      BY <3>1, <3>2, <3>3 DEF IInv, TypeInv, CallTypes
  <2> HIDE DEF f, K
  <2>4. /\ \A i : Answered(up[c], i) /\ ~Answers(f, i) => Answered(up'[c], i)
        /\ \A i : Corrected(up[c], i) /\ ~Answers(f, i) => Corrected(up'[c], i)
        /\ \A i : Corrected(up[c], i) => ~Silent(up'[c])
        /\ Tells(up[c], active) => Tells(up'[c], active)
        /\ Tells(up[c], active) /\ Silent(up'[c]) /\ Reopens(f) => f.active = active
        /\ Silent(up'[c]) => Silent(up[c])
    BY <2>1, <2>2, PopUp
  <2>5. ClosesAnswered(c) /\ (~unforwarded => Follows(c))
    BY <1>1 DEF SnapInv
  <2>6. ClosesAnswered(c)'
    BY <1>1, <1>2, <2>3, <2>4, <2>5 DEF ClosesAnswered
  <2>7. ASSUME ~unforwarded', Silent(up'[c]), ~overtaken'
        PROVE  Due' = active \/ (Due' = nil /\ CloseDue(down[c]))
    <3>1. /\ Tells(up[c], active)
          /\ Due = active \/ (Due = nil /\ CloseDue(down[c]))
          /\ \A k \in PendingClose(c) : active = nil \/ Called(down[c], rpcId[k])
      BY <1>1, <1>3, <2>4, <2>5, <2>7 DEF Follows
    <3>2. applying \in Seq(Sessions)
      BY DEF IInv, TypeInv, RouteTypes
    <3>3. CASE applying' = applying
      BY <1>1, <3>1, <3>3 DEF Due
    <3>4. ASSUME NEW k \in K, applying' = applying \o Resolves(k, f)
          PROVE  Due' = active \/ (Due' = nil /\ CloseDue(down[c]))
      <4>1. CASE f.ok /\ method[k] = "close"
        <5>1. k \in PendingClose(c)
          BY <1>3, <3>4, <4>1 DEF PendingClose, K
        <5>2. active = nil \/ CloseDue(down[c])
          BY <3>1, <5>1 DEF Called, CloseDue
        <5>3. applying' = applying \o <<nil>>
          BY <3>4, <4>1 DEF Resolves
        <5>4. Due' = nil
          BY <3>2, <5>3, LastDue DEF Sessions
        <5> QED
          BY <5>2, <5>4
      <4>2. CASE f.ok /\ method[k] = "open" /\ f.method = "open"
        <5>1. applying' = applying \o <<f.active>> /\ Reopens(f)
          BY <1>1, <3>4, <4>2 DEF Resolves, Reopens
        <5>2. f.active \in Sessions
          BY <1>1, <4>2, HeadType DEF f, IInv, UpFrames
        <5>3. Due' = f.active
          BY <3>2, <5>1, <5>2, LastDue
        <5> QED
          BY <2>4, <2>7, <3>1, <5>1, <5>3
      <4>3. CASE ~(f.ok /\ method[k] = "close") /\ ~(f.ok /\ method[k] = "open" /\ f.method = "open")
        <5>1. applying' = applying \o <<>>
          BY <3>4, <4>3 DEF Resolves
        <5>2. applying' = applying
          BY <3>2, <5>1
        <5> QED
          BY <3>3, <5>2
      <4> QED
        BY <4>1, <4>2, <4>3
    <3> QED
      BY <1>1, <3>3, <3>4
  <2>8. ASSUME ~unforwarded' PROVE Follows(c)'
    <3>1. Tells(up'[c], active')
      BY <1>1, <2>4, <2>5, <2>8 DEF Follows
    <3>2. ASSUME NEW k \in PendingClose(c)'
          PROVE  active = nil \/ Called(down[c], rpcId[k]) \/ Corrected(up'[c], rpcId[k])
      BY <1>1, <1>2, <2>3, <2>4, <2>5, <2>8, <3>2 DEF Follows
    <3> QED
      BY <1>1, <1>2, <2>7, <2>8, <3>1, <3>2 DEF Follows
  <2> QED
    BY <2>6, <2>8
<1>4. CASE c # x
  <2>1. up'[c] = up[c] /\ uplink[c] # "registered"
    BY <1>1, <1>4 DEF IInv, TypeInv, FrameTypes, ClientsFollow
  <2> QED
    BY <1>1, <1>2, <2>1, Kept
<1> QED
  BY <1>3, <1>4

LEMMA InvokeSound ==
  ASSUME IInv, SnapInv, NEW n \in Rpcs, NEW m \in Methods, Invoke(n, m), NEW c \in Conns
  PROVE  Sound(c)'
<1> SUFFICES ASSUME Live(c)' PROVE ClosesAnswered(c)' /\ (~unforwarded' => Follows(c)')
  BY DEF Sound
<1>1. /\ Live(c)
      /\ UNCHANGED <<up, active, unforwarded, uplink>>
      /\ Due' = Due /\ overtaken' = overtaken
  BY DEF Invoke, link, local, gateway, hub, Due, Live
<1>2. PICK d \in Conns :
        /\ rpcId' = [rpcId EXCEPT ![n] = Cardinality({y \in Rpcs : rpcConn[y] = d}) + 1]
        /\ down' = IF conn[d] = "open"
                   THEN [down EXCEPT ![d] = Append(@, Call(Cardinality({y \in Rpcs : rpcConn[y] = d}) + 1, m))]
                   ELSE down
        /\ rpcConn' = [rpcConn EXCEPT ![n] = d]
  BY DEF Invoke
<1> DEFINE i == Cardinality({y \in Rpcs : rpcConn[y] = d}) + 1
<1>3. /\ rpc' = [rpc EXCEPT ![n] = "pending"] /\ method' = [method EXCEPT ![n] = m]
      /\ rpc[n] = "unused"
  BY DEF Invoke
<1>4. Call(i, m) \in DownFrames
  BY <1>3, NextId, Frames DEF IInv
<1> HIDE DEF i
<1>5. rpcId' = [rpcId EXCEPT ![n] = i]
  BY <1>2 DEF i
<1>6. \A k \in PendingClose(c)' :
          \/ k \in PendingClose(c) /\ rpcId'[k] = rpcId[k]
          \/ c = d /\ rpcId'[k] = i /\ m = "close"
  BY <1>2, <1>3, <1>5 DEF PendingClose, IInv, TypeInv, CallTypes
<1>7. /\ \A j : Called(down[c], j) => Called(down'[c], j)
      /\ CloseDue(down[c]) => CloseDue(down'[c])
      /\ c = d /\ m = "close" => Called(down'[c], i)
  <2>1. down[c] \in Seq(DownFrames)
    BY DEF IInv, TypeInv, FrameTypes
  <2>2. CASE c = d
    <3>1. down'[c] = Append(down[c], Call(i, m))
      BY <1>1, <1>2, <2>2 DEF Live, IInv, TypeInv, FrameTypes, i
    <3>2. m = "close" => Closes(Call(i, m)) /\ Call(i, m).id = i
      BY DEF Closes, Call
    <3> QED
      BY <1>4, <2>1, <3>1, <3>2, PushDown
  <2>3. CASE c # d
    <3>1. down'[c] = down[c]
      BY <1>2, <2>3 DEF IInv, TypeInv, FrameTypes
    <3> QED
      BY <2>3, <3>1
  <2> QED
    BY <2>2, <2>3
<1>8. ClosesAnswered(c) /\ (~unforwarded => Follows(c))
  BY <1>1 DEF SnapInv
<1> QED
  BY <1>1, <1>6, <1>7, <1>8 DEF ClosesAnswered, Follows

\* The other steps neither read nor write a frame of a live connection.
LEMMA RestSound ==
  ASSUME IInv, SnapInv, NEW c \in Conns,
         \/ \E l \in Loops : LinkWork(l) \/ Start(l) \/ TokenFails(l)
         \/ \E x \in Conns : Lost(x) \/ Unreached(x) \/ Break(x)
         \/ Stop \/ PeerLeaves \/ Connect \/ (\E k \in Rpcs : Expire(k)) \/ UNCHANGED vars
  PROVE  Sound(c)'
<1> SUFFICES ASSUME Live(c)' PROVE ClosesAnswered(c)' /\ (~unforwarded' => Follows(c)')
  BY DEF Sound
<1>1. ASSUME NEW l \in Loops, Dial(l) PROVE FALSE
  BY <1>1 DEF Dial, Live, IInv, TypeInv, ConnTypes
<1>2. ASSUME Stop \/ \E x \in Conns : Lost(x) \/ Unreached(x) PROVE FALSE
  BY <1>2, Ranges DEF Stop, Lost, Unreached, Closed, Live
<1>3. ASSUME UNCHANGED <<socket, conn, up, down, uplink, active, unforwarded, hub, rpcConn, rpcId, method>>,
             \A k \in Rpcs : rpc'[k] = "pending" => rpc[k] = "pending"
      PROVE  ClosesAnswered(c)' /\ (~unforwarded' => Follows(c)')
  <2>1. \A k \in PendingClose(c)' : k \in PendingClose(c) /\ rpcId'[k] = rpcId[k]
    BY <1>3 DEF PendingClose
  <2>2. Live(c)
    BY <1>3 DEF Live
  <2> QED
    BY <1>3, <2>1, <2>2, Kept DEF hub, Due
<1>4. ASSUME NEW l \in Loops, Retry(l) \/ Start(l) \/ TokenFails(l)
      PROVE  ClosesAnswered(c)' /\ (~unforwarded' => Follows(c)')
  BY <1>3, <1>4 DEF Retry, Start, TokenFails, Failed, local, network, gateway, calls
<1>5. ASSUME NEW x \in Conns, Break(x)
      PROVE  ClosesAnswered(c)' /\ (~unforwarded' => Follows(c)')
  BY <1>3, <1>5 DEF Break, link, local, gateway, calls
<1>6. ASSUME PeerLeaves \/ Connect \/ UNCHANGED vars
      PROVE  ClosesAnswered(c)' /\ (~unforwarded' => Follows(c)')
  BY <1>3, <1>6 DEF PeerLeaves, Settled, Connect, vars, link, local, network, gateway, hub, calls
<1>7. ASSUME NEW k \in Rpcs, Expire(k)
      PROVE  ClosesAnswered(c)' /\ (~unforwarded' => Follows(c)')
  BY <1>3, <1>7 DEF Expire, link, local, network, gateway, IInv, TypeInv, CallTypes
<1> QED
  BY <1>1, <1>2, <1>4, <1>5, <1>6, <1>7 DEF LinkWork
LEMMA IdsStep == IInv /\ IdsCounted /\ [Next]_vars => IdsCounted'
<1> SUFFICES ASSUME IInv, IdsCounted, [Next]_vars PROVE IdsCounted'
  OBVIOUS
<1>1. ASSUME NEW n \in Rpcs, NEW m \in Methods, Invoke(n, m) PROVE IdsCounted'
  <2> DEFINE Sent1(d) == {y \in Rpcs : rpcConn[y] = d}
             Sent2(d) == {y \in Rpcs : rpcConn'[y] = d}
  <2>1. PICK d \in Conns :
          /\ rpcId' = [rpcId EXCEPT ![n] = Cardinality(Sent1(d)) + 1]
          /\ rpcConn' = [rpcConn EXCEPT ![n] = d]
    BY <1>1 DEF Invoke
  <2>2. /\ rpcConn \in [Rpcs -> 0..MaxConns] /\ rpcId \in [Rpcs -> 0..MaxRpcs]
        /\ rpcConn[n] = 0 /\ d # 0
    BY <1>1, Ranges DEF Invoke, IInv, TypeInv, CallTypes
  <2>3. Sent2(d) = Sent1(d) \cup {n} /\ n \notin Sent1(d)
    BY <2>1, <2>2
  <2>4. IsFiniteSet(Sent1(d))
    <3>1. IsFiniteSet(Rpcs)
      BY FS_Interval, RemoteLinkAssumption DEF Rpcs
    <3> QED
      BY <3>1, FS_Subset
  <2>5. Cardinality(Sent2(d)) = Cardinality(Sent1(d)) + 1 /\ Cardinality(Sent1(d)) \in Nat
    BY <2>3, <2>4, FS_AddElement, FS_CardinalityType
  <2>6. \A e : e # d /\ e # 0 => Sent2(e) = Sent1(e)
    BY <2>1, <2>2
  <2>7. /\ \A k \in Rpcs : k # n => rpcConn'[k] = rpcConn[k] /\ rpcId'[k] = rpcId[k] /\ rpcId[k] \in Nat
        /\ rpcConn'[n] = d /\ rpcId'[n] = Cardinality(Sent1(d)) + 1
    BY <2>1, <2>2
  <2>8. \A k \in Rpcs : rpcConn[k] # 0 => rpcId[k] <= Cardinality(Sent1(rpcConn[k]))
    BY DEF IdsCounted
  <2> HIDE DEF Sent1, Sent2
  <2>9. ASSUME NEW k \in Rpcs, rpcConn'[k] # 0 PROVE rpcId'[k] <= Cardinality(Sent2(rpcConn'[k]))
    <3>1. CASE k = n
      BY <2>5, <2>7, <3>1
    <3>2. CASE k # n /\ rpcConn[k] = d
      BY <2>5, <2>7, <2>8, <2>9, <3>2
    <3>3. CASE k # n /\ rpcConn[k] # d
      BY <2>6, <2>7, <2>8, <2>9, <3>3
    <3> QED
      BY <3>1, <3>2, <3>3
  <2>10. ASSUME NEW k \in Rpcs, k # n, rpcConn'[k] = d PROVE rpcId'[k] # rpcId'[n]
    BY <2>2, <2>5, <2>7, <2>8, <2>10
  <2>11. ASSUME NEW j \in Rpcs, NEW k \in Rpcs, rpcConn'[j] # 0, rpcConn'[j] = rpcConn'[k],
                rpcId'[j] = rpcId'[k]
         PROVE  j = k
    <3>1. CASE j # n /\ k # n
      BY <2>7, <2>11, <3>1 DEF IdsCounted
    <3> QED
      BY <2>7, <2>10, <2>11, <3>1
  <2> QED
    BY <2>9, <2>11 DEF IdsCounted, Sent2
<1>2. CASE UNCHANGED <<rpcConn, rpcId>>
  BY <1>2 DEF IdsCounted
<1>3. (\E k \in Rpcs, m \in Methods : Invoke(k, m)) \/ UNCHANGED <<rpcConn, rpcId>>
  BY ZenonT(60) DEF Next, LinkWork, ConnWork, Dial, Retry, Start, TokenFails, Stop, Open, Lost, Unreached,
     Closed, Online, Serve, Break, Activate, Reopen, Answer, Accept, PeerRegisters, PeerLeaves, Gone,
     Refuse, Report, Apply, Settle, Connect, Expire, vars, calls
<1> QED
  BY <1>1, <1>2, <1>3

\* The signature is that of the session unless a change went unreported.
LEMMA SignatureStep ==
  ASSUME [Next]_vars, ~unforwarded => active = signature, ~unforwarded'
  PROVE  active' = signature'
<1>1. ASSUME NEW a, NEW result, Push(a, result), active' = a PROVE active' = signature'
  BY <1>1 DEF Push
<1>2. ASSUME NEW x \in Conns, Open(x) PROVE active' = signature'
  BY <1>2 DEF Open
<1>3. ASSUME NEW a \in Actives, Activate(a) PROVE active' = signature'
  BY <1>1, <1>3 DEF Activate
<1>4. ASSUME NEW h \in handling, NEW a \in Actives, Reopen(h, a) PROVE active' = signature'
  BY <1>1, <1>4 DEF Reopen
<1>5. ASSUME NEW x \in Conns, Serve(x) PROVE active' = signature'
  BY <1>5 DEF Serve
<1>6. CASE UNCHANGED <<active, signature, unforwarded>>
  BY <1>6
<1>7. \/ \E x \in Conns : Open(x) \/ Serve(x)
      \/ (\E a \in Actives : Activate(a)) \/ (\E h \in handling, a \in Actives : Reopen(h, a))
      \/ UNCHANGED <<active, signature, unforwarded>>
  BY ZenonT(60) DEF Next, LinkWork, ConnWork, Dial, Retry, Start, TokenFails, Stop, Lost, Unreached,
     Closed, Online, Break, Answer, Accept, PeerRegisters, PeerLeaves, Gone,
     Refuse, Report, Apply, Settle, Connect, Invoke, Expire, vars, local
<1> QED
  BY <1>2, <1>3, <1>4, <1>5, <1>6, <1>7

\* The machine writes to a connection until it closes it itself or learns that it is gone.
LEMMA SocketStep ==
  ASSUME IInv, [Next]_vars, \A c \in Conns : socket = c => conn[c] \in {"dialling", "open"}
  PROVE  \A c \in Conns : socket' = c => conn'[c] \in {"dialling", "open"}
<1> USE DEF IInv, TypeInv, ConnTypes
<1>1. ASSUME NEW l \in Loops, Dial(l) PROVE \A c \in Conns : socket' = c => conn'[c] \in {"dialling", "open"}
  BY <1>1 DEF Dial
<1>2. ASSUME NEW x \in Conns, Open(x) PROVE \A c \in Conns : socket' = c => conn'[c] \in {"dialling", "open"}
  BY <1>2 DEF Open, link
<1>3. CASE socket' = 0
  BY <1>3, Ranges
<1>4. CASE UNCHANGED <<socket, conn>>
  BY <1>4
<1>5. \/ \E l \in Loops : Dial(l)
      \/ \E x \in Conns : Open(x)
      \/ socket' = 0 \/ UNCHANGED <<socket, conn>>
  BY ZenonT(60) DEF Next, LinkWork, ConnWork, Retry, Start, TokenFails, Stop, Lost, Unreached,
     Closed, Online, Serve, Break, Activate, Reopen, Answer, Accept, PeerRegisters, PeerLeaves, Gone,
     Refuse, Report, Apply, Settle, Connect, Invoke, Expire, vars, link
<1> QED
  BY <1>1, <1>2, <1>3, <1>4, <1>5

LEMMA SnapStep == IInv /\ SnapInv /\ [Next]_vars => SnapInv'
<1> SUFFICES ASSUME IInv, SnapInv, [Next]_vars PROVE SnapInv'
  OBVIOUS
<1>1. ASSUME NEW c \in Conns PROVE Sound(c)'
  BY ONLY IInv, SnapInv, <1>1, [Next]_vars, OpenSound, ActivateSound, ReopenSound, AnswerSound,
     OnlineSound, ServeSound, AcceptSound, PeerSound, DropSound, ReportSound, SettleSound,
     InvokeSound, ApplySound, RestSound
  DEF Next, ConnWork
<1>2. (~unforwarded => active = signature)'
  BY SignatureStep DEF SnapInv
<1>3. (\A c \in Conns : socket = c => conn[c] \in {"dialling", "open"})'
  BY SocketStep DEF SnapInv
<1>4. IdsCounted'
  BY IdsStep DEF SnapInv
<1> QED
  BY <1>1, <1>2, <1>3, <1>4 DEF SnapInv, Sound

\* The gateway answers its clients with the session of the machine once what is in transit has
\* arrived and is applied, whatever connections, results and take-overs came before:
\* attachHubForwarding reports each change that it has not reported yet, and no result outweighs
\* a later report but one that was resolved and not yet applied when the report was handled.
THEOREM SnapshotIsTheMachines == Spec => []SnapshotFollows
<1>1. Init => IInv /\ SnapInv
  <2> SUFFICES ASSUME Init PROVE IInv /\ SnapInv
    OBVIOUS
  <2>1. ClientsFollow /\ Opened /\ IdsCounted
    BY Ranges DEF Init, ClientsFollow, Opened, IdsCounted
  <2>2. \A c \in Conns : socket # c
    BY Ranges DEF Init
  <2> QED
    BY <2>1, <2>2, InitTyped DEF Init, IInv, SnapInv, Live
<1>2. IInv /\ SnapInv /\ [Next]_vars => IInv' /\ SnapInv'
  BY TypeStep, OpenedStep, ClientsStep, SnapStep DEF IInv
<1>3. IInv /\ SnapInv => SnapshotFollows
  <2> SUFFICES ASSUME IInv, SnapInv, NEW c \in Conns, socket = c, route = c,
                      up[c] = <<>>, down[c] = <<>>, applying = <<>>, ~unforwarded, ~overtaken
               PROVE  snapshot = active
    BY DEF SnapshotFollows
  <2>1. uplink[c] = "registered" /\ conn[c] = "open"
    BY DEF IInv, ClientsFollow, Opened, SnapInv
  <2>2. Follows(c) /\ Silent(up[c]) /\ ~CloseDue(down[c])
    BY <2>1 DEF SnapInv, Live, Silent, CloseDue
  <2> QED
    BY <2>1, <2>2 DEF Follows, Due
<1> QED
  BY <1>1, <1>2, <1>3, PTL DEF Spec
=============================================================================
