-------------------------- MODULE ApprovalsProofs --------------------------
(***************************************************************************)
(* Proofs about Approvals for any number of runners, sessions, tool calls  *)
(* and keys: the types and the chains of requests, the cards, the stored   *)
(* rules and the escalated sessions.                                       *)
(***************************************************************************)
EXTENDS Approvals, TLAPS

Phases == Waiting \cup {"unused", "running", "ended"}

\* The chain of a manager holds its requests that wait, each once; those behind the first
\* have not been taken up.
Chain(r) ==
    /\ queue[r] \in Seq(Calls)
    /\ \A i \in DOMAIN queue[r] :
           /\ owner[queue[r][i]] = r /\ phase[queue[r][i]] \in Waiting
           /\ i > 1 => phase[queue[r][i]] = "queued"
    /\ \A i, j \in DOMAIN queue[r] : queue[r][i] = queue[r][j] => i = j
    /\ \A c \in Calls :
           owner[c] = r /\ phase[c] \in Waiting => \E i \in DOMAIN queue[r] : queue[r][i] = c

Chains == \A r \in Runners : Chain(r)

\* The chained writes are those of the calls that are being stored, each once.
WriteChains ==
    /\ writes \in [Scopes -> Seq(Calls)]
    /\ \A s \in Scopes : \A i \in DOMAIN writes[s] : phase[writes[s][i]] = "storing"
    /\ \A s, u \in Scopes : \A i \in DOMAIN writes[s], j \in DOMAIN writes[u] :
           writes[s][i] = writes[u][j] => s = u /\ i = j

PolicyTypes ==
    /\ nextMode \in Modes /\ escalated \subseteq Sessions /\ control \in Runners \cup {none}
    /\ snapshot \in [Sessions -> Modes \cup {none}]

RunnerTypes ==
    /\ status \in [Runners -> {"unused", "creating", "ready", "replaced"}]
    /\ session \in [Runners -> Sessions \cup {none}]
    /\ parent \in [Runners -> Runners \cup {none}]
    /\ turn \in [Runners -> {"none", "running", "aborted"}]

ManagerTypes ==
    /\ mode \in [Runners -> Modes]
    /\ cache \in [Runners -> [Keys -> {"none", "allow", "deny"}]]
    /\ servers \in [Runners -> BOOLEAN]
    /\ ephemeral \in [Runners -> SUBSET Keys]

CallTypes ==
    /\ phase \in [Calls -> Phases]
    /\ owner \in [Calls -> Runners \cup {none}] /\ key \in [Calls -> Keys \cup {none}]
    /\ verdict \in [Calls -> {"allow", "deny"}]
    /\ \A c \in Calls : phase[c] # "unused" => owner[c] \in Runners /\ key[c] \in Keys

StoreTypes == rules \subseteq Rules /\ disk \subseteq Rules /\ faults \in Nat

\* A runner is a session's or a subagent's; the active chain is a session's.
Placed ==
    /\ \A r \in Runners : status[r] # "unused" /\ ~Kid(r) => session[r] \in Sessions
    /\ \A r \in Runners : status[r] \in {"unused", "creating"} => ~Kid(r)
    /\ \A r \in Runners : turn[r] # "none" => status[r] # "unused"
    /\ control # none => ~Kid(control) /\ status[control] # "unused"

\* A call belongs to a turn, and a card to one that nothing interrupted.
InTurn ==
    \A c \in Calls :
        /\ phase[c] \notin {"unused", "ended"} => turn[owner[c]] # "none"
        /\ phase[c] = "carded" => turn[owner[c]] = "running"

TypeInv ==
    /\ PolicyTypes /\ RunnerTypes /\ ManagerTypes /\ CallTypes /\ StoreTypes
    /\ queue \in [Runners -> Seq(Calls)] /\ Chains /\ WriteChains /\ Placed /\ InTurn

-----------------------------------------------------------------------------
(* Sequences *)

LEMMA PopFront ==
  ASSUME NEW S, NEW s \in Seq(S), s # <<>>
  PROVE  /\ Tail(s) \in Seq(S) /\ 1 \in DOMAIN s /\ Head(s) = s[1] /\ Head(s) \in S
         /\ \A i \in DOMAIN Tail(s) : i + 1 \in DOMAIN s /\ i + 1 > 1 /\ Tail(s)[i] = s[i + 1]
         /\ \A i \in DOMAIN s : i > 1 => i - 1 \in DOMAIN Tail(s) /\ Tail(s)[i - 1] = s[i]
         /\ \A i \in DOMAIN s : i = 1 \/ i > 1
         /\ DOMAIN s \subseteq Nat /\ DOMAIN Tail(s) \subseteq Nat
OBVIOUS

LEMMA PushBack ==
  ASSUME NEW S, NEW s \in Seq(S), NEW x \in S
  PROVE  /\ Append(s, x) \in Seq(S) /\ Append(s, x) # <<>>
         /\ \E n \in Nat : /\ n + 1 \notin DOMAIN s
                           /\ DOMAIN Append(s, x) = DOMAIN s \cup {n + 1}
                           /\ Append(s, x)[n + 1] = x
                           /\ n + 1 > 1 => 1 \in DOMAIN s
         /\ \A i \in DOMAIN s : Append(s, x)[i] = s[i]
<1> DEFINE n == Len(s)
<1>1. /\ n \in Nat /\ n + 1 \notin DOMAIN s /\ DOMAIN Append(s, x) = DOMAIN s \cup {n + 1}
      /\ Append(s, x)[n + 1] = x /\ (n + 1 > 1 => 1 \in DOMAIN s)
  OBVIOUS
<1>2. /\ Append(s, x) \in Seq(S) /\ Append(s, x) # <<>>
      /\ \A i \in DOMAIN s : Append(s, x)[i] = s[i]
  OBVIOUS
<1> QED
  BY <1>1, <1>2

-----------------------------------------------------------------------------
(* The chain of a manager *)

\* Only the first request of a chain is past the queue.
LEMMA FirstOnly ==
  ASSUME Chains, NEW c \in Calls, owner[c] \in Runners,
         phase[c] \in Waiting \ {"queued"} \/ (phase[c] = "queued" /\ Head(queue[owner[c]]) = c)
  PROVE  queue[owner[c]] # <<>> /\ Head(queue[owner[c]]) = c /\ queue[owner[c]][1] = c
<1> DEFINE q == queue[owner[c]]
<1>1. Chain(owner[c])
  BY DEF Chains
<1>2. /\ q \in Seq(Calls)
      /\ \A i \in DOMAIN q : i > 1 => phase[q[i]] = "queued"
      /\ \E i \in DOMAIN q : q[i] = c
  BY <1>1 DEF Chain, Waiting
<1>3. q # <<>>
  BY <1>2
<1>4. 1 \in DOMAIN q /\ Head(q) = q[1] /\ \A i \in DOMAIN q : i = 1 \/ i > 1
  BY <1>2, <1>3, PopFront
<1> HIDE DEF q
<1>5. q[1] = c
  BY <1>2, <1>4 DEF q
<1> QED
  BY <1>3, <1>4, <1>5 DEF q

LEMMA ChainKept ==
  ASSUME NEW r \in Runners, Chain(r), queue'[r] = queue[r],
         \A c \in Calls : /\ owner[c] = r /\ phase[c] \in Waiting =>
                                /\ owner'[c] = r /\ phase'[c] \in Waiting
                                /\ phase'[c] = phase[c] \/ (1 \in DOMAIN queue[r] /\ queue[r][1] = c)
                          /\ owner'[c] = r /\ phase'[c] \in Waiting =>
                                owner[c] = r /\ phase[c] \in Waiting
  PROVE  Chain(r)'
<1> DEFINE q == queue[r]
<1>1. /\ q \in Seq(Calls)
      /\ \A i \in DOMAIN q : /\ owner[q[i]] = r /\ phase[q[i]] \in Waiting /\ q[i] \in Calls
                             /\ i > 1 => phase[q[i]] = "queued" /\ i # 1
      /\ \A i, j \in DOMAIN q : q[i] = q[j] => i = j
      /\ \A c \in Calls : owner[c] = r /\ phase[c] \in Waiting => \E i \in DOMAIN q : q[i] = c
  BY DEF Chain
<1>2. queue'[r] = q
  OBVIOUS
<1> HIDE DEF q
<1>3. \A i \in DOMAIN q : /\ owner'[q[i]] = r /\ phase'[q[i]] \in Waiting
                          /\ i > 1 => phase'[q[i]] = "queued"
  BY <1>1 DEF q
<1>4. \A c \in Calls : owner'[c] = r /\ phase'[c] \in Waiting => \E i \in DOMAIN q : q[i] = c
  BY <1>1
<1> QED
  BY <1>1, <1>2, <1>3, <1>4 DEF Chain

LEMMA ChainPopped ==
  ASSUME NEW r \in Runners, Chain(r), queue[r] # <<>>, queue'[r] = Tail(queue[r]),
         \A c \in Calls : owner'[c] = owner[c],
         phase'[Head(queue[r])] \notin Waiting,
         \A c \in Calls : owner[c] = r /\ c # Head(queue[r]) => phase'[c] = phase[c]
  PROVE  Chain(r)'
<1> DEFINE q == queue[r]
           t == Tail(q)
<1>1. /\ q \in Seq(Calls) /\ q # <<>>
      /\ \A i \in DOMAIN q : /\ owner[q[i]] = r /\ phase[q[i]] \in Waiting
                             /\ i > 1 => phase[q[i]] = "queued"
      /\ \A i, j \in DOMAIN q : q[i] = q[j] => i = j
      /\ \A c \in Calls : owner[c] = r /\ phase[c] \in Waiting => \E i \in DOMAIN q : q[i] = c
  BY DEF Chain
<1>2. /\ t \in Seq(Calls) /\ 1 \in DOMAIN q /\ Head(q) = q[1]
      /\ \A i \in DOMAIN t : i + 1 \in DOMAIN q /\ i + 1 > 1 /\ t[i] = q[i + 1]
      /\ \A i \in DOMAIN q : i > 1 => i - 1 \in DOMAIN t /\ t[i - 1] = q[i]
      /\ \A i \in DOMAIN q : i = 1 \/ i > 1
      /\ DOMAIN q \subseteq Nat /\ DOMAIN t \subseteq Nat
  BY <1>1, PopFront
<1>3. /\ queue'[r] = t /\ phase'[q[1]] \notin Waiting
      /\ \A c \in Calls : owner[c] = r /\ c # q[1] => phase'[c] = phase[c]
  BY <1>2
<1>4. \A i \in DOMAIN q : q[i] \in Calls
  BY <1>1
<1> HIDE DEF t, q
<1>5. ASSUME NEW i \in DOMAIN t
      PROVE  i + 1 \in DOMAIN q /\ i + 1 > 1 /\ i + 1 # 1 /\ t[i] = q[i + 1] /\ i \in Nat
  <2>1. i \in Nat
    BY <1>2, <1>5
  <2> QED
    BY <1>2, <1>5, <2>1
<1>6. ASSUME NEW i \in DOMAIN t PROVE owner'[t[i]] = r /\ phase'[t[i]] = "queued"
  <2>1. i + 1 \in DOMAIN q /\ i + 1 > 1 /\ i + 1 # 1 /\ t[i] = q[i + 1]
    BY <1>5, <1>6
  <2>2. /\ owner[q[i + 1]] = r /\ phase[q[i + 1]] = "queued" /\ q[i + 1] # q[1]
        /\ q[i + 1] \in Calls
    BY <1>1, <1>2, <1>4, <2>1
  <2>3. owner'[q[i + 1]] = r /\ phase'[q[i + 1]] = "queued"
    BY <1>3, <2>2
  <2> QED
    BY <2>1, <2>3
<1>7. \A i, j \in DOMAIN t : t[i] = t[j] => i = j
  BY <1>1, <1>5
<1>8. ASSUME NEW c \in Calls, owner'[c] = r, phase'[c] \in Waiting
      PROVE  \E i \in DOMAIN t : t[i] = c
  <2>1. c # q[1] /\ owner[c] = r /\ phase[c] \in Waiting
    BY <1>3, <1>8
  <2>2. PICK i \in DOMAIN q : q[i] = c
    BY <1>1, <2>1
  <2> QED
    BY <1>2, <2>1, <2>2
<1>9. \A i \in DOMAIN t : /\ owner'[t[i]] = r /\ phase'[t[i]] \in Waiting
                          /\ i > 1 => phase'[t[i]] = "queued"
  BY <1>6 DEF Waiting
<1> QED
  BY ZenonT(60), <1>2, <1>3, <1>7, <1>8, <1>9 DEF Chain

LEMMA ChainJoined ==
  ASSUME NEW r \in Runners, Chain(r), NEW c \in Calls, phase[c] \notin Waiting,
         queue'[r] = Append(queue[r], c), owner'[c] = r, phase'[c] = "queued",
         \A d \in Calls : d # c => owner'[d] = owner[d] /\ phase'[d] = phase[d]
  PROVE  Chain(r)'
<1> DEFINE q == queue[r]
           t == Append(q, c)
<1>1. /\ q \in Seq(Calls)
      /\ \A i \in DOMAIN q : /\ owner[q[i]] = r /\ phase[q[i]] \in Waiting
                             /\ i > 1 => phase[q[i]] = "queued"
      /\ \A i, j \in DOMAIN q : q[i] = q[j] => i = j
      /\ \A d \in Calls : owner[d] = r /\ phase[d] \in Waiting => \E i \in DOMAIN q : q[i] = d
  BY DEF Chain
<1>2. /\ t \in Seq(Calls) /\ \A i \in DOMAIN q : t[i] = q[i]
      /\ \E n \in Nat : n + 1 \notin DOMAIN q /\ DOMAIN t = DOMAIN q \cup {n + 1} /\ t[n + 1] = c
  BY <1>1, PushBack
<1>3. PICK n \in Nat : n + 1 \notin DOMAIN q /\ DOMAIN t = DOMAIN q \cup {n + 1} /\ t[n + 1] = c
  BY <1>2
<1>4. \A i \in DOMAIN q : q[i] \in Calls
  BY <1>1
<1>5. queue'[r] = t
  OBVIOUS
<1> HIDE DEF t, q
<1>6. \A i \in DOMAIN q : q[i] # c
  BY <1>1
<1>7. \A i \in DOMAIN t : /\ owner'[t[i]] = r /\ phase'[t[i]] \in Waiting
                          /\ i > 1 => phase'[t[i]] = "queued"
  BY <1>1, <1>2, <1>3, <1>4, <1>6 DEF Waiting
<1>8. \A i, j \in DOMAIN t : t[i] = t[j] => i = j
  BY <1>1, <1>2, <1>3, <1>6
<1>9. \A d \in Calls : owner'[d] = r /\ phase'[d] \in Waiting => \E i \in DOMAIN t : t[i] = d
  BY <1>1, <1>2, <1>3
<1> QED
  BY <1>2, <1>5, <1>7, <1>8, <1>9 DEF Chain

\* Requests that end leave the heads of their chains.
LEMMA ChainsDropped ==
  ASSUME NEW D \in SUBSET Calls, queue \in [Runners -> Seq(Calls)], Chains,
         \A c \in D : /\ owner[c] \in Runners /\ queue[owner[c]] # <<>>
                      /\ Head(queue[owner[c]]) = c,
         queue' = Dropped(D), \A c \in Calls : owner'[c] = owner[c],
         \A c \in D : phase'[c] \notin Waiting,
         \A c \in Calls \ D : phase'[c] = phase[c]
  PROVE  queue' \in [Runners -> Seq(Calls)] /\ Chains'
<1>1. \A r \in Runners : /\ queue[r] \in Seq(Calls)
                         /\ queue[r] # <<>> => Tail(queue[r]) \in Seq(Calls)
                         /\ queue[r] # <<>> => Head(queue[r]) \in Calls
  BY PopFront
<1>2. queue' \in [Runners -> Seq(Calls)]
  BY <1>1 DEF Dropped
<1>3. ASSUME NEW r \in Runners PROVE Chain(r)'
  <2>1. Chain(r)
    BY DEF Chains
  <2>2. queue'[r] = IF queue[r] # <<>> /\ Head(queue[r]) \in D THEN Tail(queue[r]) ELSE queue[r]
    BY DEF Dropped
  <2>3. CASE queue[r] # <<>> /\ Head(queue[r]) \in D
    <3>1. \A c \in Calls : owner[c] = r /\ c # Head(queue[r]) => c \notin D
      OBVIOUS
    <3>2. queue'[r] = Tail(queue[r]) /\ phase'[Head(queue[r])] \notin Waiting
      BY <2>2, <2>3
    <3>3. \A c \in Calls : owner[c] = r /\ c # Head(queue[r]) => phase'[c] = phase[c]
      BY <3>1
    <3> QED
      BY <2>1, <2>3, <3>2, <3>3, ChainPopped
  <2>4. CASE ~(queue[r] # <<>> /\ Head(queue[r]) \in D)
    <3>1. \A c \in Calls : owner[c] = r => c \notin D
      BY <2>4
    <3>2. queue'[r] = queue[r] /\ \A c \in Calls : owner[c] = r => phase'[c] = phase[c]
      BY <2>2, <2>4, <3>1
    <3> QED
      BY <2>1, <3>2, ChainKept
  <2> QED
    BY <2>3, <2>4
<1> QED
  BY <1>2, <1>3 DEF Chains

-----------------------------------------------------------------------------
(* The types, action by action *)

LEMMA WritesKept ==
  ASSUME WriteChains, writes' = writes,
         \A c \in Calls : phase[c] = "storing" => phase'[c] = "storing"
  PROVE  WriteChains'
<1>1. \A s \in Scopes : \A i \in DOMAIN writes[s] : writes[s][i] \in Calls
  BY DEF WriteChains
<1> QED
  BY <1>1 DEF WriteChains

\* The manager goes on with the request it is busy with.
LEMMA ChainsKept ==
  ASSUME queue \in [Runners -> Seq(Calls)], Chains, queue' = queue,
         \A c \in Calls : /\ owner'[c] = owner[c]
                          /\ phase[c] \in Waiting <=> phase'[c] \in Waiting
                          /\ phase'[c] = phase[c]
                                \/ (owner[c] \in Runners /\ phase[c] \in Waiting \ {"queued"})
                                \/ (owner[c] \in Runners /\ phase[c] = "queued"
                                       /\ Head(queue[owner[c]]) = c)
  PROVE  queue' \in [Runners -> Seq(Calls)] /\ Chains'
<1>1. ASSUME NEW r \in Runners PROVE Chain(r)'
  <2>1. Chain(r) /\ queue'[r] = queue[r] /\ queue[r] \in Seq(Calls)
    BY DEF Chains
  <2>2. ASSUME NEW c \in Calls, owner[c] = r, phase'[c] # phase[c]
        PROVE  1 \in DOMAIN queue[r] /\ queue[r][1] = c
    <3>1. queue[r] # <<>> /\ queue[r][1] = c
      BY <2>2, FirstOnly
    <3> QED
      BY <2>1, <3>1, PopFront
  <2> QED
    BY <2>1, <2>2, ChainKept
<1> QED
  BY <1>1 DEF Chains

\* What interrupt() leaves of the turns, the cards and the chains.
LEMMA Interrupted ==
  ASSUME TypeInv, NEW r, Interrupt(r), UNCHANGED <<owner, key, verdict, writes>>
  PROVE  /\ turn' \in [Runners -> {"none", "running", "aborted"}]
         /\ \A x \in Runners : turn'[x] # "none" => turn[x] # "none"
         /\ CallTypes' /\ queue' \in [Runners -> Seq(Calls)] /\ Chains' /\ WriteChains' /\ InTurn'
<1> DEFINE R == {x \in Lineage(r) : turn[x] = "running"}
           D == Withdrawn(R)
<1>1. /\ turn' = [x \in Runners |-> IF x \in R THEN "aborted" ELSE turn[x]]
      /\ phase' = Ended(D) /\ queue' = Dropped(D)
  BY DEF Interrupt
<1>2. /\ \A c \in D : c \in Calls /\ owner[c] \in R /\ phase[c] = "carded"
      /\ \A c \in Calls : phase[c] = "carded" /\ owner[c] \in R => c \in D
  BY DEF Withdrawn, CallsOf
<1>3. \A x \in R : turn[x] = "running"
  OBVIOUS
<1> HIDE DEF R, D
<1>4. /\ turn \in [Runners -> {"none", "running", "aborted"}]
      /\ CallTypes /\ queue \in [Runners -> Seq(Calls)] /\ Chains /\ WriteChains /\ InTurn
  BY DEF TypeInv, RunnerTypes
<1>5. /\ turn' \in [Runners -> {"none", "running", "aborted"}]
      /\ \A x \in Runners : turn'[x] # "none" => turn[x] # "none"
      /\ \A x \in Runners : turn[x] # "none" => turn'[x] # "none"
      /\ \A x \in Runners : x \notin R => turn'[x] = turn[x]
  BY <1>1, <1>3, <1>4
<1>6. /\ \A c \in D : phase'[c] = "ended"
      /\ \A c \in Calls : c \notin D => phase'[c] = phase[c]
      /\ phase' \in [Calls -> Phases]
  BY <1>1, <1>2, <1>4 DEF Ended, CallTypes, Phases
<1>7. \A c \in D : owner[c] \in Runners /\ queue[owner[c]] # <<>> /\ Head(queue[owner[c]]) = c
  <2>1. \A c \in D : owner[c] \in Runners
    BY <1>2, <1>4 DEF CallTypes
  <2> QED
    BY <1>2, <1>4, <2>1, FirstOnly DEF Waiting
<1>8. queue' \in [Runners -> Seq(Calls)] /\ Chains'
  <2>1. D \in SUBSET Calls /\ \A c \in D : phase'[c] \notin Waiting
    BY <1>2, <1>6 DEF Waiting
  <2>2. \A c \in Calls : owner'[c] = owner[c]
    OBVIOUS
  <2>3. \A c \in Calls \ D : phase'[c] = phase[c]
    BY <1>6
  <2> QED
    BY <1>1, <1>4, <1>7, <2>1, <2>2, <2>3, ChainsDropped
<1>9. WriteChains'
  <2>1. \A c \in Calls : phase[c] = "storing" => phase'[c] = "storing"
    BY <1>2, <1>6
  <2> QED
    BY <1>4, <2>1, WritesKept
<1>10. CallTypes'
  BY <1>2, <1>4, <1>6 DEF CallTypes
<1>11. InTurn'
  <2> SUFFICES ASSUME NEW c \in Calls
               PROVE  /\ phase'[c] \notin {"unused", "ended"} => turn'[owner[c]] # "none"
                      /\ phase'[c] = "carded" => turn'[owner[c]] = "running"
    BY DEF InTurn
  <2>1. CASE c \in D
    BY <1>6, <2>1
  <2>2. CASE c \notin D
    <3>1. phase'[c] = phase[c] /\ (phase[c] = "carded" => owner[c] \notin R)
      BY <1>2, <1>6, <2>2
    <3>2. phase[c] # "unused" => owner[c] \in Runners
      BY <1>4 DEF CallTypes
    <3> QED
      BY <1>4, <1>5, <3>1, <3>2 DEF InTurn
  <2> QED
    BY <2>1, <2>2
<1> QED
  BY <1>5, <1>8, <1>9, <1>10, <1>11

LEMMA TypeBeginRunner ==
  ASSUME TypeInv, NEW r \in Runners, NEW s \in Sessions, BeginRunner(r, s)
  PROVE  TypeInv'
<1>1. /\ PolicyTypes /\ RunnerTypes /\ ManagerTypes /\ Placed
  BY DEF TypeInv
<1>2. FrozenMode(s) \in Modes
  BY <1>1 DEF FrozenMode, PolicyTypes, Modes
<1>3. /\ turn' \in [Runners -> {"none", "running", "aborted"}]
      /\ \A x \in Runners : turn'[x] # "none" => turn[x] # "none"
      /\ CallTypes' /\ queue' \in [Runners -> Seq(Calls)] /\ Chains' /\ WriteChains' /\ InTurn'
  <2>1. UNCHANGED <<owner, key, verdict, writes>>
    BY DEF BeginRunner, store
  <2>2. CASE control # none
    BY <2>1, <2>2, Interrupted DEF BeginRunner
  <2>3. CASE control = none
    <3>1. UNCHANGED <<turn, phase, queue>>
      BY <2>3 DEF BeginRunner
    <3> QED
      BY <1>1, <2>1, <3>1 DEF TypeInv, RunnerTypes, CallTypes, Chains, Chain, WriteChains, InTurn
  <2> QED
    BY <2>2, <2>3
<1>4. /\ status[r] = "unused" /\ status' = [status EXCEPT ![r] = "creating"]
      /\ session' = [session EXCEPT ![r] = s] /\ parent' = parent
      /\ mode' = [mode EXCEPT ![r] = FrozenMode(s)]
      /\ snapshot' = [snapshot EXCEPT ![s] = FrozenMode(s)]
      /\ UNCHANGED <<nextMode, escalated, control, cache, servers, ephemeral, rules, disk, faults>>
  BY DEF BeginRunner, store, counters
<1>5. PolicyTypes' /\ ManagerTypes' /\ StoreTypes'
  BY <1>1, <1>2, <1>4 DEF PolicyTypes, ManagerTypes, StoreTypes, TypeInv
<1>6. RunnerTypes'
  BY <1>1, <1>3, <1>4 DEF RunnerTypes
<1>7. Placed'
  BY <1>1, <1>3, <1>4 DEF Placed, RunnerTypes, Kid, PolicyTypes
<1> QED
  BY <1>3, <1>5, <1>6, <1>7 DEF TypeInv

\* Steps that leave the calls and their chains alone.
LEMMA TypeCallsKept ==
  ASSUME TypeInv, UNCHANGED <<phase, owner, key, verdict, queue, writes>>
  PROVE  CallTypes' /\ queue' \in [Runners -> Seq(Calls)] /\ Chains' /\ WriteChains'
BY DEF TypeInv, CallTypes, Chains, Chain, WriteChains

LEMMA TypeRunners ==
  ASSUME TypeInv, NEW r \in Runners,
         \/ InstallRunner(r) \/ (\E p \in Runners : StartChild(r, p)) \/ StartTurn(r)
         \/ EndTurn(r) \/ EndSession(r)
  PROVE  TypeInv'
<1>1. PolicyTypes /\ RunnerTypes /\ ManagerTypes /\ StoreTypes /\ Placed /\ InTurn /\ CallTypes
  BY DEF TypeInv
<1>2. UNCHANGED <<phase, owner, key, verdict, queue, writes, rules, disk, faults, cache, servers,
                  nextMode, escalated>>
  BY DEF InstallRunner, StartChild, StartTurn, EndTurn, EndSession, call, store, manager, counters,
         policy
<1>3. CallTypes' /\ queue' \in [Runners -> Seq(Calls)] /\ Chains' /\ WriteChains' /\ StoreTypes'
  BY <1>1, <1>2, TypeCallsKept DEF StoreTypes
<1>4. ASSUME NEW x \in Runners, turn[x] # "none", turn'[x] = "none"
      PROVE  \A c \in Calls : owner[c] = x => phase[c] = "ended"
  <2>1. CASE EndTurn(r)
    <3>1. x = r
      BY <1>1, <1>4, <2>1 DEF EndTurn, RunnerTypes
    <3> QED
      BY <2>1, <3>1 DEF EndTurn, CallsOf
  <2>2. CASE InstallRunner(r) \/ (\E p \in Runners : StartChild(r, p)) \/ StartTurn(r) \/ EndSession(r)
    BY <1>1, <1>4, <2>2 DEF InstallRunner, StartChild, StartTurn, EndSession, runner, RunnerTypes
  <2> QED
    BY <2>1, <2>2
<1>5. ASSUME NEW x \in Runners, turn[x] = "running"
      PROVE  turn'[x] = "running" \/ turn'[x] = "none"
  BY <1>1, <1>5 DEF InstallRunner, StartChild, StartTurn, EndTurn, EndSession, runner, RunnerTypes
<1>6. InTurn'
  <2>1. \A c \in Calls : phase[c] # "unused" => owner[c] \in Runners
    BY <1>1 DEF CallTypes
  <2> QED
    BY <1>1, <1>2, <1>4, <1>5, <2>1 DEF InTurn
<1>7. CASE InstallRunner(r)
  <2>1. /\ status[r] = "creating" /\ control' = r
        /\ status' = [x \in Runners |-> CASE x = r -> "ready"
                                          [] x = control /\ status[x] = "ready" -> "replaced"
                                          [] OTHER -> status[x]]
        /\ UNCHANGED <<snapshot, session, parent, turn, mode, ephemeral>>
    BY <1>7 DEF InstallRunner, manager
  <2>2. PolicyTypes' /\ RunnerTypes' /\ ManagerTypes'
    BY <1>1, <1>2, <2>1 DEF PolicyTypes, RunnerTypes, ManagerTypes
  <2>3. \A x \in Runners : /\ status'[x] = "unused" => status[x] = "unused"
                           /\ status[x] = "unused" => status'[x] = "unused"
                           /\ status'[x] = "creating" => status[x] = "creating"
    BY <1>1, <2>1 DEF RunnerTypes
  <2>4. Placed'
    BY <1>1, <2>1, <2>3 DEF Placed, Kid
  <2> QED
    BY <1>3, <1>6, <2>2, <2>4 DEF TypeInv
<1>8. ASSUME NEW p \in Runners, StartChild(r, p) PROVE TypeInv'
  <2>1. /\ status[r] = "unused" /\ turn[p] = "running" /\ ~Kid(p) /\ snapshot[session[p]] # none
        /\ status' = [status EXCEPT ![r] = "ready"]
        /\ parent' = [parent EXCEPT ![r] = p]
        /\ mode' = [mode EXCEPT ![r] = snapshot[session[p]]]
        /\ turn' = [turn EXCEPT ![r] = "running"]
        /\ UNCHANGED <<snapshot, session, control, ephemeral>>
    BY <1>8 DEF StartChild, policy
  <2>2. session[p] \in Sessions
    BY <1>1, <2>1 DEF Placed
  <2>3. PolicyTypes' /\ RunnerTypes' /\ ManagerTypes'
    BY <1>1, <1>2, <2>1, <2>2 DEF PolicyTypes, RunnerTypes, ManagerTypes
  <2>4. p # none
    BY ApprovalsAssumption DEF ApprovalsAssumption
  <2>5. Placed'
    BY <1>1, <2>1, <2>4 DEF Placed, Kid, RunnerTypes, PolicyTypes
  <2> QED
    BY <1>3, <1>6, <2>3, <2>5 DEF TypeInv
<1>9. CASE StartTurn(r)
  BY <1>1, <1>2, <1>3, <1>6, <1>9 DEF StartTurn, TypeInv, policy, manager, PolicyTypes, RunnerTypes,
     ManagerTypes, Placed, Kid
<1>10. CASE EndTurn(r)
  <2>1. /\ turn[r] # "none" /\ turn' = [turn EXCEPT ![r] = "none"]
        /\ ephemeral' = [ephemeral EXCEPT ![r] = {}]
        /\ status' = IF Kid(r) THEN [status EXCEPT ![r] = "replaced"] ELSE status
        /\ UNCHANGED <<snapshot, control, session, parent, mode>>
    BY <1>10 DEF EndTurn, policy
  <2>2. PolicyTypes' /\ RunnerTypes' /\ ManagerTypes'
    BY <1>1, <1>2, <2>1 DEF PolicyTypes, RunnerTypes, ManagerTypes
  <2>3. Placed'
    BY <1>1, <2>1 DEF Placed, Kid, RunnerTypes, PolicyTypes
  <2> QED
    BY <1>3, <1>6, <2>2, <2>3 DEF TypeInv
<1>11. CASE EndSession(r)
  <2>1. /\ status[r] = "ready" /\ control = r
        /\ status' = [status EXCEPT ![r] = "replaced"]
        /\ snapshot' = [snapshot EXCEPT ![session[r]] = none]
        /\ UNCHANGED <<control, session, parent, turn, mode, ephemeral>>
    BY <1>11 DEF EndSession, manager
  <2>2. PolicyTypes' /\ RunnerTypes' /\ ManagerTypes'
    BY <1>1, <1>2, <2>1 DEF PolicyTypes, RunnerTypes, ManagerTypes
  <2>3. Placed'
    BY <1>1, <2>1 DEF Placed, Kid, RunnerTypes, PolicyTypes
  <2> QED
    BY <1>3, <1>6, <2>2, <2>3 DEF TypeInv
<1> QED
  BY <1>7, <1>8, <1>9, <1>10, <1>11

LEMMA TypeAsides ==
  ASSUME TypeInv, (\E m \in Modes : SetMode(m)) \/ (\E k \in Keys : Grant(k))
                  \/ (\E s \in Scopes : FlushProbe(s)) \/ UNCHANGED vars
  PROVE  TypeInv'
<1>1. UNCHANGED <<phase, owner, key, verdict, queue, writes, snapshot, control, runner, cache,
                  servers, rules, disk, faults>>
  BY DEF SetMode, Grant, FlushProbe, vars, policy, runner, manager, call, store, counters
<1>2. CallTypes' /\ queue' \in [Runners -> Seq(Calls)] /\ Chains' /\ WriteChains'
  BY <1>1, TypeCallsKept
<1>3. /\ nextMode' \in Modes /\ escalated' \subseteq Sessions
      /\ mode' \in [Runners -> Modes] /\ ephemeral' \in [Runners -> SUBSET Keys]
  <2>1. PolicyTypes /\ ManagerTypes
    BY DEF TypeInv
  <2>2. CASE \E m \in Modes : SetMode(m)
    BY <2>1, <2>2 DEF SetMode, PolicyTypes, ManagerTypes
  <2>3. CASE \E k \in Keys : Grant(k)
    BY <2>1, <2>3 DEF Grant, policy, PolicyTypes, ManagerTypes
  <2>4. CASE (\E s \in Scopes : FlushProbe(s)) \/ UNCHANGED vars
    BY <2>1, <2>4 DEF FlushProbe, vars, policy, manager, PolicyTypes, ManagerTypes
  <2> QED
    BY <2>2, <2>3, <2>4
<1>4. RunnerTypes' /\ StoreTypes' /\ Placed' /\ InTurn'
  BY <1>1 DEF TypeInv, RunnerTypes, StoreTypes, Placed, InTurn, Kid, runner
<1>5. PolicyTypes' /\ ManagerTypes'
  BY <1>1, <1>3 DEF TypeInv, PolicyTypes, ManagerTypes
<1> QED
  BY <1>2, <1>4, <1>5 DEF TypeInv

\* A tool call arrives: it is decided, or joins its manager's chain.
LEMMA TypeRequest ==
  ASSUME TypeInv, NEW c \in Calls, NEW r \in Runners, NEW k \in Keys, Request(c, r, k)
  PROVE  TypeInv'
<1>1. /\ CallTypes /\ ManagerTypes /\ Chains /\ WriteChains /\ InTurn
      /\ queue \in [Runners -> Seq(Calls)]
  BY DEF TypeInv
<1>2. /\ phase[c] = "unused" /\ turn[r] # "none"
      /\ owner' = [owner EXCEPT ![c] = r] /\ key' = [key EXCEPT ![c] = k]
      /\ UNCHANGED <<policy, runner, mode, servers, ephemeral, verdict, store, counters>>
      /\ cache' = cache \/ cache' = [cache EXCEPT ![r][k] = "allow"]
  BY DEF Request
<1>3. \/ /\ queue' = [queue EXCEPT ![r] = Append(@, c)]
         /\ phase' = [phase EXCEPT ![c] = "queued"]
      \/ /\ queue' = queue
         /\ phase' = [phase EXCEPT ![c] = "ended"] \/ phase' = [phase EXCEPT ![c] = "running"]
  <2>1. Resolution(r, k) \in {"deny", "allow", "ask"}
    <3>1. cache[r][k] \in {"none", "allow", "deny"}
      BY <1>1 DEF ManagerTypes
    <3> QED
      BY <3>1 DEF Resolution
  <2> QED
    BY <2>1 DEF Request
<1>4. /\ phase' \in [Calls -> Phases] /\ phase'[c] \in {"queued", "ended", "running"}
      /\ owner'[c] = r /\ key'[c] = k
      /\ \A d \in Calls : d # c => owner'[d] = owner[d] /\ phase'[d] = phase[d] /\ key'[d] = key[d]
  BY <1>1, <1>2, <1>3 DEF CallTypes, Phases, Waiting
<1>5. CallTypes'
  BY <1>1, <1>2, <1>4 DEF CallTypes
<1>6. InTurn'
  BY <1>1, <1>2, <1>4 DEF InTurn, runner
<1>7. WriteChains'
  <2>1. \A d \in Calls : phase[d] = "storing" => phase'[d] = "storing"
    BY <1>2, <1>4
  <2> QED
    BY <1>1, <1>2, <2>1, WritesKept DEF store
<1>8. phase[c] \notin Waiting
  BY <1>2 DEF Waiting
<1>9. queue' \in [Runners -> Seq(Calls)] /\ Chains'
  <2>1. CASE /\ queue' = [queue EXCEPT ![r] = Append(@, c)]
             /\ phase' = [phase EXCEPT ![c] = "queued"]
    <3>1. queue[r] \in Seq(Calls) /\ Append(queue[r], c) \in Seq(Calls)
      BY <1>1, PushBack
    <3>2. /\ queue' \in [Runners -> Seq(Calls)] /\ queue'[r] = Append(queue[r], c)
          /\ \A x \in Runners : x # r => queue'[x] = queue[x]
      BY <1>1, <2>1, <3>1
    <3>3. Chain(r)'
      <4>1. Chain(r) /\ phase'[c] = "queued"
        BY <1>1, <2>1 DEF Chains, CallTypes
      <4> QED
        BY <1>4, <1>8, <3>2, <4>1, ChainJoined
    <3>4. ASSUME NEW x \in Runners, x # r PROVE Chain(x)'
      <4>1. Chain(x) /\ queue'[x] = queue[x]
        BY <1>1, <3>2, <3>4 DEF Chains
      <4>2. \A d \in Calls : owner'[d] = x => d # c
        BY <1>4, <3>4
      <4>3. \A d \in Calls : phase[d] \in Waiting => d # c
        BY <1>8
      <4> QED
        BY <1>4, <4>1, <4>2, <4>3, ChainKept
    <3> QED
      BY <3>2, <3>3, <3>4 DEF Chains
  <2>2. CASE /\ queue' = queue
             /\ phase' = [phase EXCEPT ![c] = "ended"] \/ phase' = [phase EXCEPT ![c] = "running"]
    <3>1. phase'[c] \notin Waiting
      BY <1>1, <2>2 DEF CallTypes, Waiting
    <3>2. ASSUME NEW x \in Runners PROVE Chain(x)'
      <4>1. Chain(x) /\ queue'[x] = queue[x]
        BY <1>1, <2>2 DEF Chains
      <4> QED
        BY <1>4, <1>8, <3>1, <4>1, ChainKept
    <3> QED
      BY <1>1, <2>2, <3>2 DEF Chains
  <2> QED
    BY <1>3, <2>1, <2>2
<1>10. PolicyTypes' /\ RunnerTypes' /\ ManagerTypes' /\ StoreTypes' /\ Placed'
  <2>1. PolicyTypes' /\ RunnerTypes' /\ StoreTypes' /\ Placed'
    BY <1>2 DEF TypeInv, PolicyTypes, RunnerTypes, StoreTypes, Placed, Kid, policy, runner, store,
       counters
  <2>2. ManagerTypes'
    <3>1. ManagerTypes /\ UNCHANGED <<mode, servers, ephemeral>>
      BY <1>1, <1>2
    <3>2. cache' \in [Runners -> [Keys -> {"none", "allow", "deny"}]]
      <4>1. cache \in [Runners -> [Keys -> {"none", "allow", "deny"}]]
        BY <1>1 DEF ManagerTypes
      <4>2. CASE cache' = cache
        BY <4>1, <4>2
      <4>3. CASE cache' = [cache EXCEPT ![r][k] = "allow"]
        <5>1. [cache[r] EXCEPT ![k] = "allow"] \in [Keys -> {"none", "allow", "deny"}]
          BY <4>1
        <5> QED
          BY <4>1, <4>3, <5>1
      <4> QED
        BY <1>2, <4>2, <4>3
    <3> QED
      BY <3>1, <3>2 DEF ManagerTypes
  <2> QED
    BY <2>1, <2>2
<1> QED
  BY <1>5, <1>6, <1>7, <1>9, <1>10 DEF TypeInv

\* One call goes on inside its turn: it stays where it is in its chain, or leaves it.
LEMMA TypeOneCall ==
  ASSUME TypeInv, NEW c \in Calls, NEW p \in Phases \ {"unused"},
         phase[c] \in Phases \ {"unused", "storing"},
         phase' = [phase EXCEPT ![c] = p],
         \/ queue' = queue /\ p \in Waiting /\ phase[c] \in Waiting
         \/ queue' = queue /\ p \notin Waiting /\ phase[c] \notin Waiting
         \/ queue' = Dropped({c}) /\ p \notin Waiting /\ phase[c] \in Waiting,
         phase[c] = "queued" => Head(queue[owner[c]]) = c,
         p = "carded" => turn[owner[c]] = "running",
         phase[c] = "ended" => p = "ended",
         turn' = turn, owner' = owner, key' = key, verdict' \in [Calls -> {"allow", "deny"}]
  PROVE  CallTypes' /\ queue' \in [Runners -> Seq(Calls)] /\ Chains' /\ InTurn'
<1>1. /\ CallTypes /\ Chains /\ InTurn /\ queue \in [Runners -> Seq(Calls)]
  BY DEF TypeInv
<1>2. /\ phase' \in [Calls -> Phases] /\ phase'[c] = p
      /\ \A d \in Calls : d # c => phase'[d] = phase[d]
  BY <1>1 DEF CallTypes
<1>3. CallTypes' /\ owner[c] \in Runners
  BY <1>1, <1>2 DEF CallTypes
<1>4. InTurn'
  BY <1>1, <1>2 DEF InTurn
<1>5. CASE queue' = queue /\ p \in Waiting /\ phase[c] \in Waiting
  BY <1>1, <1>2, <1>3, <1>4, <1>5, ChainsKept
<1>6. CASE queue' = queue /\ p \notin Waiting /\ phase[c] \notin Waiting
  <2>1. ASSUME NEW r \in Runners PROVE Chain(r)'
    <3>1. Chain(r) /\ queue'[r] = queue[r]
      BY <1>1, <1>6 DEF Chains
    <3> QED
      BY <1>2, <1>6, <3>1, ChainKept
  <2> QED
    BY <1>1, <1>3, <1>4, <1>6, <2>1 DEF Chains
<1>7. CASE queue' = Dropped({c}) /\ p \notin Waiting /\ phase[c] \in Waiting
  <2>1. queue[owner[c]] # <<>> /\ Head(queue[owner[c]]) = c
    BY <1>1, <1>3, <1>7, FirstOnly
  <2>2. /\ {c} \in SUBSET Calls /\ \A d \in {c} : phase'[d] \notin Waiting
        /\ \A d \in Calls \ {c} : phase'[d] = phase[d]
    BY <1>2, <1>7
  <2> QED
    BY <1>1, <1>3, <1>4, <1>7, <2>1, <2>2, ChainsDropped
<1> QED
  BY <1>5, <1>6, <1>7

LEMMA TypeGoesOn ==
  ASSUME TypeInv, NEW c \in Calls, TakeUp(c) \/ Asked(c) \/ Expire(c) \/ Finish(c)
  PROVE  TypeInv'
<1>1. /\ UNCHANGED <<policy, runner, mode, cache, servers, ephemeral, owner, key, verdict, store>>
      /\ turn' = turn /\ writes' = writes /\ faults' \in {faults, faults + 1}
  BY DEF TakeUp, Asked, Expire, Finish, manager, runner, store, counters
<1>2. PICK p \in Phases \ {"unused"} :
         /\ phase[c] \in {"queued", "asking", "carded", "running"}
         /\ phase' = [phase EXCEPT ![c] = p]
         /\ \/ queue' = queue /\ p \in Waiting /\ phase[c] \in Waiting
            \/ queue' = queue /\ p \notin Waiting /\ phase[c] \notin Waiting
            \/ queue' = Dropped({c}) /\ p \notin Waiting /\ phase[c] \in Waiting
         /\ phase[c] = "queued" => Head(queue[owner[c]]) = c
         /\ p = "carded" => turn[owner[c]] = "running"
  <2>0. phase \in [Calls -> Phases]
    BY DEF TypeInv, CallTypes
  <2> USE DEF Phases, Waiting
  <2>1. Ended({c}) = [phase EXCEPT ![c] = "ended"]
    BY <2>0 DEF Ended
  <2>2. CASE TakeUp(c)
    BY <2>1, <2>2 DEF TakeUp
  <2>3. CASE Asked(c)
    <3>1. phase[c] = "asking" /\ turn[owner[c]] \in {"running", "aborted"}
      BY <2>3 DEF Asked, TypeInv, InTurn, CallTypes, RunnerTypes
    <3> QED
      BY <2>1, <2>3, <3>1 DEF Asked, Show
  <2>4. CASE Expire(c)
    <3>1. /\ phase[c] = "carded" /\ phase' = [phase EXCEPT ![c] = "ended"]
          /\ queue' = Dropped({c})
      BY <2>4 DEF Expire, Settle
    <3>2. /\ "ended" \in Phases \ {"unused"} /\ "ended" \notin Waiting /\ phase[c] \in Waiting
          /\ phase[c] # "queued" /\ "ended" # "carded" /\ phase[c] \in {"queued", "asking", "carded", "running"}
      BY <3>1
    <3> HIDE DEF Phases, Waiting
    <3> QED
      BY <3>1, <3>2
  <2>5. CASE Finish(c)
    BY <2>1, <2>5 DEF Finish, manager
  <2> QED
    BY <2>2, <2>3, <2>4, <2>5
<1>3. CallTypes' /\ queue' \in [Runners -> Seq(Calls)] /\ Chains' /\ InTurn'
  <2>1. /\ phase[c] \in Phases \ {"unused", "storing"} /\ phase[c] # "ended"
        /\ verdict' \in [Calls -> {"allow", "deny"}]
    BY <1>1, <1>2 DEF Phases, Waiting, TypeInv, CallTypes
  <2> QED
    BY <1>1, <1>2, <2>1, TypeOneCall
<1>4. WriteChains'
  <2>1. phase[c] # "storing" /\ \A d \in Calls : phase[d] = "storing" => phase'[d] = "storing"
    BY <1>2 DEF TypeInv, CallTypes
  <2> QED
    BY <1>1, <2>1, WritesKept DEF TypeInv
<1>5. PolicyTypes' /\ RunnerTypes' /\ ManagerTypes' /\ StoreTypes' /\ Placed'
  BY <1>1 DEF TypeInv, PolicyTypes, RunnerTypes, ManagerTypes, StoreTypes, Placed, Kid, policy,
     runner, store
<1> QED
  BY <1>3, <1>4, <1>5 DEF TypeInv

\* A document that is being written has the rules of its scope, for the call at the head of
\* the chain.
Flushes ==
    /\ flushing \in [Scopes -> (SUBSET Rules) \cup {none}]
    /\ \A s \in Scopes :
           flushing[s] # none => writes[s] # <<>> /\ \A rule \in flushing[s] : rule.scope = s

LEMMA WritesPushed ==
  ASSUME WriteChains, NEW u \in Scopes, NEW c \in Calls, phase[c] # "storing",
         writes' = [writes EXCEPT ![u] = Append(@, c)], phase'[c] = "storing",
         \A d \in Calls : d # c => phase'[d] = phase[d]
  PROVE  WriteChains' /\ writes'[u] = Append(writes[u], c) /\ writes'[u] # <<>>
         /\ \A s \in Scopes : s # u => writes'[s] = writes[s]
<1> DEFINE w == writes[u]
           v == Append(w, c)
<1>1. /\ writes \in [Scopes -> Seq(Calls)] /\ w \in Seq(Calls)
      /\ \A s \in Scopes : \A i \in DOMAIN writes[s] :
             writes[s][i] \in Calls /\ phase[writes[s][i]] = "storing"
  BY DEF WriteChains
<1>2. /\ v \in Seq(Calls) /\ v # <<>> /\ \A i \in DOMAIN w : v[i] = w[i]
      /\ \E n \in Nat : n + 1 \notin DOMAIN w /\ DOMAIN v = DOMAIN w \cup {n + 1} /\ v[n + 1] = c
  BY <1>1, PushBack
<1>3. PICK n \in Nat : n + 1 \notin DOMAIN w /\ DOMAIN v = DOMAIN w \cup {n + 1} /\ v[n + 1] = c
  BY <1>2
<1> HIDE DEF v
<1>4. /\ writes' \in [Scopes -> Seq(Calls)] /\ writes'[u] = v
      /\ \A s \in Scopes : s # u => writes'[s] = writes[s]
  BY <1>1, <1>2 DEF v
<1>5. \A s \in Scopes : \A i \in DOMAIN writes[s] : writes[s][i] # c
  BY <1>1
<1>6. ASSUME NEW s \in Scopes, NEW i \in DOMAIN writes'[s]
      PROVE  /\ \/ i \in DOMAIN writes[s] /\ writes'[s][i] = writes[s][i] /\ writes'[s][i] # c
                \/ s = u /\ i = n + 1 /\ writes'[s][i] = c
             /\ phase'[writes'[s][i]] = "storing"
  <2>1. CASE s = u
    <3>1. i \in DOMAIN w \/ i = n + 1
      BY <1>3, <1>4, <1>6, <2>1
    <3> QED
      BY SMTT(40), <1>1, <1>2, <1>3, <1>4, <1>5, <2>1, <3>1
  <2>2. CASE s # u
    BY SMTT(40), <1>1, <1>4, <1>5, <1>6, <2>2
  <2> QED
    BY <2>1, <2>2
<1>7. ASSUME NEW s \in Scopes, NEW t \in Scopes, NEW i \in DOMAIN writes'[s],
             NEW j \in DOMAIN writes'[t], writes'[s][i] = writes'[t][j]
      PROVE  s = t /\ i = j
  <2>1. /\ \/ i \in DOMAIN writes[s] /\ writes'[s][i] = writes[s][i] /\ writes'[s][i] # c
           \/ s = u /\ i = n + 1 /\ writes'[s][i] = c
        /\ \/ j \in DOMAIN writes[t] /\ writes'[t][j] = writes[t][j] /\ writes'[t][j] # c
           \/ t = u /\ j = n + 1 /\ writes'[t][j] = c
    BY <1>6
  <2> QED
    BY <1>7, <2>1 DEF WriteChains
<1>8. WriteChains'
  BY <1>4, <1>6, <1>7 DEF WriteChains
<1> QED
  BY <1>2, <1>4, <1>8 DEF v

LEMMA WritesPopped ==
  ASSUME WriteChains, NEW u \in Scopes, writes[u] # <<>>,
         writes' = [writes EXCEPT ![u] = Tail(@)],
         \A d \in Calls : d # Head(writes[u]) => phase'[d] = phase[d]
  PROVE  WriteChains' /\ writes'[u] = Tail(writes[u])
         /\ \A s \in Scopes : s # u => writes'[s] = writes[s]
<1> DEFINE w == writes[u]
           v == Tail(w)
<1>1. /\ writes \in [Scopes -> Seq(Calls)] /\ w \in Seq(Calls)
      /\ \A s \in Scopes : \A i \in DOMAIN writes[s] :
             writes[s][i] \in Calls /\ phase[writes[s][i]] = "storing"
  BY DEF WriteChains
<1>2. /\ v \in Seq(Calls) /\ 1 \in DOMAIN w /\ Head(w) = w[1]
      /\ \A i \in DOMAIN v : i + 1 \in DOMAIN w /\ i + 1 > 1 /\ v[i] = w[i + 1]
      /\ DOMAIN v \subseteq Nat
  BY <1>1, PopFront
<1> HIDE DEF v
<1>3. /\ writes' \in [Scopes -> Seq(Calls)] /\ writes'[u] = v
      /\ \A s \in Scopes : s # u => writes'[s] = writes[s]
  BY <1>1, <1>2 DEF v
<1>4. ASSUME NEW s \in Scopes, NEW i \in DOMAIN writes'[s]
      PROVE  \E k \in DOMAIN writes[s] : /\ writes'[s][i] = writes[s][k]
                                         /\ k = IF s = u THEN i + 1 ELSE i
                                         /\ s = u => i \in Nat /\ k # 1
  <2>1. CASE s = u
    <3>1. i \in Nat /\ i + 1 \in DOMAIN w /\ v[i] = w[i + 1]
      BY <1>2, <1>3, <1>4, <2>1
    <3>2. i + 1 # 1
      BY <1>2, <1>3, <1>4, <2>1, <3>1
    <3> QED
      BY <1>3, <2>1, <3>1, <3>2
  <2>2. CASE s # u
    BY <1>3, <1>4, <2>2
  <2> QED
    BY <2>1, <2>2
<1>5. ASSUME NEW s \in Scopes, NEW i \in DOMAIN writes'[s]
      PROVE  phase'[writes'[s][i]] = "storing"
  <2>1. PICK k \in DOMAIN writes[s] : writes'[s][i] = writes[s][k] /\ (s = u => k # 1)
    BY <1>4, <1>5
  <2>2. writes[s][k] # w[1]
    BY <1>2, <2>1 DEF WriteChains
  <2> QED
    BY <1>1, <1>2, <2>1, <2>2
<1>6. ASSUME NEW s \in Scopes, NEW t \in Scopes, NEW i \in DOMAIN writes'[s],
             NEW j \in DOMAIN writes'[t], writes'[s][i] = writes'[t][j]
      PROVE  s = t /\ i = j
  <2>1. PICK k \in DOMAIN writes[s] : /\ writes'[s][i] = writes[s][k]
                                      /\ k = IF s = u THEN i + 1 ELSE i
                                      /\ s = u => i \in Nat
    BY <1>4, <1>6
  <2>2. PICK m \in DOMAIN writes[t] : /\ writes'[t][j] = writes[t][m]
                                      /\ m = IF t = u THEN j + 1 ELSE j
                                      /\ t = u => j \in Nat
    BY <1>4, <1>6
  <2>3. s = t /\ k = m
    BY <1>6, <2>1, <2>2 DEF WriteChains
  <2> QED
    BY <2>1, <2>2, <2>3
<1>7. WriteChains'
  BY <1>3, <1>5, <1>6 DEF WriteChains
<1> QED
  BY <1>3, <1>7 DEF v

\* The answer to a card is stored, or settles the call.
LEMMA TypeDecide ==
  ASSUME TypeInv, NEW c \in Calls, NEW a \in Answers, Decide(c, a)
  PROVE  TypeInv'
<1> DEFINE r == owner[c]
           g == Granted(c, a)
           s == ScopeOf(g)
<1>1. /\ PolicyTypes /\ ManagerTypes /\ CallTypes /\ StoreTypes /\ WriteChains /\ Placed /\ InTurn
      /\ RunnerTypes
  BY DEF TypeInv
<1>2. /\ phase[c] = "carded" /\ r \in Runners /\ key[c] \in Keys /\ turn[r] = "running"
  BY <1>1 DEF Decide, CallTypes, InTurn
<1>3. /\ Remember(r, key[c], g)
      /\ servers' = (IF g = "mcpServer" /\ key[c] \in McpKeys THEN [servers EXCEPT ![r] = TRUE]
                     ELSE servers)
      /\ IF g = "allSession" THEN Escalate(r) ELSE UNCHANGED <<mode, escalated, snapshot>>
      /\ IF g \in {"project", "forever", "denyForever"}
         THEN Persist(c, g) /\ UNCHANGED queue
         ELSE Settle(c, g) /\ UNCHANGED <<rules, writes, verdict>>
      /\ UNCHANGED <<nextMode, control, runner, ephemeral, owner, key, disk, flushing, counters>>
  BY DEF Decide
<1>4. g = "allSession" => session[r] \in Sessions
  <2>1. g = "allSession" => ~Kid(r)
    BY DEF Granted
  <2> QED
    BY <1>1, <1>2, <2>1 DEF Placed
<1>5. s \in Scopes
  BY DEF ScopeOf, Scopes
<1> HIDE DEF g, r, s
<1>6. PolicyTypes' /\ mode' \in [Runners -> Modes]
  <2>1. CASE g = "allSession"
    <3>1. /\ mode' = [mode EXCEPT ![r] = "full"]
          /\ escalated' = escalated \cup {session[r]}
          /\ snapshot' = [snapshot EXCEPT ![session[r]] = IF @ = none THEN none ELSE "full"]
      BY <1>3, <2>1 DEF Escalate
    <3> QED
      BY <1>1, <1>2, <1>3, <1>4, <2>1, <3>1 DEF PolicyTypes, ManagerTypes, Modes
  <2>2. CASE g # "allSession"
    BY <1>1, <1>3, <2>2 DEF PolicyTypes, ManagerTypes
  <2> QED
    BY <2>1, <2>2
<1>7. cache' \in [Runners -> [Keys -> {"none", "allow", "deny"}]]
  <2>1. cache \in [Runners -> [Keys -> {"none", "allow", "deny"}]]
    BY <1>1 DEF ManagerTypes
  <2>2. \/ cache' = cache
        \/ \E x \in {"allow", "deny"} : cache' = [cache EXCEPT ![r][key[c]] = x]
    BY <1>3 DEF Remember
  <2>3. ASSUME NEW x \in {"allow", "deny"}, cache' = [cache EXCEPT ![r][key[c]] = x]
        PROVE  cache' \in [Runners -> [Keys -> {"none", "allow", "deny"}]]
    <3>1. [cache[r] EXCEPT ![key[c]] = x] \in [Keys -> {"none", "allow", "deny"}]
      BY <1>2, <2>1
    <3> QED
      BY <1>2, <2>1, <2>3, <3>1
  <2> QED
    BY <2>1, <2>2, <2>3
<1>8. ManagerTypes'
  <2>1. servers' \in [Runners -> BOOLEAN] /\ ephemeral' = ephemeral
    BY <1>1, <1>2, <1>3 DEF ManagerTypes
  <2> QED
    BY <1>1, <1>6, <1>7, <2>1 DEF ManagerTypes
<1>9. RunnerTypes' /\ Placed'
  BY <1>1, <1>3 DEF RunnerTypes, Placed, Kid, runner
<1>10. CASE g \in {"project", "forever", "denyForever"}
  <2> DEFINE allow == g # "denyForever"
  <2>1. /\ rules' = (rules \ Replaced(s, key[c])) \cup {Stored(s, key[c], allow)}
        /\ writes' = [writes EXCEPT ![s] = Append(@, c)]
        /\ verdict' = [verdict EXCEPT ![c] = IF allow THEN "allow" ELSE "deny"]
        /\ phase' = [phase EXCEPT ![c] = "storing"] /\ queue' = queue
    BY <1>3, <1>10 DEF Persist, s
  <2>2. Stored(s, key[c], allow) \in Rules
    <3>1. allow \in BOOLEAN /\ key[c] \in Patterns /\ Gen[key[c]] \in Patterns
      BY <1>2 DEF Patterns
    <3> HIDE DEF allow
    <3> QED
      BY <1>5, <3>1 DEF Stored, Rules
  <2>3. StoreTypes'
    BY <1>1, <1>3, <2>1, <2>2 DEF StoreTypes, counters
  <2>4. WriteChains'
    <3>1. phase'[c] = "storing" /\ \A d \in Calls : d # c => phase'[d] = phase[d]
      BY <1>1, <2>1 DEF CallTypes
    <3> QED
      BY <1>1, <1>2, <1>5, <2>1, <3>1, WritesPushed
  <2>5. verdict' \in [Calls -> {"allow", "deny"}]
    BY <1>1, <2>1 DEF CallTypes
  <2>6. CallTypes' /\ queue' \in [Runners -> Seq(Calls)] /\ Chains' /\ InTurn'
    BY <1>2, <1>3, <2>1, <2>5, TypeOneCall DEF Phases, Waiting, runner
  <2> QED
    BY <1>6, <1>8, <1>9, <2>3, <2>4, <2>6 DEF TypeInv
<1>11. CASE g \notin {"project", "forever", "denyForever"}
  <2>1. PICK p \in {"ended", "running"} :
            /\ phase' = [phase EXCEPT ![c] = p] /\ queue' = Dropped({c})
            /\ UNCHANGED <<rules, writes, verdict>>
    BY <1>3, <1>11 DEF Settle
  <2>2. StoreTypes' /\ verdict' \in [Calls -> {"allow", "deny"}]
    BY <1>1, <1>3, <2>1 DEF StoreTypes, counters, CallTypes
  <2>3. WriteChains'
    <3>1. \A d \in Calls : phase[d] = "storing" => phase'[d] = "storing"
      BY <1>1, <1>2, <2>1 DEF CallTypes
    <3> QED
      BY <1>1, <2>1, <3>1, WritesKept
  <2>4. CallTypes' /\ queue' \in [Runners -> Seq(Calls)] /\ Chains' /\ InTurn'
    <3>1. /\ p \in Phases \ {"unused"} /\ p \notin Waiting /\ phase[c] \in Waiting
          /\ phase[c] \in Phases \ {"unused", "storing"} /\ p # "carded"
          /\ phase[c] # "queued" /\ phase[c] # "ended"
      BY <1>2, <2>1 DEF Phases, Waiting
    <3>2. UNCHANGED <<turn, owner, key>>
      BY <1>3 DEF runner
    <3> QED
      BY <2>1, <2>2, <3>1, <3>2, TypeOneCall
  <2> QED
    BY <1>6, <1>8, <1>9, <2>2, <2>3, <2>4 DEF TypeInv
<1> QED
  BY <1>10, <1>11

\* A write is over: its call is settled.
LEMMA TypeFlushWrite ==
  ASSUME TypeInv, Flushes, NEW s \in Scopes, FlushWrite(s)
  PROVE  TypeInv'
<1> DEFINE c == Head(writes[s])
<1>1. /\ CallTypes /\ StoreTypes /\ WriteChains /\ Chains /\ InTurn
      /\ queue \in [Runners -> Seq(Calls)]
  BY DEF TypeInv
<1>2. writes[s] # <<>>
  BY DEF FlushWrite, Flushes
<1>3. c \in Calls /\ phase[c] = "storing"
  <2>1. writes[s] \in Seq(Calls)
    BY <1>1 DEF WriteChains
  <2>2. 1 \in DOMAIN writes[s] /\ c = writes[s][1] /\ c \in Calls
    BY <1>2, <2>1, PopFront
  <2> QED
    BY <1>1, <2>2 DEF WriteChains
<1>4. /\ writes' = [writes EXCEPT ![s] = Tail(@)] /\ queue' = Dropped({c})
      /\ phase' = [phase EXCEPT ![c] = IF verdict[c] = "deny" THEN "ended" ELSE "running"]
      /\ UNCHANGED <<policy, runner, mode, cache, servers, ephemeral, owner, key, verdict, rules>>
  BY DEF FlushWrite, Return, Settle
<1>5. StoreTypes'
  BY <1>1, <1>4 DEF FlushWrite, StoreTypes, Flushes
<1> HIDE DEF c
<1>6. /\ phase' \in [Calls -> Phases] /\ phase'[c] \in {"ended", "running"}
      /\ \A d \in Calls : d # c => phase'[d] = phase[d]
  BY <1>1, <1>3, <1>4 DEF CallTypes, Phases
<1>7. WriteChains'
  BY <1>1, <1>2, <1>4, <1>6, WritesPopped DEF c
<1>8. CallTypes'
  BY <1>1, <1>3, <1>4, <1>6 DEF CallTypes
<1>9. InTurn'
  BY <1>1, <1>3, <1>4, <1>6 DEF InTurn, runner
<1>10. queue' \in [Runners -> Seq(Calls)] /\ Chains'
  <2>1. owner[c] \in Runners
    BY <1>1, <1>3 DEF CallTypes
  <2>2. queue[owner[c]] # <<>> /\ Head(queue[owner[c]]) = c
    BY <1>1, <1>3, <2>1, FirstOnly DEF Waiting
  <2>3. /\ {c} \in SUBSET Calls /\ \A d \in {c} : phase'[d] \notin Waiting
        /\ \A d \in Calls \ {c} : phase'[d] = phase[d]
    BY <1>3, <1>6 DEF Waiting
  <2> QED
    BY <1>1, <1>4, <2>1, <2>2, <2>3, ChainsDropped
<1>11. PolicyTypes' /\ RunnerTypes' /\ ManagerTypes' /\ Placed'
  BY <1>4 DEF TypeInv, PolicyTypes, RunnerTypes, ManagerTypes, Placed, Kid, policy, runner
<1> QED
  BY <1>5, <1>7, <1>8, <1>9, <1>10, <1>11 DEF TypeInv

LEMMA TypeInterruptTurn ==
  ASSUME TypeInv, NEW r \in Runners, InterruptTurn(r)
  PROVE  TypeInv'
<1>1. /\ Interrupt(r)
      /\ UNCHANGED <<policy, status, session, parent, mode, cache, servers, ephemeral, owner, key,
                     verdict, store, counters>>
  BY DEF InterruptTurn
<1>2. /\ turn' \in [Runners -> {"none", "running", "aborted"}]
      /\ \A x \in Runners : turn'[x] # "none" => turn[x] # "none"
      /\ CallTypes' /\ queue' \in [Runners -> Seq(Calls)] /\ Chains' /\ WriteChains' /\ InTurn'
  BY <1>1, Interrupted DEF store
<1>3. PolicyTypes' /\ RunnerTypes' /\ ManagerTypes' /\ StoreTypes' /\ Placed'
  BY <1>1, <1>2 DEF TypeInv, PolicyTypes, RunnerTypes, ManagerTypes, StoreTypes, Placed, Kid, policy,
     store, counters
<1> QED
  BY <1>2, <1>3 DEF TypeInv

LEMMA StepTypes ==
  ASSUME TypeInv, Flushes, [Next]_vars
  PROVE  TypeInv'
<1>1. ModeChoices \subseteq Modes
  BY ApprovalsAssumption DEF ApprovalsAssumption, Modes
<1>2. CASE Work
  BY <1>2, TypeRunners, TypeGoesOn, TypeAsides, TypeFlushWrite DEF Work
<1>3. CASE User
  BY <1>1, <1>3, TypeBeginRunner, TypeRunners, TypeInterruptTurn, TypeAsides, TypeDecide DEF User
<1>4. CASE Model
  BY <1>4, TypeRequest, TypeRunners DEF Model
<1>5. CASE UNCHANGED vars
  BY <1>5, TypeAsides
<1> QED
  BY <1>2, <1>3, <1>4, <1>5 DEF Next

-----------------------------------------------------------------------------
(* The stored rules *)

\* While no write failed: where none is chained the file is up to date, and a document that
\* no later one follows is.
UpToDate ==
    faults = 0 =>
        \A s \in Scopes :
            /\ writes[s] = <<>> => OfScope(disk, s) = OfScope(rules, s)
            /\ flushing[s] # none /\ Tail(writes[s]) = <<>> => flushing[s] = OfScope(rules, s)

\* The steps that leave the store alone.
Elsewhere ==
    \/ \E r \in Runners : \/ InstallRunner(r) \/ EndTurn(r) \/ StartTurn(r) \/ InterruptTurn(r)
                          \/ EndSession(r) \/ (\E s \in Sessions : BeginRunner(r, s))
                          \/ (\E p \in Runners : StartChild(r, p))
    \/ \E c \in Calls : \/ TakeUp(c) \/ Asked(c) \/ Expire(c) \/ Finish(c)
                        \/ (\E r \in Runners, k \in Keys : Request(c, r, k))
    \/ (\E m \in ModeChoices : SetMode(m)) \/ (\E k \in Keys : Grant(k))
    \/ UNCHANGED vars

LEMMA ElsewhereKeeps ==
  ASSUME Elsewhere, faults \in Nat
  PROVE  UNCHANGED <<rules, disk, writes, flushing>> /\ (faults' = 0 => faults = 0)
<1>1. CASE \E r \in Runners : \/ InstallRunner(r) \/ EndTurn(r) \/ StartTurn(r) \/ InterruptTurn(r)
                              \/ EndSession(r)
  BY <1>1 DEF InstallRunner, EndTurn, StartTurn, InterruptTurn, EndSession, store, counters
<1>2. CASE \E r \in Runners : \/ (\E s \in Sessions : BeginRunner(r, s))
                              \/ (\E p \in Runners : StartChild(r, p))
  BY <1>2 DEF BeginRunner, StartChild, store, counters
<1>3. CASE \E c \in Calls : TakeUp(c) \/ Expire(c) \/ Finish(c)
  BY <1>3 DEF TakeUp, Expire, Finish, store, counters
<1>5. CASE \E c \in Calls : Asked(c)
  BY <1>5 DEF Asked, store
<1>6. CASE \E c \in Calls, r \in Runners, k \in Keys : Request(c, r, k)
  BY <1>6 DEF Request, store, counters
<1>4. CASE (\E m \in ModeChoices : SetMode(m)) \/ (\E k \in Keys : Grant(k)) \/ UNCHANGED vars
  BY <1>4 DEF SetMode, Grant, vars, store, counters
<1> QED
  BY <1>1, <1>2, <1>3, <1>4, <1>5, <1>6 DEF Elsewhere

LEMMA TwoOrMore ==
  ASSUME NEW S, NEW w \in Seq(S), NEW x \in S, w # <<>>
  PROVE  Tail(Append(w, x)) # <<>>
<1>1. Len(w) \in Nat /\ Len(w) # 0
  OBVIOUS
<1>2. Append(w, x) \in Seq(S) /\ Len(Append(w, x)) = Len(w) + 1
  OBVIOUS
<1>3. Len(Tail(Append(w, x))) = Len(w)
  BY <1>1, <1>2
<1> QED
  BY <1>1, <1>3

LEMMA StoreStep ==
  ASSUME TypeInv, Flushes, UpToDate, [Next]_vars
  PROVE  Flushes' /\ UpToDate'
<1>1. /\ WriteChains /\ CallTypes /\ StoreTypes
  BY DEF TypeInv
<1>2. CASE Elsewhere
  BY <1>1, <1>2, ElsewhereKeeps DEF Flushes, UpToDate, StoreTypes
<1>3. ASSUME NEW s \in Scopes, FlushProbe(s) PROVE Flushes' /\ UpToDate'
  <2>1. /\ writes[s] # <<>> /\ flushing' = [flushing EXCEPT ![s] = OfScope(rules, s)]
        /\ UNCHANGED <<rules, disk, writes, faults>>
    BY <1>3 DEF FlushProbe, counters
  <2>2. OfScope(rules, s) \in SUBSET Rules /\ \A rule \in OfScope(rules, s) : rule.scope = s
    BY <1>1 DEF OfScope, StoreTypes
  <2>3. /\ flushing' \in [Scopes -> (SUBSET Rules) \cup {none}]
        /\ flushing'[s] = OfScope(rules, s)
        /\ \A u \in Scopes : u # s => flushing'[u] = flushing[u]
    BY <2>1, <2>2 DEF Flushes
  <2> QED
    BY <2>1, <2>2, <2>3 DEF Flushes, UpToDate
<1>4. ASSUME NEW s \in Scopes, FlushWrite(s) PROVE Flushes' /\ UpToDate'
  <2>1. writes[s] # <<>>
    BY <1>4 DEF FlushWrite, Flushes
  <2>2. /\ writes'[s] = Tail(writes[s]) /\ \A u \in Scopes : u # s => writes'[u] = writes[u]
    BY <1>1, <1>4 DEF FlushWrite, Return, WriteChains
  <2>3. /\ flushing' \in [Scopes -> (SUBSET Rules) \cup {none}] /\ flushing'[s] = none
        /\ \A u \in Scopes : u # s => flushing'[u] = flushing[u]
        /\ rules' = rules
    BY <1>4 DEF FlushWrite, Return, Flushes
  <2>4. Flushes'
    BY <2>2, <2>3 DEF Flushes
  <2>5. SUFFICES ASSUME faults' = 0 PROVE UpToDate'
    BY <2>4 DEF UpToDate
  <2>6. /\ flushing[s] # none /\ faults = 0
        /\ disk' = (disk \ OfScope(disk, s)) \cup flushing[s]
    BY <1>1, <1>4, <2>5 DEF FlushWrite, StoreTypes
  <2>7. \A rule \in flushing[s] : rule.scope = s
    BY <2>6 DEF Flushes
  <2>8. OfScope(disk', s) = flushing[s] /\ \A u \in Scopes : u # s => OfScope(disk', u) = OfScope(disk, u)
    BY <2>6, <2>7 DEF OfScope
  <2>9. writes'[s] = <<>> => flushing[s] = OfScope(rules, s)
    BY <2>2, <2>6 DEF UpToDate
  <2> QED
    BY <2>2, <2>3, <2>6, <2>8, <2>9 DEF UpToDate
<1>5. ASSUME NEW c \in Calls, NEW a \in Answers, Decide(c, a) PROVE Flushes' /\ UpToDate'
  <2> DEFINE g == Granted(c, a)
             u == ScopeOf(g)
             new == Stored(u, key[c], g # "denyForever")
  <2>1. UNCHANGED <<disk, flushing, faults>> /\ phase[c] = "carded"
    BY <1>5 DEF Decide, counters
  <2>2. CASE g \notin {"project", "forever", "denyForever"}
    <3>1. UNCHANGED <<rules, writes>>
      BY <1>5, <2>2 DEF Decide
    <3> QED
      BY <2>1, <3>1 DEF Flushes, UpToDate
  <2>3. CASE g \in {"project", "forever", "denyForever"}
    <3>1. /\ rules' = (rules \ Replaced(u, key[c])) \cup {new}
          /\ writes' = [writes EXCEPT ![u] = Append(@, c)]
          /\ phase' = [phase EXCEPT ![c] = "storing"]
      BY <1>5, <2>3 DEF Decide, Persist
    <3>2. u \in Scopes /\ new.scope = u
      BY DEF ScopeOf, Scopes, Stored
    <3>3. \A rule \in Replaced(u, key[c]) : rule.scope = u
      BY DEF Replaced
    <3> HIDE DEF u, g, new
    <3>4. \A s \in Scopes : s # u => OfScope(rules', s) = OfScope(rules, s)
      BY <3>1, <3>2, <3>3 DEF OfScope
    <3>5. /\ writes'[u] = Append(writes[u], c) /\ writes'[u] # <<>>
          /\ \A s \in Scopes : s # u => writes'[s] = writes[s]
      <4>1. phase'[c] = "storing" /\ \A d \in Calls : d # c => phase'[d] = phase[d]
        BY <1>1, <3>1 DEF CallTypes
      <4> QED
        BY <1>1, <2>1, <3>1, <3>2, <4>1, WritesPushed
    <3>6. writes[u] # <<>> => Tail(writes'[u]) # <<>>
      <4>1. writes[u] \in Seq(Calls)
        BY <1>1, <3>2 DEF WriteChains
      <4> QED
        BY <3>5, <4>1, TwoOrMore
    <3> QED
      BY <2>1, <3>2, <3>4, <3>5, <3>6 DEF Flushes, UpToDate
  <2> QED
    BY <2>2, <2>3
<1> QED
  BY <1>2, <1>3, <1>4, <1>5 DEF Next, Work, User, Model, Elsewhere

-----------------------------------------------------------------------------
(* The theorems *)

IInv == TypeInv /\ Flushes /\ UpToDate

LEMMA InitInv == Init => IInv
<1> SUFFICES ASSUME Init PROVE IInv
  OBVIOUS
<1>1. /\ none \notin Runners /\ none \notin Sessions /\ LoadedDenies \subseteq Keys
  BY ApprovalsAssumption DEF ApprovalsAssumption
<1>2. rules \subseteq Rules /\ disk = rules
  <2>1. \A k \in LoadedDenies : Denied("project", k) \in Rules
    BY <1>1 DEF Denied, Rules, Scopes, Patterns
  <2> QED
    BY <2>1 DEF Init
<1>3. PolicyTypes /\ RunnerTypes /\ ManagerTypes
  BY DEF Init, PolicyTypes, RunnerTypes, ManagerTypes, Modes
<1>4. CallTypes
  BY DEF Init, CallTypes, Phases
<1>5. StoreTypes /\ Flushes
  BY <1>2 DEF Init, StoreTypes, Flushes
<1>6. queue \in [Runners -> Seq(Calls)] /\ Chains
  BY DEF Init, Chains, Chain, Waiting
<1>7. WriteChains
  BY DEF Init, WriteChains
<1>8. Placed
  BY DEF Init, Placed, Kid
<1>9. InTurn
  BY DEF Init, InTurn
<1>10. UpToDate
  BY <1>2 DEF Init, UpToDate
<1> QED
  BY <1>3, <1>4, <1>5, <1>6, <1>7, <1>8, <1>9, <1>10 DEF IInv, TypeInv

LEMMA InductiveInv == Spec => []IInv
<1>1. Init => IInv
  BY InitInv
<1>2. IInv /\ [Next]_vars => IInv'
  BY StepTypes, StoreStep DEF IInv
<1> QED
  BY <1>1, <1>2, PTL DEF Spec

\* The types of the variables; and a chain holds exactly the requests of its manager that
\* wait, a chained write always one of a call that is being stored.
THEOREM TypeCorrect == Spec => []TypeOK
<1>1. IInv => TypeOK
  <2> SUFFICES ASSUME IInv PROVE TypeOK
    OBVIOUS
  <2>1. TypeInv
    BY DEF IInv
  <2>2. ASSUME NEW r \in Runners
        PROVE  ToSet(queue[r]) = {c \in CallsOf({r}) : phase[c] \in Waiting}
    <3>1. Chain(r)
      BY <2>1 DEF TypeInv, Chains
    <3>2. \A i \in DOMAIN queue[r] : queue[r][i] \in Calls
      BY <3>1 DEF Chain
    <3> QED
      BY <3>1, <3>2 DEF Chain, ToSet, CallsOf
  <2>3. ASSUME NEW s \in Scopes
        PROVE  ToSet(writes[s]) \subseteq {c \in Calls : phase[c] = "storing"}
    <3>1. \A i \in DOMAIN writes[s] : writes[s][i] \in Calls /\ phase[writes[s][i]] = "storing"
      BY <2>1 DEF TypeInv, WriteChains
    <3> QED
      BY <3>1 DEF ToSet
  <2> QED
    BY <2>1, <2>2, <2>3 DEF TypeOK, TypeInv, PolicyTypes, RunnerTypes, ManagerTypes, CallTypes,
       StoreTypes, Phases
<1> QED
  BY <1>1, InductiveInv, PTL

\* No card of an interrupted turn is ever displayed, and a manager is busy with one request at
\* most, however turns, children, interrupts and answers interleave.
THEOREM CardsOfRunningTurns == Spec => []NoZombieCard
<1>1. IInv => NoZombieCard
  <2> SUFFICES ASSUME IInv, NEW c \in Calls, NEW d \in Calls
               PROVE  /\ phase[c] = "carded" => turn[owner[c]] = "running"
                      /\ (phase[c] \in Waiting \ {"queued"} /\ phase[d] \in Waiting \ {"queued"}
                             /\ owner[c] = owner[d]) => c = d
    BY DEF NoZombieCard
  <2>1. Chains /\ InTurn /\ CallTypes
    BY DEF IInv, TypeInv
  <2>2. ASSUME phase[c] \in Waiting \ {"queued"}, phase[d] \in Waiting \ {"queued"},
               owner[c] = owner[d]
        PROVE  c = d
    <3>1. owner[c] \in Runners
      BY <2>1, <2>2 DEF CallTypes, Waiting
    <3>2. Head(queue[owner[c]]) = c /\ Head(queue[owner[d]]) = d
      BY <2>1, <2>2, <3>1, FirstOnly
    <3> QED
      BY <2>2, <3>2
  <2> QED
    BY <2>1, <2>2 DEF InTurn
<1> QED
  BY <1>1, InductiveInv, PTL

\* However the answers of several sessions interleave with the writes, the files hold the rules
\* in memory once every chained write is over, unless one failed.
THEOREM RulesReachDisk == Spec => []DiskFollows
<1>1. IInv => DiskFollows
  <2> SUFFICES ASSUME IInv, \A s \in Scopes : writes[s] = <<>>, faults = 0 PROVE disk = rules
    BY DEF DiskFollows
  <2>1. \A s \in Scopes : OfScope(disk, s) = OfScope(rules, s)
    BY DEF IInv, UpToDate
  <2>2. \A rule \in disk \cup rules : rule.scope \in Scopes
    BY DEF IInv, TypeInv, StoreTypes, Rules
  <2> QED
    BY <2>1, <2>2 DEF OfScope
<1> QED
  BY <1>1, InductiveInv, PTL

-----------------------------------------------------------------------------
(* Escalated sessions *)

\* The frozen mode of an escalated session, if it has one, is the escalated one.
EscalatedFull == \A s \in escalated : snapshot[s] \in {none, "full"}

LEMMA EscalatedKept ==
  ASSUME TypeInv, EscalatedFull, [Next]_vars
  PROVE  EscalatedFull'
<1>1. PolicyTypes /\ RunnerTypes /\ Placed /\ CallTypes
  BY DEF TypeInv
<1>2. snapshot \in [Sessions -> Modes \cup {none}] /\ escalated \subseteq Sessions
  BY <1>1 DEF PolicyTypes
<1>3. CASE \E r \in Runners, s \in Sessions : BeginRunner(r, s)
  <2>1. PICK r \in Runners, s \in Sessions : BeginRunner(r, s)
    BY <1>3
  <2>2. /\ escalated' = escalated
        /\ snapshot' = [snapshot EXCEPT ![s] = FrozenMode(s)]
    BY <2>1 DEF BeginRunner
  <2>3. s \in escalated => FrozenMode(s) = "full"
    BY DEF FrozenMode, EscalatedFull
  <2> QED
    BY <1>2, <2>2, <2>3 DEF EscalatedFull
<1>4. CASE \E c \in Calls, a \in Answers : Decide(c, a)
  <2>1. PICK c \in Calls, a \in Answers : Decide(c, a)
    BY <1>4
  <2>2. CASE Granted(c, a) = "allSession"
    <3>1. owner[c] \in Runners /\ turn[owner[c]] = "running"
      BY <2>1 DEF Decide, TypeInv, CallTypes, InTurn
    <3>2. ~Kid(owner[c])
      BY <2>2 DEF Granted
    <3>3. session[owner[c]] \in Sessions
      BY <1>1, <3>1, <3>2 DEF Placed
    <3>4. Escalate(owner[c])
      BY <2>1, <2>2 DEF Decide
    <3> QED
      BY <1>2, <3>3, <3>4 DEF Escalate, EscalatedFull
  <2>3. CASE UNCHANGED <<mode, escalated, snapshot>>
    BY <2>3 DEF EscalatedFull
  <2> QED
    BY <2>1, <2>2, <2>3 DEF Decide
<1>5. CASE \E r \in Runners : EndSession(r)
  <2>1. PICK r \in Runners : EndSession(r)
    BY <1>5
  <2>2. /\ escalated' = escalated
        /\ snapshot' = [snapshot EXCEPT ![session[r]] = none]
    BY <2>1 DEF EndSession
  <2> QED
    BY <1>2, <2>2 DEF EscalatedFull
<1>6. CASE \E m \in ModeChoices : SetMode(m)
  BY <1>6 DEF SetMode, EscalatedFull
<1>7. CASE \E r \in Runners : InstallRunner(r) \/ EndTurn(r) \/ StartTurn(r) \/ InterruptTurn(r)
  BY <1>7 DEF InstallRunner, EndTurn, StartTurn, InterruptTurn, policy, EscalatedFull
<1>8. CASE \E c \in Calls : TakeUp(c) \/ Asked(c) \/ Expire(c) \/ Finish(c)
  BY <1>8 DEF TakeUp, Asked, Expire, Finish, policy, EscalatedFull
<1>9. CASE \E s \in Scopes : FlushProbe(s) \/ FlushWrite(s)
  BY <1>9 DEF FlushProbe, FlushWrite, policy, EscalatedFull
<1>10. CASE (\E k \in Keys : Grant(k)) \/ UNCHANGED vars
  BY <1>10 DEF Grant, vars, policy, EscalatedFull
<1>11. CASE Model
  BY ZenonT(60), <1>11 DEF Model, Request, StartChild, policy, EscalatedFull
<1> QED
  BY <1>3, <1>4, <1>5, <1>6, <1>7, <1>8, <1>9, <1>10, <1>11 DEF Next, Work, User

\* No step but the start of a runner makes an unused one "creating".
LEMMA OnlyBeginCreates ==
  ASSUME TypeInv, [Next]_vars, NEW r \in Runners, status[r] = "unused", status'[r] = "creating"
  PROVE  \E s \in Sessions : BeginRunner(r, s)
<1>1. status \in [Runners -> {"unused", "creating", "ready", "replaced"}]
  BY DEF TypeInv, RunnerTypes
<1>2. CASE \E x \in Runners, s \in Sessions : BeginRunner(x, s)
  <2>1. PICK x \in Runners, s \in Sessions : BeginRunner(x, s)
    BY <1>2
  <2>2. status' = [status EXCEPT ![x] = "creating"]
    BY <2>1 DEF BeginRunner
  <2>3. x = r
    BY <1>1, <2>2
  <2> QED
    BY <2>1, <2>3
<1>3. CASE \E x \in Runners : InstallRunner(x)
  BY <1>1, <1>3 DEF InstallRunner
<1>4. CASE \E x \in Runners : EndTurn(x)
  BY <1>1, <1>4 DEF EndTurn
<1>5. CASE \E x \in Runners : EndSession(x)
  BY <1>1, <1>5 DEF EndSession
<1>6. CASE \E x, p \in Runners : StartChild(x, p)
  BY <1>1, <1>6 DEF StartChild
<1>7. CASE \E x \in Runners : StartTurn(x) \/ InterruptTurn(x)
  BY <1>7 DEF StartTurn, InterruptTurn
<1>8. CASE \E c \in Calls : TakeUp(c) \/ Asked(c) \/ Expire(c) \/ Finish(c)
  BY <1>8 DEF TakeUp, Asked, Expire, Finish, runner
<1>9. CASE \E s \in Scopes : FlushProbe(s) \/ FlushWrite(s)
  BY <1>9 DEF FlushProbe, FlushWrite, runner
<1>10. CASE \E c \in Calls, a \in Answers : Decide(c, a)
  BY <1>10 DEF Decide, runner
<1>11. CASE \E c \in Calls, x \in Runners, k \in Keys : Request(c, x, k)
  BY <1>11 DEF Request, runner
<1>12. CASE (\E m \in ModeChoices : SetMode(m)) \/ (\E k \in Keys : Grant(k)) \/ UNCHANGED vars
  BY <1>12 DEF SetMode, Grant, vars, runner
<1> QED
  BY <1>2, <1>3, <1>4, <1>5, <1>6, <1>7, <1>8, <1>9, <1>10, <1>11, <1>12
     DEF Next, Work, User, Model

\* Every chain that a later start or resume builds for a session with full access has it too,
\* whatever was ended, replaced or restarted in between, until /mode is used.
THEOREM FullAccessStays == Spec => EscalationHolds
<1>1. Init => EscalatedFull
  BY DEF Init, EscalatedFull
<1>2. IInv /\ EscalatedFull /\ [Next]_vars => EscalatedFull'
  BY EscalatedKept DEF IInv
<1>3. IInv /\ EscalatedFull /\ [Next]_vars =>
          [\A r \in Runners :
              status[r] = "unused" /\ status'[r] = "creating" /\ session'[r] \in escalated
                  => mode'[r] = "full"]_vars
  <2> SUFFICES ASSUME IInv, EscalatedFull, [Next]_vars, NEW r \in Runners, status[r] = "unused",
                      status'[r] = "creating", session'[r] \in escalated
               PROVE  mode'[r] = "full"
    OBVIOUS
  <2>1. TypeInv
    BY DEF IInv
  <2>2. PICK s \in Sessions : BeginRunner(r, s)
    BY <2>1, OnlyBeginCreates
  <2>3. session \in [Runners -> Sessions \cup {none}] /\ mode \in [Runners -> Modes]
    BY <2>1 DEF TypeInv, RunnerTypes, ManagerTypes
  <2>4. session'[r] = s /\ mode'[r] = FrozenMode(s)
    BY <2>2, <2>3 DEF BeginRunner
  <2> QED
    BY <2>4 DEF FrozenMode, EscalatedFull
<1> QED
  BY <1>1, <1>2, <1>3, InductiveInv, PTL DEF Spec, EscalationHolds

=============================================================================
