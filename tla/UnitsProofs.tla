----------------------------- MODULE UnitsProofs ----------------------------
(***************************************************************************)
(* Theorems about Connection, for every set of targets and every bound,    *)
(* and about RenderUnits, for any number of shards and every bound.        *)
(***************************************************************************)
EXTENDS RenderUnits, FiniteSetTheorems, SequenceTheorems, TLAPS

-----------------------------------------------------------------------------
(* The connection.                                                         *)


(* Sockets that do not exist yet are in no state at all, and only members  *)
(* of the open socket are still to be told that it opened.                 *)
SocketsInOrder == \A s \in Sockets : s > opened => ready[s] = "none"

IInv ==
    /\ TypeOK
    /\ SocketsInOrder
    /\ RunMapsAgree
    /\ RunsNeedTheSocket
    /\ OneSocket
    /\ MembersAreServed
    /\ IdleConnectionCloses

-----------------------------------------------------------------------------
(* What the helpers do to the run maps. *)

(* The shape of the two maps, apart from the other variables. *)
MapsOK(ids, map, n) ==
    /\ ids \in [Targets -> 0..n]
    /\ map \in [DOMAIN map -> Targets] /\ DOMAIN map \in SUBSET (1..n)
    /\ \A t \in Targets, r \in 1..n : ids[t] = r <=> (r \in DOMAIN map /\ map[r] = t)

LEMMA MapsFromInv ==
    ASSUME TypeOK, RunMapsAgree PROVE MapsOK(runIds, runs, lastRun)
BY DEF TypeOK, RunMapsAgree, MapsOK

(* A new run takes the place of the previous one in both maps. *)
LEMMA StartKeepsMaps ==
    ASSUME TypeOK, RunMapsAgree, NEW t \in Targets, StartRun(t)
    PROVE  MapsOK(runIds', runs', lastRun') /\ thrown' \in SUBSET DOMAIN runs'
<1> DEFINE new == lastRun + 1
<1>1. lastRun \in Nat /\ new \in Nat /\ lastRun' = new
    BY DEF TypeOK, StartRun, ClaimRun, NextRun
<1>2. runIds' = [runIds EXCEPT ![t] = new] /\ runIds \in [Targets -> 0..lastRun]
    BY DEF TypeOK, StartRun, ClaimRun, NextRun
<1>3. runs \in [DOMAIN runs -> Targets] /\ DOMAIN runs \in SUBSET (1..lastRun)
    BY DEF TypeOK
<1>4. DOMAIN runs' = (DOMAIN runs \ {runIds[t]}) \cup {new}
    BY DEF StartRun, ClaimRun, NextRun, RunsWithout
<1>5. \A r \in DOMAIN runs' : runs'[r] = IF r = new THEN t ELSE runs[r]
    BY DEF StartRun, ClaimRun, NextRun, RunsWithout
<1>6. runs' = [r \in DOMAIN runs' |-> runs'[r]]
    BY DEF StartRun, ClaimRun, NextRun, RunsWithout
<1>7. runIds' \in [Targets -> 0..new]
    BY <1>1, <1>2
<1>8. runs' \in [DOMAIN runs' -> Targets]
    BY <1>3, <1>4, <1>5, <1>6
<1>9. DOMAIN runs' \in SUBSET (1..new)
    BY <1>1, <1>3, <1>4
<1>10. ASSUME NEW u \in Targets, NEW r \in 1..new
       PROVE  runIds'[u] = r <=> (r \in DOMAIN runs' /\ runs'[r] = u)
  <2>1. CASE r = new
    BY <1>1, <1>2, <1>4, <1>5, <2>1
  <2>2. CASE r # new
    <3>1. r \in 1..lastRun
        BY <1>1, <2>2
    <3>2. \A v \in Targets : runIds[v] = r <=> (r \in DOMAIN runs /\ runs[r] = v)
        BY <3>1 DEF RunMapsAgree
    <3>3. r \in DOMAIN runs' <=> r \in DOMAIN runs /\ r # runIds[t]
        BY <1>4, <2>2
    <3>4. CASE u = t
        BY <1>2, <1>5, <2>2, <3>2, <3>3, <3>4
    <3>5. CASE u # t
        BY <1>2, <1>5, <2>2, <3>2, <3>3, <3>5
    <3>6. QED BY <3>4, <3>5
  <2>3. QED BY <2>1, <2>2
<1>11. thrown' \in SUBSET DOMAIN runs'
  <2>1. thrown' = thrown \ {runIds[t]} \/ thrown' = (thrown \ {runIds[t]}) \cup {new}
    BY DEF StartRun, SendRun, RequestThrows, NextRun
  <2>2. thrown \in SUBSET DOMAIN runs
    BY DEF TypeOK
  <2>3. QED BY <1>4, <2>1, <2>2
<1>12. QED BY <1>1, <1>7, <1>8, <1>9, <1>10, <1>11 DEF MapsOK

(* Stopping a run removes it from both maps. *)
LEMMA StopKeepsMaps ==
    ASSUME TypeOK, RunMapsAgree, NEW t \in Targets, StopRun(t)
    PROVE  MapsOK(runIds', runs', lastRun) /\ thrown' \in SUBSET DOMAIN runs'
<1>1. lastRun \in Nat /\ runIds \in [Targets -> 0..lastRun]
    BY DEF TypeOK
<1>2. runs \in [DOMAIN runs -> Targets] /\ DOMAIN runs \in SUBSET (1..lastRun)
    BY DEF TypeOK
<1>3. runIds' = [runIds EXCEPT ![t] = 0]
    BY DEF StopRun, NoRun
<1>4. /\ DOMAIN runs' = DOMAIN runs \ {runIds[t]}
      /\ \A r \in DOMAIN runs' : runs'[r] = runs[r]
      /\ runs' = [r \in DOMAIN runs' |-> runs'[r]]
    BY DEF StopRun, RunsWithout
<1>5. runIds' \in [Targets -> 0..lastRun]
    BY <1>1, <1>3
<1>6. runs' \in [DOMAIN runs' -> Targets] /\ DOMAIN runs' \in SUBSET (1..lastRun)
    BY <1>2, <1>4
<1>7. ASSUME NEW u \in Targets, NEW r \in 1..lastRun
      PROVE  runIds'[u] = r <=> (r \in DOMAIN runs' /\ runs'[r] = u)
  <2>1. \A v \in Targets : runIds[v] = r <=> (r \in DOMAIN runs /\ runs[r] = v)
    BY <1>1 DEF RunMapsAgree
  <2>2. CASE u = t
    BY <1>1, <1>3, <1>4, <2>1, <2>2
  <2>3. CASE u # t
    BY <1>1, <1>3, <1>4, <2>1, <2>3
  <2>4. QED BY <2>2, <2>3
<1>8. thrown' \in SUBSET DOMAIN runs'
    BY <1>4 DEF StopRun, TypeOK
<1>9. QED BY <1>5, <1>6, <1>7, <1>8 DEF MapsOK

(* Forgetting every run empties both maps. *)
LEMMA ForgetKeepsMaps ==
    ASSUME TypeOK, ForgetRuns
    PROVE  MapsOK(runIds', runs', lastRun) /\ DOMAIN runs' = {} /\ thrown' = {}
BY DEF TypeOK, ForgetRuns, MapsOK, NoRun

(* The messages of stop() and run() are messages. *)
LEMMA SentMessages ==
    ASSUME TypeOK, NEW t \in Targets
    PROVE  /\ StopMessages(t) \in Seq(Messages)
           /\ <<RunMessage(lastRun + 1)>> \in Seq(Messages)
<1>1. lastRun \in Nat /\ runIds[t] \in Nat
    BY DEF TypeOK
<1>2. StopMessage(runIds[t]) \in Messages /\ RunMessage(lastRun + 1) \in Messages
    BY <1>1 DEF StopMessage, RunMessage, Messages
<1>3. QED BY <1>2 DEF StopMessages

-----------------------------------------------------------------------------
(* The invariant holds initially. *)
LEMMA InitInv == Init => IInv
<1> SUFFICES ASSUME Init PROVE IInv
    OBVIOUS
<1>1. TypeOK
  <2>1. runIds \in [Targets -> 0..lastRun] /\ shown \in [Targets -> 0..lastRun]
    BY DEF Init, NoRun
  <2>2. runs \in [DOMAIN runs -> Targets] /\ DOMAIN runs \in SUBSET (1..lastRun)
    BY DEF Init
  <2>3. ready \in [Sockets -> ReadyStates]
    BY DEF Init, ReadyStates
  <2>4. /\ toServer \in [Sockets -> Seq(Messages)]
        /\ toClient \in [Sockets -> Seq(Nat)]
        /\ serving \in [Sockets -> SUBSET Nat]
    BY DEF Init
  <2>5. opened \in 0..MaxSockets /\ socket \in 0..opened
    BY BoundsAssumption DEF Init, NoSocket
  <2>6. QED BY <2>1, <2>2, <2>3, <2>4, <2>5 DEF Init, TypeOK
<1>2. SocketsInOrder /\ RunMapsAgree /\ OneSocket
    BY DEF Init, SocketsInOrder, RunMapsAgree, OneSocket, NoRun, NoSocket
<1>3. RunsNeedTheSocket /\ MembersAreServed /\ IdleConnectionCloses
    BY DEF Init, RunsNeedTheSocket, MembersAreServed, IdleConnectionCloses
<1>4. QED BY <1>1, <1>2, <1>3 DEF IInv

(* MapsOK of the next state is what TypeOK and RunMapsAgree say of the maps. *)
LEMMA AgreeFromMaps ==
    ASSUME MapsOK(runIds', runs', lastRun')
    PROVE  RunMapsAgree'
BY DEF MapsOK, RunMapsAgree

(* Sockets are numbered in the order in which they are opened. *)
LEMMA ConnectKeeps ==
    ASSUME IInv, Connect, socket = NoSocket
    PROVE  /\ opened' \in 0..MaxSockets /\ socket' \in 0..opened'
           /\ ready' \in [Sockets -> ReadyStates]
           /\ SocketsInOrder' /\ socket' # NoSocket
           /\ \A s \in Sockets : ready'[s] \in {"connecting", "open"} => s = socket'
           /\ DOMAIN runs = {}
<1>1. opened \in 0..MaxSockets /\ MaxSockets \in Nat /\ opened < MaxSockets
    BY BoundsAssumption DEF IInv, TypeOK, Connect
<1>2. opened + 1 \in Sockets /\ opened' = opened + 1 /\ socket' = opened + 1
    BY <1>1 DEF Sockets, Connect
<1>3. ready \in [Sockets -> ReadyStates] /\ ready' = [ready EXCEPT ![opened + 1] = "connecting"]
    BY DEF IInv, TypeOK, Connect
<1>4. ready' \in [Sockets -> ReadyStates]
    BY <1>3 DEF ReadyStates
<1>5. SocketsInOrder'
    BY <1>1, <1>2, <1>3 DEF IInv, SocketsInOrder, Sockets
<1>6. \A s \in Sockets : ready[s] \notin {"connecting", "open"}
    BY DEF IInv, OneSocket, Sockets, NoSocket
<1>7. \A s \in Sockets : ready'[s] \in {"connecting", "open"} => s = socket'
    BY <1>2, <1>3, <1>6
<1>8. DOMAIN runs = {}
    BY DEF IInv, RunsNeedTheSocket
<1>9. QED BY <1>1, <1>2, <1>4, <1>5, <1>7, <1>8 DEF NoSocket

(* A new run keeps the invariant, whoever asked for it. *)
LEMMA StartKeeps ==
    ASSUME IInv, NEW t \in Targets, StartRun(t),
           members' \in SUBSET Targets, opening' \in SUBSET Targets,
           inputs' \in Nat, members' = {} => members = {},
           UNCHANGED <<socket, retry, leaving, opened, ready, toClient, serving, shown>>
    PROVE  IInv'
<1>1. MapsOK(runIds', runs', lastRun') /\ thrown' \in SUBSET DOMAIN runs'
    BY StartKeepsMaps DEF IInv
<1>2. IsOpen /\ lastRun \in Nat /\ lastRun' = lastRun + 1
    BY DEF IInv, TypeOK, StartRun, ClaimRun, NextRun
<1>3. socket \in Sockets /\ ready[socket] = "open"
    BY <1>2, BoundsAssumption DEF IInv, TypeOK, IsOpen, NoSocket, Sockets
<1>4. toServer' \in [Sockets -> Seq(Messages)]
  <2>1. toServer \in [Sockets -> Seq(Messages)] /\ toServer[socket] \in Seq(Messages)
    BY <1>3 DEF IInv, TypeOK
  <2>2. /\ toServer[socket] \o StopMessages(t) \in Seq(Messages)
        /\ toServer[socket] \o StopMessages(t) \o <<RunMessage(lastRun + 1)>> \in Seq(Messages)
    BY <2>1, SentMessages DEF IInv
  <2>3. QED BY <2>1, <2>2 DEF StartRun, SendRun, RequestThrows, NextRun
<1>5. shown' \in [Targets -> 0..lastRun']
    BY <1>2 DEF IInv, TypeOK
<1>6. TypeOK'
    BY <1>1, <1>2, <1>4, <1>5 DEF IInv, TypeOK, MapsOK
<1>7. RunMapsAgree'
    BY <1>1, AgreeFromMaps
<1>8. RunsNeedTheSocket'
    BY <1>2 DEF RunsNeedTheSocket, IsOpen
<1>9. SocketsInOrder' /\ OneSocket' /\ MembersAreServed'
    BY <1>2 DEF IInv, SocketsInOrder, OneSocket, MembersAreServed, IsOpen
<1>10. IdleConnectionCloses'
    BY DEF IInv, IdleConnectionCloses
<1>11. QED BY <1>6, <1>7, <1>8, <1>9, <1>10 DEF IInv

(* Removing a member queues the check that closes an idle connection. *)
LEMMA LeaveKeepsIdle ==
    ASSUME IInv, NEW t, members' = members \ {t}, QueueLeave(t),
           UNCHANGED <<socket, retry>>
    PROVE  leaving' \in Nat /\ IdleConnectionCloses' /\ members' \in SUBSET Targets
<1>1. leaving \in Nat /\ members \in SUBSET Targets
    BY DEF IInv, TypeOK
<1>2. leaving' \in Nat /\ leaving' >= leaving /\ (members = {t} => leaving' > 0)
    BY <1>1 DEF QueueLeave
<1>3. members' = {} => members = {} \/ members = {t}
    OBVIOUS
<1>4. IdleConnectionCloses'
    BY <1>1, <1>2, <1>3 DEF IInv, IdleConnectionCloses
<1>5. QED BY <1>1, <1>2, <1>4

(* Stopping a run keeps the invariant apart from the membership. *)
LEMMA StopKeeps ==
    ASSUME IInv, NEW t \in Targets, StopRun(t), members' \in SUBSET members,
           leaving' \in Nat, IdleConnectionCloses',
           UNCHANGED <<lastRun, inputs, socket, retry, opening, opened, ready,
                       toClient, serving, shown>>
    PROVE  IInv'
<1>1. MapsOK(runIds', runs', lastRun') /\ thrown' \in SUBSET DOMAIN runs'
    BY StopKeepsMaps DEF IInv
<1>2. toServer' \in [Sockets -> Seq(Messages)]
  <2>1. CASE ~IsOpen
    BY <2>1 DEF IInv, TypeOK, StopRun
  <2>2. CASE IsOpen
    <3>1. socket \in Sockets
        BY <2>2, BoundsAssumption DEF IInv, TypeOK, IsOpen, NoSocket, Sockets
    <3>2. toServer \in [Sockets -> Seq(Messages)] /\ toServer[socket] \in Seq(Messages)
        BY <3>1 DEF IInv, TypeOK
    <3>3. toServer[socket] \o StopMessages(t) \in Seq(Messages)
        BY <3>2, SentMessages DEF IInv
    <3>4. QED BY <2>2, <3>2, <3>3 DEF StopRun
  <2>3. QED BY <2>1, <2>2
<1>3. TypeOK'
    BY <1>1, <1>2 DEF IInv, TypeOK, MapsOK
<1>4. RunMapsAgree'
    BY <1>1, AgreeFromMaps
<1>5. RunsNeedTheSocket'
    BY DEF IInv, RunsNeedTheSocket, StopRun, RunsWithout
<1>6. SocketsInOrder' /\ OneSocket' /\ MembersAreServed'
    BY DEF IInv, SocketsInOrder, OneSocket, MembersAreServed
<1>7. QED BY <1>3, <1>4, <1>5, <1>6 DEF IInv

-----------------------------------------------------------------------------
(* Every step keeps the invariant: first the calls, then the events. *)
LEMMA CallKeeps ==
    ASSUME IInv, NEW t \in Targets, Call(t)
    PROVE  IInv'
<1> USE DEF Calling
<1>1. CASE JoinOpen(t)
  <2>1. members' \in SUBSET Targets /\ members' # {} /\ opening' \in SUBSET Targets
        /\ inputs' \in Nat /\ StartRun(t)
    BY <1>1 DEF JoinOpen, IInv, TypeOK
  <2>2. QED BY <1>1, <2>1, StartKeeps DEF JoinOpen
<1>2. CASE JoinConnect(t)
  <2>1. socket = NoSocket /\ Connect
    BY <1>2 DEF JoinConnect, MayConnect
  <2>2. TypeOK'
    BY <1>2, <2>1, ConnectKeeps DEF JoinConnect, MayConnect, IInv, TypeOK
  <2>3. SocketsInOrder' /\ OneSocket'
    BY <1>2, <2>1, ConnectKeeps DEF JoinConnect, MayConnect, IInv, OneSocket
  <2>4. RunMapsAgree' /\ RunsNeedTheSocket'
    BY <1>2, <2>1, ConnectKeeps DEF JoinConnect, MayConnect, IInv, RunMapsAgree, RunsNeedTheSocket
  <2>5. MembersAreServed' /\ IdleConnectionCloses'
    BY <1>2, <2>1, ConnectKeeps DEF JoinConnect, MayConnect, MembersAreServed, IdleConnectionCloses
  <2>6. QED BY <2>2, <2>3, <2>4, <2>5 DEF IInv
<1>3. CASE JoinWait(t)
  <2>1. TypeOK' /\ SocketsInOrder' /\ RunMapsAgree' /\ RunsNeedTheSocket' /\ OneSocket'
    BY <1>3 DEF JoinWait, IInv, TypeOK, SocketsInOrder, RunMapsAgree,
                RunsNeedTheSocket, OneSocket
  <2>2. MembersAreServed' /\ IdleConnectionCloses'
    BY <1>3 DEF JoinWait, MayConnect, MembersAreServed, IdleConnectionCloses
  <2>3. QED BY <2>1, <2>2 DEF IInv
<1>4. CASE Leave(t)
  <2>1. leaving' \in Nat /\ IdleConnectionCloses' /\ members' \in SUBSET members
    BY <1>4, LeaveKeepsIdle DEF Leave
  <2>2. TypeOK' /\ SocketsInOrder' /\ RunMapsAgree' /\ RunsNeedTheSocket' /\ OneSocket'
    BY <1>4, <2>1 DEF Leave, IInv, TypeOK, SocketsInOrder, RunMapsAgree,
                      RunsNeedTheSocket, OneSocket
  <2>3. MembersAreServed'
    BY <1>4, <2>1 DEF Leave, IInv, MembersAreServed
  <2>4. QED BY <2>1, <2>2, <2>3 DEF IInv
<1>5. CASE Run(t)
  <2>1. members' \in SUBSET Targets /\ opening' \in SUBSET Targets
        /\ inputs' \in Nat /\ StartRun(t) /\ members' = members
    BY <1>5 DEF Run, IInv, TypeOK
  <2>2. QED BY <1>5, <2>1, StartKeeps DEF Run
<1>6. CASE Stop(t)
  <2>1. members' = members /\ leaving' \in Nat /\ IdleConnectionCloses' /\ StopRun(t)
    BY <1>6 DEF Stop, IInv, TypeOK, IdleConnectionCloses
  <2>2. QED BY <1>6, <2>1, StopKeeps DEF Stop
<1>7. CASE Remove(t)
  <2>1. leaving' \in Nat /\ IdleConnectionCloses' /\ members' \in SUBSET members
    BY <1>7, LeaveKeepsIdle DEF Remove
  <2>2. QED BY <1>7, <2>1, StopKeeps DEF Remove
<1>8. CASE ReplaceOverHttp(t)
  <2>1. shown' \in [Targets -> 0..lastRun']
    BY <1>8 DEF ReplaceOverHttp, client, IInv, TypeOK, NoRun
  <2>2. QED BY <1>8, <2>1 DEF ReplaceOverHttp, client, IInv, TypeOK, SocketsInOrder,
                RunMapsAgree, RunsNeedTheSocket, OneSocket, MembersAreServed,
                IdleConnectionCloses
<1>9. QED BY <1>1, <1>2, <1>3, <1>4, <1>5, <1>6, <1>7, <1>8 DEF Call, Join

LEMMA BrowserKeeps ==
    ASSUME IInv, CheckMembers \/ RetryFires
    PROVE  IInv'
<1>1. CASE CheckMembers /\ members = {}
  <2>1. /\ ForgetRuns /\ retry' = FALSE /\ socket' = NoSocket
        /\ leaving \in Nat \ {0} /\ leaving' = leaving - 1
    BY <1>1 DEF CheckMembers, Disconnect, IInv, TypeOK
  <2>2. MapsOK(runIds', runs', lastRun') /\ DOMAIN runs' = {} /\ thrown' = {}
    BY <1>1, <2>1, ForgetKeepsMaps DEF CheckMembers, IInv
  <2>3. ready' = IF socket = NoSocket
                 THEN ready ELSE [ready EXCEPT ![socket] = "closing"]
    BY <1>1 DEF CheckMembers, Disconnect
  <2>4. ready' \in [Sockets -> ReadyStates]
    BY <2>3 DEF IInv, TypeOK, ReadyStates
  <2>5. socket' \in 0..opened' /\ opened' = opened
    BY <1>1, <2>1 DEF CheckMembers, IInv, TypeOK, NoSocket
  <2>6. TypeOK'
    <3>1. leaving' \in Nat
        BY <2>1
    <3>2. retry' \in BOOLEAN
        BY <2>1, Zenon
    <3>3. UNCHANGED <<members, lastRun, inputs, opening, opened, toServer,
                      toClient, serving, shown>>
        BY <1>1 DEF CheckMembers
    <3>4. QED BY <2>2, <2>4, <2>5, <3>1, <3>2, <3>3 DEF IInv, TypeOK, MapsOK
  <2>7. SocketsInOrder'
    BY <2>3, <2>5 DEF IInv, TypeOK, SocketsInOrder, Sockets
  <2>8. OneSocket'
    BY <2>1, <2>3 DEF IInv, TypeOK, OneSocket
  <2>9. RunMapsAgree' /\ RunsNeedTheSocket'
    BY <2>2, AgreeFromMaps DEF RunsNeedTheSocket
  <2>10. MembersAreServed' /\ IdleConnectionCloses'
    BY <1>1, <2>1 DEF CheckMembers, MembersAreServed, IdleConnectionCloses
  <2>11. QED BY <2>6, <2>7, <2>8, <2>9, <2>10 DEF IInv
<1>2. CASE CheckMembers /\ members # {}
  <2>1. leaving' \in Nat
    BY <1>2 DEF CheckMembers, IInv, TypeOK
  <2>2. QED BY <1>2, <2>1 DEF CheckMembers, IInv, TypeOK, SocketsInOrder,
                RunMapsAgree, RunsNeedTheSocket, OneSocket, MembersAreServed,
                IdleConnectionCloses
<1>3. CASE RetryFires
  <2>1. socket = NoSocket /\ members # {} /\ Connect
    BY <1>3 DEF RetryFires, Idle, IInv, OneSocket, IdleConnectionCloses
  <2>2. TypeOK'
    BY <1>3, <2>1, ConnectKeeps DEF RetryFires, IInv, TypeOK
  <2>3. SocketsInOrder' /\ OneSocket'
    BY <1>3, <2>1, ConnectKeeps DEF RetryFires, IInv, OneSocket
  <2>4. RunMapsAgree' /\ RunsNeedTheSocket'
    BY <1>3, <2>1, ConnectKeeps DEF RetryFires, IInv, RunMapsAgree, RunsNeedTheSocket
  <2>5. MembersAreServed' /\ IdleConnectionCloses'
    BY <1>3, <2>1, ConnectKeeps DEF RetryFires, MembersAreServed, IdleConnectionCloses
  <2>6. QED BY <2>2, <2>3, <2>4, <2>5 DEF IInv
<1>4. QED BY <1>1, <1>2, <1>3

(* A member that is told of the open socket starts a run; if the request    *)
(* throws, fewer are still to be told.                                     *)
LEMMA OpenedStarts ==
    ASSUME NEW t \in Targets, OpenedRuns(t)
    PROVE  /\ StartRun(t) /\ t \in opening
           /\ opening' = opening \ {t} \/ opening' = {}
BY DEF OpenedRuns, StartRun

LEMMA OpenedKeeps ==
    ASSUME IInv, NEW t \in Targets, Opened(t)
    PROVE  IInv'
<1>1. CASE OpenedRuns(t)
  <2>1. members' \in SUBSET Targets /\ opening' \in SUBSET Targets
        /\ inputs' \in Nat /\ StartRun(t) /\ members' = members
    BY <1>1, OpenedStarts DEF OpenedRuns, IInv, TypeOK
  <2>2. QED BY <1>1, <2>1, StartKeeps DEF OpenedRuns
<1>2. CASE OpenedLeaves(t)
  <2>1. leaving' \in Nat /\ IdleConnectionCloses' /\ members' \in SUBSET members
    BY <1>2, LeaveKeepsIdle DEF OpenedLeaves
  <2>2. TypeOK' /\ SocketsInOrder' /\ RunMapsAgree' /\ RunsNeedTheSocket' /\ OneSocket'
    BY <1>2, <2>1 DEF OpenedLeaves, IInv, TypeOK, SocketsInOrder, RunMapsAgree,
                      RunsNeedTheSocket, OneSocket
  <2>3. MembersAreServed'
    BY <1>2, <2>1 DEF OpenedLeaves, IInv, MembersAreServed
  <2>4. QED BY <2>1, <2>2, <2>3 DEF IInv
<1>3. QED BY <1>1, <1>2 DEF Opened

LEMMA SocketKeeps ==
    ASSUME IInv, NEW s \in Sockets, SocketEvent(s)
    PROVE  IInv'
<1>0. s \in 1..MaxSockets /\ opened \in 0..MaxSockets /\ socket \in 0..opened
      /\ MaxSockets \in Nat
    BY BoundsAssumption DEF Sockets, IInv, TypeOK
<1>1. CASE OpenEvent(s)
  <2>1. ready' = [ready EXCEPT ![s] = "open"] /\ ready[s] = "connecting" /\ s = socket
    BY <1>1 DEF OpenEvent, TellMembers, IInv, OneSocket
  <2>2. ready' \in [Sockets -> ReadyStates] /\ opening' \in SUBSET Targets
    BY <1>1, <2>1 DEF OpenEvent, TellMembers, IInv, TypeOK, ReadyStates
  <2>3. TypeOK'
    BY <1>1, <2>2 DEF OpenEvent, TellMembers, IInv, TypeOK
  <2>4. SocketsInOrder' /\ OneSocket'
    BY <1>1, <2>1 DEF OpenEvent, TellMembers, IInv, TypeOK, SocketsInOrder, OneSocket
  <2>5. RunMapsAgree' /\ RunsNeedTheSocket'
    BY <1>1, <2>1 DEF OpenEvent, TellMembers, IInv, TypeOK, RunMapsAgree, RunsNeedTheSocket
  <2>6. MembersAreServed' /\ IdleConnectionCloses'
    BY <1>1 DEF OpenEvent, TellMembers, IInv, MembersAreServed, IdleConnectionCloses
  <2>7. QED BY <2>3, <2>4, <2>5, <2>6 DEF IInv
<1>2. CASE CloseBegins(s)
  <2>1. ready' = [ready EXCEPT ![s] = "closing"] /\ ready[s] = "open"
    BY <1>2 DEF CloseBegins
  <2>2. ready' \in [Sockets -> ReadyStates]
    BY <2>1 DEF IInv, TypeOK, ReadyStates
  <2>3. TypeOK'
    BY <1>2, <2>2 DEF CloseBegins, client, IInv, TypeOK
  <2>4. SocketsInOrder' /\ OneSocket'
    BY <1>2, <2>1 DEF CloseBegins, client, IInv, TypeOK, SocketsInOrder, OneSocket
  <2>5. RunMapsAgree' /\ RunsNeedTheSocket'
    BY <1>2, <2>1 DEF CloseBegins, client, IInv, TypeOK, RunMapsAgree, RunsNeedTheSocket
  <2>6. MembersAreServed' /\ IdleConnectionCloses'
    BY <1>2 DEF CloseBegins, client, IInv, MembersAreServed, IdleConnectionCloses
  <2>7. QED BY <2>3, <2>4, <2>5, <2>6 DEF IInv
<1>3. CASE CloseEvent(s)
  <2>1. ready' = [ready EXCEPT ![s] = "closed"]
        /\ ready[s] \in {"connecting", "open", "closing"}
    BY <1>3 DEF CloseEvent
  <2>2. ready' \in [Sockets -> ReadyStates]
    BY <2>1 DEF IInv, TypeOK, ReadyStates
  <2>3. toClient' \in [Sockets -> Seq(Nat)]
    BY <1>3 DEF CloseEvent, IInv, TypeOK
  <2>4. SocketsInOrder'
    BY <1>3, <2>1 DEF CloseEvent, IInv, TypeOK, SocketsInOrder
  <2>5. CASE socket = s
    <3>1. socket' = NoSocket /\ ForgetRuns /\ ScheduleReconnect
        BY <1>3, <2>5 DEF CloseEvent
    <3>2. MapsOK(runIds', runs', lastRun') /\ DOMAIN runs' = {} /\ thrown' = {}
        BY <1>3, <3>1, ForgetKeepsMaps DEF CloseEvent, IInv
    <3>3. retry' \in BOOLEAN /\ socket' \in 0..opened'
        BY <1>0, <1>3, <3>1 DEF CloseEvent, ScheduleReconnect, IInv, TypeOK, NoSocket
    <3>4. UNCHANGED <<members, lastRun, inputs, opening, leaving, opened,
                      toServer, serving, shown>>
        BY <1>3 DEF CloseEvent
    <3>5. TypeOK'
        BY <2>2, <2>3, <3>2, <3>3, <3>4 DEF IInv, TypeOK, MapsOK
    <3>6. OneSocket'
        BY <1>0, <2>1, <2>5, <3>1 DEF IInv, TypeOK, OneSocket
    <3>7. RunMapsAgree' /\ RunsNeedTheSocket'
        BY <3>2, AgreeFromMaps DEF RunsNeedTheSocket
    <3>8. MembersAreServed' /\ IdleConnectionCloses'
        BY <1>3, <3>1, <3>4, <1>0, <2>5 DEF CloseEvent, Idle, ScheduleReconnect, IInv,
            MembersAreServed, IdleConnectionCloses, NoSocket
    <3>9. QED BY <2>4, <3>5, <3>6, <3>7, <3>8 DEF IInv
  <2>6. CASE socket # s
    <3>1. UNCHANGED <<socket, runIds, runs, thrown, retry, members, lastRun, inputs,
                      opening, leaving, opened, toServer, serving, shown>>
        BY <1>3, <2>6 DEF CloseEvent
    <3>2. TypeOK'
        BY <2>2, <2>3, <3>1 DEF IInv, TypeOK
    <3>3. OneSocket' /\ RunMapsAgree' /\ RunsNeedTheSocket'
        BY <2>1, <2>6, <3>1 DEF IInv, TypeOK, OneSocket, RunMapsAgree, RunsNeedTheSocket
    <3>4. MembersAreServed' /\ IdleConnectionCloses'
        BY <3>1 DEF IInv, MembersAreServed, IdleConnectionCloses
    <3>5. QED BY <2>4, <3>2, <3>3, <3>4 DEF IInv
  <2>7. QED BY <2>5, <2>6
<1>4. CASE Receive(s)
  <2>1. toClient' \in [Sockets -> Seq(Nat)]
    BY <1>4 DEF Receive, IInv, TypeOK
  <2>2. shown' \in [Targets -> 0..lastRun]
    <3>1. shown \in [Targets -> 0..lastRun] /\ DOMAIN runs \in SUBSET (1..lastRun)
        BY DEF IInv, TypeOK
    <3>2. \A r \in 1..lastRun : r \in 0..lastRun
        OBVIOUS
    <3>3. QED BY <1>4, <3>1, <3>2 DEF Receive, Apply
  <2>3. QED BY <1>4, <2>1, <2>2 DEF Receive, client, IInv, TypeOK, SocketsInOrder,
                RunMapsAgree, RunsNeedTheSocket, OneSocket, MembersAreServed,
                IdleConnectionCloses
<1>5. QED BY <1>1, <1>2, <1>3, <1>4 DEF SocketEvent

LEMMA ServerKeeps ==
    ASSUME IInv, NEW s \in Sockets, ServerEvent(s)
    PROVE  IInv' /\ UNCHANGED <<client, ready, shown>>
<1>1. UNCHANGED <<client, ready, shown>> /\ inputs' \in {inputs, inputs + 1}
    BY DEF ServerEvent, ServeRun, ServeStop, ServerEnds, Emit, Finish
<1>2. toServer' \in [Sockets -> Seq(Messages)] /\ serving' \in [Sockets -> SUBSET Nat]
      /\ toClient' \in [Sockets -> Seq(Nat)]
  <2>1. /\ toServer \in [Sockets -> Seq(Messages)] /\ serving \in [Sockets -> SUBSET Nat]
        /\ toClient \in [Sockets -> Seq(Nat)]
    BY DEF IInv, TypeOK
  <2>2. CASE ServeRun(s) \/ ServeStop(s)
    <3> DEFINE m == Head(toServer[s])
    <3>1. toServer[s] \in Seq(Messages) /\ toServer[s] # << >>
        BY <2>1, <2>2 DEF ServeRun, ServeStop, Reading
    <3>2. Tail(toServer[s]) \in Seq(Messages) /\ m \in Messages
        BY <3>1
    <3>3. m.run \in Nat
        BY <3>2 DEF Messages
    <3>4. serving[s] \cup {m.run} \in SUBSET Nat /\ serving[s] \ {m.run} \in SUBSET Nat
        BY <2>1, <3>3
    <3>5. /\ toServer' = [toServer EXCEPT ![s] = Tail(toServer[s])]
          /\ \/ serving' = [serving EXCEPT ![s] = serving[s] \cup {m.run}]
             \/ serving' = [serving EXCEPT ![s] = serving[s] \ {m.run}]
          /\ toClient' = toClient
        BY <2>2 DEF ServeRun, ServeStop
    <3> HIDE DEF m
    <3>6. QED BY <2>1, <3>2, <3>4, <3>5
  <2>3. CASE ServerEnds(s)
    BY <2>1, <2>3 DEF ServerEnds
  <2>4. ASSUME NEW r \in serving[s], Emit(s, r) \/ Finish(s, r)
        PROVE  /\ toServer' \in [Sockets -> Seq(Messages)]
               /\ serving' \in [Sockets -> SUBSET Nat]
               /\ toClient' \in [Sockets -> Seq(Nat)]
    <3>1. r \in Nat /\ Append(toClient[s], r) \in Seq(Nat)
        BY <2>1
    <3>2. CASE Emit(s, r)
        BY <2>1, <3>1, <3>2 DEF Emit
    <3>3. CASE Finish(s, r)
        BY <2>1, <3>3 DEF Finish
    <3>4. QED BY <2>4, <3>2, <3>3
  <2>5. QED BY <2>2, <2>3, <2>4 DEF ServerEvent
<1>3. QED BY <1>1, <1>2 DEF client, IInv, TypeOK, SocketsInOrder, RunMapsAgree,
            RunsNeedTheSocket, OneSocket, MembersAreServed, IdleConnectionCloses

LEMMA StepInv == IInv /\ [Next]_vars => IInv'
<1> SUFFICES ASSUME IInv, [Next]_vars PROVE IInv'
    OBVIOUS
<1>1. CASE CheckMembers \/ RetryFires
    BY <1>1, BrowserKeeps
<1>2. ASSUME NEW t \in Targets, Call(t) \/ Opened(t) PROVE IInv'
    BY <1>2, CallKeeps, OpenedKeeps
<1>3. ASSUME NEW s \in Sockets, SocketEvent(s) \/ ServerEvent(s) PROVE IInv'
    BY <1>3, SocketKeeps, ServerKeeps
<1>4. CASE UNCHANGED vars
    BY <1>4 DEF vars, client, IInv, TypeOK, SocketsInOrder, RunMapsAgree,
            RunsNeedTheSocket, OneSocket, MembersAreServed, IdleConnectionCloses
<1>5. QED BY <1>1, <1>2, <1>3, <1>4 DEF Next

LEMMA Invariance == Spec => []IInv
BY InitInv, StepInv, PTL DEF Spec

-----------------------------------------------------------------------------
(* The state of Connection keeps its types, whatever targets, network and  *)
(* server do.                                                              *)
THEOREM ConnectionTypes == Spec => []TypeOK
<1>1. IInv => TypeOK
    BY DEF IInv
<1>2. QED BY <1>1, Invariance, PTL

(* `runIds` and `runs` never disagree: a frame is accepted exactly if its  *)
(* run is the one its target waits for.                                    *)
THEOREM RunMapsStayInverse == Spec => []RunMapsAgree
<1>1. IInv => RunMapsAgree
    BY DEF IInv
<1>2. QED BY <1>1, Invariance, PTL

(* No run outlives the socket it was asked over: after a loss or a         *)
(* disconnect nothing waits for frames that cannot come.                   *)
THEOREM RunsUseTheSocket == Spec => []RunsNeedTheSocket
<1>1. IInv => RunsNeedTheSocket
    BY DEF IInv
<1>2. QED BY <1>1, Invariance, PTL

(* However often it reconnects, the browser holds one socket at most.      *)
THEOREM NeverTwoSockets == Spec => []OneSocket
<1>1. IInv => OneSocket
    BY DEF IInv
<1>2. QED BY <1>1, Invariance, PTL

(* A member always has a socket or a timer that will open one.             *)
THEOREM NoMemberStranded == Spec => []MembersAreServed
<1>1. IInv => MembersAreServed
    BY DEF IInv
<1>2. QED BY <1>1, Invariance, PTL

(* The connection goes away with its last member. *)
THEOREM IdleConnectionGoes == Spec => []IdleConnectionCloses
<1>1. IInv => IdleConnectionCloses
    BY DEF IInv
<1>2. QED BY <1>1, Invariance, PTL

(* All of it together: one socket at most, and one, or the timer for one,   *)
(* exactly while there are members or a check for them is queued.          *)
THEOREM SocketFollows == Spec => []SocketFollowsMembers
<1>1. IInv => SocketFollowsMembers
    BY DEF IInv, SocketFollowsMembers
<1>2. QED BY <1>1, Invariance, PTL

-----------------------------------------------------------------------------
(* Refinement: every step of the connection is a step of LatestRender or   *)
(* changes nothing that LatestRender sees.                                 *)
LEMMA StartRefines ==
    ASSUME NEW t \in Targets, StartRun(t), UNCHANGED shown
    PROVE  Latest!Next
BY DEF StartRun, ClaimRun, NextRun, Latest!Next, Latest!Start

LEMMA GiveUpRefines ==
    ASSUME TypeOK, NEW S \in SUBSET Targets, UNCHANGED <<lastRun, shown>>,
           runIds' = [t \in Targets |-> IF t \in S THEN NoRun ELSE runIds[t]]
    PROVE  Latest!Next
BY DEF Latest!Next, Latest!Stop, Latest!NoRender, NoRun

LEMMA StopRefines ==
    ASSUME TypeOK, NEW t \in Targets, StopRun(t), UNCHANGED <<lastRun, shown>>
    PROVE  Latest!Next
<1>1. runIds' = [u \in Targets |-> IF u \in {t} THEN NoRun ELSE runIds[u]]
    BY DEF StopRun, TypeOK
<1>2. QED BY <1>1, GiveUpRefines

LEMMA ForgetRefines ==
    ASSUME TypeOK, ForgetRuns, UNCHANGED <<lastRun, shown>>
    PROVE  Latest!Next
<1>1. runIds' = [u \in Targets |-> IF u \in Targets THEN NoRun ELSE runIds[u]]
    BY DEF ForgetRuns
<1>2. QED BY <1>1, GiveUpRefines

LEMMA StepRefines == IInv /\ [Next]_vars => [Latest!Next]_Latest!vars
<1> SUFFICES ASSUME IInv, [Next]_vars PROVE [Latest!Next]_Latest!vars
    OBVIOUS
<1> USE DEF Latest!vars
<1>0. TypeOK
    BY DEF IInv
<1>1. CASE CheckMembers
  <2>1. CASE members = {}
    BY <1>0, <1>1, <2>1, ForgetRefines DEF CheckMembers, Disconnect
  <2>2. CASE members # {}
    BY <1>1, <2>2 DEF CheckMembers
  <2>3. QED BY <2>1, <2>2
<1>2. CASE RetryFires
    BY <1>2 DEF RetryFires
<1>3. ASSUME NEW t \in Targets, Call(t) PROVE [Latest!Next]_Latest!vars
  <2>1. CASE JoinOpen(t) \/ Run(t)
    BY <2>1, StartRefines DEF JoinOpen, Run
  <2>2. CASE JoinConnect(t) \/ JoinWait(t) \/ Leave(t)
    BY <2>2 DEF JoinConnect, MayConnect, JoinWait, Leave
  <2>3. CASE Stop(t) \/ Remove(t)
    BY <1>0, <2>3, StopRefines DEF Stop, Remove
  <2>4. CASE ReplaceOverHttp(t)
    BY <2>4 DEF ReplaceOverHttp, client, Latest!Next, Latest!Replace,
                Latest!NoRender, NoRun
  <2>5. QED BY <1>3, <2>1, <2>2, <2>3, <2>4 DEF Call, Join
<1>4. ASSUME NEW t \in Targets, Opened(t) PROVE [Latest!Next]_Latest!vars
  <2>1. CASE OpenedRuns(t)
    BY <2>1, StartRefines, OpenedStarts DEF OpenedRuns
  <2>2. CASE OpenedLeaves(t)
    BY <2>2 DEF OpenedLeaves
  <2>3. QED BY <1>4, <2>1, <2>2 DEF Opened
<1>5. ASSUME NEW s \in Sockets, SocketEvent(s) PROVE [Latest!Next]_Latest!vars
  <2>1. CASE OpenEvent(s) \/ CloseBegins(s)
    BY <2>1 DEF OpenEvent, TellMembers, CloseBegins, client
  <2>2. CASE CloseEvent(s)
    BY <1>0, <2>2, ForgetRefines DEF CloseEvent
  <2>3. CASE Receive(s)
    <3>1. UNCHANGED <<lastRun, runIds>>
        BY <2>3 DEF Receive, client
    <3>2. CASE Head(toClient[s]) \in DOMAIN runs
        <4> DEFINE r == Head(toClient[s])
        <4>1. r \in 1..lastRun /\ runs[r] \in Targets
            BY <1>0, <3>2 DEF TypeOK
        <4>2. runIds[runs[r]] = r /\ r # 0
            BY <3>2, <4>1 DEF IInv, RunMapsAgree
        <4>3. shown' = [shown EXCEPT ![runs[r]] = r]
            BY <2>3, <3>2 DEF Receive, Apply
        <4>4. Latest!Show(runs[r])
            BY <3>1, <4>2, <4>3 DEF Latest!Show, Latest!NoRender
        <4>5. QED BY <4>1, <4>4 DEF Latest!Next
    <3>3. CASE Head(toClient[s]) \notin DOMAIN runs
        BY <2>3, <3>1, <3>3 DEF Receive, Apply
    <3>4. QED BY <3>2, <3>3
  <2>4. QED BY <1>5, <2>1, <2>2, <2>3 DEF SocketEvent
<1>6. ASSUME NEW s \in Sockets, ServerEvent(s) PROVE [Latest!Next]_Latest!vars
    BY <1>6, ServerKeeps DEF client
<1>7. CASE UNCHANGED vars
    BY <1>7 DEF vars, client
<1>8. QED BY <1>1, <1>2, <1>3, <1>4, <1>5, <1>6, <1>7 DEF Next

(* Every target shows the latest render it asked for, and nothing that was *)
(* stopped, superseded or lost: the connection implements LatestRender.    *)
THEOREM ConnectionShowsLatest == Spec => ShowsLatestRender
<1>1. Init => Latest!Init
    BY DEF Init, Latest!Init, Latest!NoRender, NoRun
<1>2. QED BY <1>1, StepRefines, Invariance, PTL DEF Spec, ShowsLatestRender, Latest!Spec


-----------------------------------------------------------------------------
(* Types of the variables RenderUnits adds. *)

LEMMA MicrotaskUnits ==
    /\ \A m \in Microtasks : m.unit \in Units
    /\ Check \in Microtasks
    /\ \A u \in Units : SyncOf(u) \in Microtasks
<1>1. Check.unit \in Units /\ \A u \in Units : SyncOf(u).unit \in Units
    BY DEF Check, SyncOf, Units
<1>2. QED BY <1>1 DEF Microtasks

LEMMA ChecksAreMicrotasks ==
    ASSUME NEW S \in SUBSET Units
    PROVE  Checks(S) \in SUBSET Seq(Microtasks)
<1>1. IsFiniteSet(Units)
  <2>1. IsFiniteSet(Shards \cup {Page})
    BY UnitsAssumption, FS_AddElement
  <2>2. Units = Shards \cup {Page}
    BY DEF Units
  <2>3. QED BY <2>1, <2>2
<1>2. Cardinality(S) \in Nat
  <2>1. IsFiniteSet(S)
    BY <1>1, FS_Subset
  <2>2. QED BY <2>1, FS_CardinalityType
<1>3. ASSUME NEW q \in Checks(S) PROVE q \in Seq(Microtasks)
  <2>1. q \in [1..Cardinality(S) -> {SyncOf(u) : u \in S}]
    BY <1>3 DEF Checks
  <2>2. {SyncOf(u) : u \in S} \in SUBSET Microtasks
    BY MicrotaskUnits
  <2>3. q \in [1..Cardinality(S) -> Microtasks]
    BY <2>1, <2>2
  <2>4. QED BY <1>2, <2>3, SeqDef
<1>4. QED BY <1>3

LEMMA UnitTypesInit == UnitsInit => UnitTypes
<1> SUFFICES ASSUME UnitsInit PROVE UnitTypes
    OBVIOUS
<1>1. Shards \in SUBSET Units /\ Page \in Units
    BY DEF Units
<1>2. micro \in Seq(Microtasks)
  <2>1. PICK checks \in Checks(alive) : micro = <<SyncOf(Page)>> \o checks
    BY DEF UnitsInit
  <2>2. checks \in Seq(Microtasks)
    BY <1>1, <2>1, ChecksAreMicrotasks DEF UnitsInit
  <2>3. <<SyncOf(Page)>> \in Seq(Microtasks)
    BY <1>1, MicrotaskUnits
  <2>4. QED BY <2>1, <2>2, <2>3
<1>3. QED BY <1>2 DEF UnitsInit, UnitTypes, Phases

LEMMA SyncTypes ==
    ASSUME UnitTypes, NEW u \in Units, NEW needs, NEW queue \in Seq(Microtasks),
           SyncConnection(u, needs, queue)
    PROVE  micro' \in Seq(Microtasks) /\ waiting' \in SUBSET Units
<1>1. Append(queue, Check) \in Seq(Microtasks)
    BY MicrotaskUnits
<1>2. QED BY <1>1 DEF SyncConnection, QueueCheck, UnitTypes

LEMMA ReplacedTypes ==
    ASSUME UnitTypes, NEW u \in Units, SnapshotReplaces(u)
    PROVE  /\ UNCHANGED <<alive, loading, waiting>>
           /\ requires' \in [Units -> BOOLEAN] /\ own' \in BOOLEAN
           /\ task' \in {"none", "document", "release"}
           /\ micro' \in Seq(Microtasks)
<1>1. CASE u = Page
    BY <1>1 DEF SnapshotReplaces, UnitTypes
<1>2. CASE u # Page
  <2>1. PICK need \in BOOLEAN : ShardReplaced(u, need)
    BY <1>2 DEF SnapshotReplaces
  <2>2. Append(micro, SyncOf(u)) \in Seq(Microtasks)
    BY MicrotaskUnits DEF UnitTypes
  <2>3. QED BY <2>1, <2>2 DEF ShardReplaced, UnitTypes
<1>3. QED BY <1>1, <1>2

LEMMA UnitTypesStep == UnitTypes /\ [UnitsNext]_allVars => UnitTypes'
<1> SUFFICES ASSUME UnitTypes, [UnitsNext]_allVars PROVE UnitTypes'
    OBVIOUS
<1>0. Page \in Units /\ Shards \in SUBSET Units /\ SyncOf(Page) \in Microtasks
    BY MicrotaskUnits DEF Units
<1>1. CASE RunCheck
    BY <1>1 DEF RunCheck, UnitTypes, history
<1>2. CASE RunSync
  <2>1. Head(micro).unit \in Units /\ Tail(micro) \in Seq(Microtasks)
    BY <1>2, MicrotaskUnits DEF RunSync, UnitTypes
  <2>2. micro' \in Seq(Microtasks) /\ waiting' \in SUBSET Units
    BY <1>2, <2>1, SyncTypes DEF RunSync
  <2>3. http' \in [Units -> Phases] /\ uncovered' \in SUBSET Shards
    BY <1>2 DEF RunSync, CancelRequest, UnitTypes, Phases
  <2>4. QED BY <1>2, <2>2, <2>3 DEF RunSync, UnitTypes
<1>3. CASE Hydrate
  <2>1. PICK new \in SUBSET Shards, needs \in [Units -> BOOLEAN] :
            /\ alive' = new /\ requires' = needs
            /\ \E checks \in Checks(new) : SyncConnection(Page, needs, micro \o checks)
    BY <1>3 DEF Hydrate
  <2>2. PICK checks \in Checks(new) : SyncConnection(Page, needs, micro \o checks)
    BY <2>1
  <2>3. micro \o checks \in Seq(Microtasks)
    BY <1>0, <2>2, ChecksAreMicrotasks DEF UnitTypes
  <2>4. micro' \in Seq(Microtasks) /\ waiting' \in SUBSET Units
    BY <1>0, <2>2, <2>3, SyncTypes
  <2>5. http' \in [Units -> Phases]
    BY <1>3 DEF Hydrate, CancelRequest, UnitTypes, Phases
  <2>6. QED BY <1>3, <2>1, <2>4, <2>5 DEF Hydrate, UnitTypes
<1>4. CASE Navigate \/ Commit \/ ReplaceDocument
    BY <1>0, <1>4 DEF Navigate, Commit, ReplaceDocument, CancelRequest, UnitTypes, Phases, history
<1>5. CASE LoadSwap
    BY <1>0, <1>5 DEF LoadSwap, Swapped, UnitTypes
<1>6. CASE Loaded
    BY <1>6, ChecksAreMicrotasks DEF Loaded, WakeWaiting, UnitTypes, Phases, history
<1>7. ASSUME NEW u \in Shards, DisposeShard(u) PROVE UnitTypes'
  <2>1. micro' \in Seq(Microtasks)
    BY <1>7, MicrotaskUnits DEF DisposeShard, QueueCheck, UnitTypes
  <2>2. QED BY <1>0, <1>7, <2>1 DEF DisposeShard, CancelRequest, UnitTypes, Phases, bounds
<1>8. ASSUME NEW u \in Units,
             RefreshConnected(u) \/ RefreshOverHttp(u) \/ HttpEnds(u)
      PROVE  UnitTypes'
    BY <1>8 DEF RefreshConnected, RefreshOverHttp, HttpEnds, CancelRequest, UnitTypes,
                Phases, history
<1>9. ASSUME NEW u \in Units, HttpSnapshot(u) PROVE UnitTypes'
    BY <1>9, ReplacedTypes DEF HttpSnapshot, UnitTypes, Phases, history
<1>10. ASSUME NEW u \in Units, HttpSwap(u) PROVE UnitTypes'
    BY <1>10, MicrotaskUnits DEF HttpSwap, Swapped, UnitTypes
<1>11. ASSUME NEW u \in Units, UnitOpened(u) PROVE UnitTypes'
  <2>1. micro' \in Seq(Microtasks)
    BY <1>11, MicrotaskUnits DEF UnitOpened, QueueCheck, UnitTypes
  <2>2. QED BY <1>11, <2>1 DEF UnitOpened, UnitTypes, history
<1>12. CASE FrameTask
  <2>1. PICK s \in Sockets :
            FrameDropped(s) \/ \E u \in Units : ConnectedSnapshot(s, u) \/ ConnectedSwap(s, u)
    BY <1>12 DEF FrameTask
  <2>2. CASE FrameDropped(s)
    BY <2>2 DEF FrameDropped, UnitTypes, unitVars, history
  <2>3. ASSUME NEW u \in Units, ConnectedSnapshot(s, u) PROVE UnitTypes'
    BY <2>3, ReplacedTypes DEF ConnectedSnapshot, CancelRequest, UnitTypes, Phases, history
  <2>4. ASSUME NEW u \in Units, ConnectedSwap(s, u) PROVE UnitTypes'
    <3>1. micro' \in Seq(Microtasks)
        BY <2>4, MicrotaskUnits DEF ConnectedSwap
    <3>2. requires' \in [Units -> BOOLEAN] /\ uncovered' \in SUBSET Shards
        BY <2>4 DEF ConnectedSwap, Swapped, SwapKeepsNeed, UnitTypes
    <3>3. QED BY <2>4, <3>1, <3>2 DEF ConnectedSwap, UnitTypes
  <2>5. QED BY <2>1, <2>2, <2>3, <2>4
<1>13. CASE SocketTask \/ ServerTask \/ UNCHANGED allVars
    BY <1>13 DEF SocketTask, ServerTask, allVars, UnitTypes, unitVars, history
<1>14. QED BY <1>1, <1>2, <1>3, <1>4, <1>5, <1>6, <1>7, <1>8, <1>9, <1>10, <1>11,
              <1>12, <1>13 DEF UnitsNext

LEMMA UnitTypesHold == UnitsSpec => []UnitTypes
BY UnitTypesInit, UnitTypesStep, PTL DEF UnitsSpec

-----------------------------------------------------------------------------
(* The units use the connection only through its methods, so that whatever *)
(* holds of Connection holds of the connection the units share.            *)

LEMMA SyncConnects ==
    ASSUME NEW u \in Units, NEW needs, NEW queue, SyncConnection(u, needs, queue)
    PROVE  Join(u) \/ Leave(u) \/ UNCHANGED vars
BY DEF SyncConnection

LEMMA StepConnects == UnitTypes /\ [UnitsNext]_allVars => [Next]_vars
<1> SUFFICES ASSUME UnitTypes, [UnitsNext]_allVars PROVE [Next]_vars
    OBVIOUS
<1>0. Units = Targets /\ Page \in Units /\ Shards \in SUBSET Units
    BY UnitsAssumption DEF Units
<1>1. CASE RunCheck
    BY <1>1 DEF RunCheck, Next
<1>2. CASE RunSync
  <2>1. Head(micro) \in Microtasks
    BY <1>2 DEF RunSync, UnitTypes
  <2>2. Head(micro).unit \in Units
    BY <2>1, MicrotaskUnits
  <2>3. Join(Head(micro).unit) \/ Leave(Head(micro).unit) \/ UNCHANGED vars
    BY <1>2 DEF RunSync, SyncConnection
  <2>4. QED BY <1>0, <2>2, <2>3 DEF Next, Call
<1>3. CASE Hydrate
  <2>1. Join(Page) \/ Leave(Page) \/ UNCHANGED vars
    BY <1>3 DEF Hydrate, SyncConnection
  <2>2. QED BY <1>0, <2>1 DEF Next, Call
<1>4. CASE Commit \/ ReplaceDocument
  <2>1. Stop(Page) \/ ReplaceOverHttp(Page) \/ UNCHANGED vars
    BY <1>4 DEF Commit, ReplaceDocument
  <2>2. QED BY <1>0, <2>1 DEF Next, Call
<1>5. CASE Navigate \/ LoadSwap \/ Loaded
    BY <1>5 DEF Navigate, LoadSwap, Loaded
<1>6. ASSUME NEW u \in Shards, DisposeShard(u) PROVE [Next]_vars
  <2>1. Remove(u) \/ UNCHANGED vars
    BY <1>6 DEF DisposeShard, Abandon
  <2>2. QED BY <1>0, <2>1 DEF Next, Call
<1>7. ASSUME NEW u \in Units,
             \/ RefreshConnected(u) \/ RefreshOverHttp(u)
             \/ HttpSnapshot(u) \/ HttpSwap(u) \/ HttpEnds(u)
      PROVE  [Next]_vars
  <2>1. Run(u) \/ Stop(u) \/ ReplaceOverHttp(u) \/ UNCHANGED vars
    BY <1>7 DEF RefreshConnected, RefreshOverHttp, HttpSnapshot, HttpSwap, HttpEnds
  <2>2. QED BY <1>0, <2>1 DEF Next, Call
<1>8. ASSUME NEW u \in Units, UnitOpened(u) PROVE [Next]_vars
  <2>1. OpenedRuns(u) \/ OpenedLeaves(u)
    BY <1>8 DEF UnitOpened
  <2>2. QED BY <1>0, <2>1 DEF Next, Opened
<1>9. CASE FrameTask
  <2>1. PICK s \in Sockets : Receive(s)
    BY <1>9 DEF FrameTask, FrameDropped, ConnectedSnapshot, ConnectedSwap
  <2>2. QED BY <2>1 DEF Next, SocketEvent
<1>10. CASE SocketTask \/ ServerTask
    BY <1>10 DEF SocketTask, ServerTask, Next, SocketEvent
<1>11. CASE UNCHANGED allVars
    BY <1>11 DEF allVars
<1>12. QED BY <1>1, <1>2, <1>3, <1>4, <1>5, <1>6, <1>7, <1>8, <1>9, <1>10, <1>11
           DEF UnitsNext

(* The page and its shards, with their renders over HTTP, navigations and  *)
(* microtasks, are callers Connection allows for: every behaviour of the   *)
(* composition is one of Connection.                                       *)
THEOREM UnitsUseConnection == UnitsSpec => Spec
<1>1. UnitsInit => Init
    BY DEF UnitsInit
<1>2. QED BY <1>1, UnitTypesHold, StepConnects, PTL DEF UnitsSpec, Spec

SkippedOK == skipped \in SUBSET Units

LEMMA SkippedStep == TypeOK /\ SkippedOK /\ [UnitsNext]_allVars => SkippedOK'
<1> SUFFICES ASSUME TypeOK, SkippedOK, [UnitsNext]_allVars PROVE SkippedOK'
    OBVIOUS
<1>1. opening \in SUBSET Units
    BY UnitsAssumption DEF TypeOK, Units
<1>2. \/ skipped' \in SUBSET skipped
      \/ skipped' \in SUBSET (skipped \cup opening)
    BY DEF UnitsNext, RunCheck, RunSync, Hydrate, Navigate, Commit, ReplaceDocument, LoadSwap,
           Loaded, DisposeShard, RefreshConnected, RefreshOverHttp, HttpSnapshot, HttpSwap,
           HttpEnds, UnitOpened, FrameTask, FrameDropped, ConnectedSnapshot, ConnectedSwap,
           SocketTask, ServerTask, history, unitVars, allVars
<1>3. QED BY <1>1, <1>2 DEF SkippedOK

(* The composition keeps its types. *)
THEOREM UnitsTypes == UnitsSpec => []UnitsTypeOK
<1>1. TypeOK /\ UnitTypes /\ SkippedOK => UnitsTypeOK
    BY DEF UnitsTypeOK, SkippedOK
<1>2. UnitsInit => SkippedOK
    BY DEF UnitsInit, SkippedOK
<1>3. QED BY <1>1, <1>2, SkippedStep, UnitTypesHold, UnitsUseConnection, ConnectionTypes, PTL
          DEF UnitsSpec

-----------------------------------------------------------------------------
(* Who uses the connection.  The targets in S are the only ones that are   *)
(* members, have a run, or are still to be told that the socket opened.    *)
Users(S, mem, ids, op) ==
    /\ mem \in SUBSET S /\ op \in SUBSET S
    /\ \A t \in Targets \ S : ids[t] = NoRun

LEMMA CallsKeepUsers ==
    ASSUME TypeOK, NEW S, Users(S, members, runIds, opening),
           NEW t \in Targets, t \in S, Call(t) \/ Opened(t)
    PROVE  Users(S, members', runIds', opening')
<1>1. runIds \in [Targets -> 0..lastRun]
    BY DEF TypeOK
<1>2. CASE StartRun(t) /\ members' \in SUBSET (members \cup {t}) /\ opening' \in SUBSET opening
    BY <1>1, <1>2 DEF StartRun, ClaimRun, Users
<1>3. CASE StopRun(t) /\ members' \in SUBSET members /\ opening' = opening
    BY <1>1, <1>3 DEF StopRun, Users
<1>4. CASE runIds' = runIds /\ members' \in SUBSET (members \cup {t}) /\ opening' \in SUBSET opening
    BY <1>4 DEF Users
<1>5. CASE Join(t)
    BY <1>2, <1>4, <1>5 DEF Join, JoinOpen, JoinConnect, JoinWait
<1>6. CASE Leave(t) \/ ReplaceOverHttp(t)
    BY <1>4, <1>6 DEF Leave, ReplaceOverHttp, client
<1>7. CASE Run(t) \/ OpenedRuns(t) \/ OpenedLeaves(t)
    BY <1>2, <1>4, <1>7, OpenedStarts DEF Run, OpenedRuns, OpenedLeaves
<1>8. CASE Stop(t) \/ Remove(t)
    BY <1>3, <1>8 DEF Stop, Remove
<1>9. QED BY <1>5, <1>6, <1>7, <1>8 DEF Call, Opened

LEMMA RemoveEndsUse ==
    ASSUME TypeOK, NEW S, Users(S, members, runIds, opening),
           NEW t \in Targets, Remove(t)
    PROVE  Users(S \ {t}, members', runIds', opening')
BY DEF Remove, Calling, StopRun, Users, TypeOK

LEMMA EventsKeepUsers ==
    ASSUME TypeOK, NEW S, Users(S, members, runIds, opening), S \in SUBSET Targets,
           \/ CheckMembers \/ RetryFires
           \/ \E s \in Sockets : SocketEvent(s) \/ ServerEvent(s)
    PROVE  Users(S, members', runIds', opening')
<1>1. CASE CheckMembers
    BY <1>1 DEF CheckMembers, Disconnect, ForgetRuns, Users
<1>2. CASE RetryFires
    BY <1>2 DEF RetryFires, Users
<1>3. ASSUME NEW s \in Sockets, SocketEvent(s) PROVE Users(S, members', runIds', opening')
    BY <1>3 DEF SocketEvent, OpenEvent, TellMembers, CloseBegins, CloseEvent, Receive,
                ForgetRuns, client, Users
<1>4. ASSUME NEW s \in Sockets, ServerEvent(s) PROVE Users(S, members', runIds', opening')
    BY <1>4 DEF ServerEvent, ServeRun, ServeStop, ServerEnds, Emit, Finish, client, Users
<1>5. QED BY <1>1, <1>2, <1>3, <1>4

LEMMA ServerLeavesOpening ==
    ASSUME NEW s \in Sockets, ServerEvent(s) PROVE UNCHANGED opening
BY DEF ServerEvent, ServeRun, ServeStop, ServerEnds, Emit, Finish, client

-----------------------------------------------------------------------------
(* The page and the shards it holds. *)
Live == {Page} \cup alive

(* Only they use the connection, have a render over HTTP, wait for a       *)
(* response or ask for a connection, and none of the old content is thrown *)
(* away while the members are being told that the socket has opened.       *)
UseInv ==
    /\ Users(Live, members, runIds, opening)
    /\ waiting \in SUBSET Live
    /\ \A u \in Units \ Live : http[u] = "no" /\ ~requires[u]
    /\ task # "none" => opening = {}

LEMMA UseInit == UnitsInit => UseInv
<1> SUFFICES ASSUME UnitsInit PROVE UseInv
    OBVIOUS
<1>1. members = {} /\ opening = {} /\ \A t \in Targets : runIds[t] = NoRun
    BY DEF UnitsInit, Init
<1>2. waiting = {} /\ \A u \in Units : http[u] = "no"
    BY DEF UnitsInit
<1>3. \A u \in Units \ Live : ~requires[u]
    BY DEF UnitsInit, Units, Live
<1>4. QED BY <1>1, <1>2, <1>3 DEF UseInv, Users

LEMMA SyncKeepsUse ==
    ASSUME TypeOK, NEW S, Users(S, members, runIds, opening), waiting \in SUBSET S,
           NEW u \in Units, NEW needs, NEW queue, NeedsOwn(u, needs) => u \in S,
           SyncConnection(u, needs, queue)
    PROVE  Users(S, members', runIds', opening') /\ waiting' \in SUBSET S
<1>1. u \in Targets
    BY UnitsAssumption DEF Units
<1>2. CASE ~NeedsOwn(u, needs) /\ u \in members /\ Leave(u)
  <2>1. u \in S /\ Call(u) /\ UNCHANGED waiting
    BY <1>2 DEF Users, Call, SyncConnection
  <2>2. QED BY <1>1, <2>1, CallsKeepUsers
<1>3. CASE NeedsOwn(u, needs) /\ Join(u)
  <2>1. u \in S /\ Call(u)
    BY <1>3 DEF Call
  <2>2. waiting' \in SUBSET S
    BY <2>1 DEF SyncConnection
  <2>3. QED BY <1>1, <2>1, <2>2, CallsKeepUsers
<1>4. CASE UNCHANGED vars
    BY <1>4 DEF SyncConnection, vars, client
<1>5. QED BY <1>2, <1>3, <1>4 DEF SyncConnection

LEMMA SnapshotKeepsUse ==
    ASSUME UnitTypes, UseInv, NEW u \in Live, SnapshotReplaces(u), opening = {},
           Users(Live, members', runIds', opening'), opening' = opening,
           http' \in [Units -> Phases], \A v \in Units : v # u => http'[v] = http[v]
    PROVE  UseInv'
<1>1. Live' = Live /\ UNCHANGED waiting
    BY DEF SnapshotReplaces, ShardReplaced, Live
<1>2. \A v \in Units \ Live : requires'[v] = requires[v] /\ http'[v] = http[v]
    BY DEF SnapshotReplaces, ShardReplaced, UnitTypes
<1>3. QED BY <1>1, <1>2 DEF UseInv

LEMMA UseStep ==
    TypeOK /\ RunMapsAgree /\ UnitTypes /\ UseInv /\ [UnitsNext]_allVars => UseInv'
<1> SUFFICES ASSUME TypeOK, RunMapsAgree, UnitTypes, UseInv, [UnitsNext]_allVars
             PROVE  UseInv'
    OBVIOUS
<1>0. Units = Targets /\ Page \in Live /\ Live \in SUBSET Units /\ Page \notin Shards
    BY UnitsAssumption DEF Units, Live, UnitTypes
<1>1. CASE RunCheck
  <2>1. Users(Live, members', runIds', opening') /\ UNCHANGED opening
    BY <1>0, <1>1, EventsKeepUsers DEF RunCheck, UseInv, CheckMembers
  <2>2. Live' = Live
    BY <1>1 DEF RunCheck, Live
  <2>3. QED BY <1>1, <2>1, <2>2 DEF RunCheck, UseInv
<1>2. CASE RunSync
  <2> DEFINE u == Head(micro).unit
  <2>1. Head(micro) \in Microtasks
    BY <1>2 DEF RunSync, UnitTypes
  <2>2. u \in Units
    BY <2>1, MicrotaskUnits
  <2>3. NeedsOwn(u, requires) => u \in Live
    BY <2>2 DEF NeedsOwn, UseInv
  <2>4. SyncConnection(u, requires, Tail(micro)) /\ task = "none"
    BY <1>2 DEF RunSync
  <2> HIDE DEF u
  <2>5. Users(Live, members', runIds', opening') /\ waiting' \in SUBSET Live
    BY <2>2, <2>3, <2>4, SyncKeepsUse DEF UseInv
  <2>6. Live' = Live
    BY <1>2 DEF RunSync, Live
  <2>7. \A v \in Units \ Live : http'[v] = http[v] /\ requires'[v] = requires[v]
    BY <1>0, <1>2 DEF RunSync, CancelRequest, UnitTypes
  <2>8. QED BY <1>2, <2>5, <2>6, <2>7 DEF RunSync, UseInv
<1>3. CASE Hydrate
  <2>1. PICK new \in SUBSET Shards, needs \in [Units -> BOOLEAN] :
            /\ \A u \in Shards \ new : ~needs[u]
            /\ alive' = new /\ requires' = needs
            /\ \E checks \in Checks(new) : SyncConnection(Page, needs, micro \o checks)
    BY <1>3 DEF Hydrate
  <2>2. PICK checks \in Checks(new) : SyncConnection(Page, needs, micro \o checks)
    BY <2>1
  <2>3. Users(Live, members', runIds', opening') /\ waiting' \in SUBSET Live
    BY <1>0, <2>2, SyncKeepsUse DEF UseInv
  <2>4. Live = {Page} /\ Live \in SUBSET Live'
    BY <1>3, <2>1 DEF Hydrate, Live
  <2>5. Users(Live', members', runIds', opening') /\ waiting' \in SUBSET Live'
    BY <2>3, <2>4 DEF Users
  <2>6. \A u \in Units \ Live' : http'[u] = "no" /\ ~requires'[u]
    BY <1>0, <1>3, <2>1, <2>4 DEF Hydrate, CancelRequest, UnitTypes, UseInv, Units, Live
  <2>7. task' = "none"
    BY <1>3 DEF Hydrate
  <2>8. QED BY <2>5, <2>6, <2>7 DEF UseInv
<1>4. CASE Commit \/ ReplaceDocument
  <2>1. Stop(Page) \/ ReplaceOverHttp(Page) \/ UNCHANGED vars
    BY <1>4 DEF Commit, ReplaceDocument
  <2>2. Users(Live, members', runIds', opening')
    BY <1>0, <2>1, CallsKeepUsers DEF Call, UseInv, vars, client
  <2>3. UNCHANGED opening /\ opening = {}
    BY <1>4, <2>1 DEF Commit, ReplaceDocument, Stop, ReplaceOverHttp, vars, client,
            Free, UseInv
  <2>4. Live' = Live /\ waiting' = waiting /\ requires' = requires
        /\ \A u \in Units \ Live : http'[u] = http[u]
    BY <1>0, <1>4 DEF Commit, ReplaceDocument, CancelRequest, Live, UnitTypes
  <2>5. QED BY <2>2, <2>3, <2>4 DEF UseInv
<1>5. CASE Navigate \/ LoadSwap \/ Loaded
  <2>1. Live' = Live /\ http' = http /\ UNCHANGED vars /\ waiting' \in SUBSET waiting
        /\ task' = task
    BY <1>5 DEF Navigate, LoadSwap, Loaded, Live, bounds
  <2>2. \A u \in Units \ Live : requires'[u] = requires[u]
    BY <1>0, <1>5 DEF Navigate, LoadSwap, Loaded, Swapped, UnitTypes
  <2>3. QED BY <2>1, <2>2 DEF UseInv, vars, client
<1>6. ASSUME NEW u \in Shards, DisposeShard(u) PROVE UseInv'
  <2>1. u \in Live /\ opening = {} /\ Live' = Live \ {u}
    BY <1>0, <1>6 DEF DisposeShard, Live, UseInv
  <2>2. Users(Live \ {u}, members', runIds', opening')
    <3>1. CASE Remove(u)
        BY <1>0, <2>1, <3>1, RemoveEndsUse DEF UseInv
    <3>2. CASE u \notin members /\ runIds[u] = NoRun /\ UNCHANGED vars
        BY <2>1, <3>2 DEF UseInv, Users, vars, client
    <3>3. QED BY <1>6, <3>1, <3>2 DEF DisposeShard, Abandon
  <2>3. opening' = opening
    BY <1>6 DEF DisposeShard, Abandon, Remove, vars, client
  <2>4. waiting' \in SUBSET (Live \ {u})
    BY <1>6 DEF DisposeShard, UseInv
  <2>5. \A v \in Units \ (Live \ {u}) : http'[v] = "no" /\ ~requires'[v]
    BY <1>6, <2>1 DEF DisposeShard, CancelRequest, UseInv, UnitTypes
  <2>6. QED BY <2>1, <2>2, <2>3, <2>4, <2>5 DEF UseInv
<1>7. ASSUME NEW u \in Units, RefreshConnected(u) \/ RefreshOverHttp(u) \/ HttpEnds(u)
      PROVE  UseInv'
  <2>1. u \in Live
    BY <1>7 DEF RefreshConnected, RefreshOverHttp, HttpEnds, Live, UseInv
  <2>2. Run(u) \/ Stop(u) \/ UNCHANGED vars
    BY <1>7 DEF RefreshConnected, RefreshOverHttp, HttpEnds
  <2>3. Users(Live, members', runIds', opening') /\ UNCHANGED opening
    BY <1>0, <2>1, <2>2, CallsKeepUsers DEF Call, UseInv, Run, Stop, vars, client
  <2>4. Live' = Live /\ UNCHANGED <<waiting, requires, task>>
        /\ \A v \in Units \ Live : http'[v] = http[v]
    BY <1>7, <2>1 DEF RefreshConnected, RefreshOverHttp, HttpEnds, CancelRequest, Live,
                     UnitTypes, bounds
  <2>5. QED BY <2>3, <2>4 DEF UseInv
<1>8. ASSUME NEW u \in Units, HttpSnapshot(u) PROVE UseInv'
  <2>1. u \in Live /\ opening = {}
    BY <1>8 DEF HttpSnapshot, UseInv, Free
  <2>2. Users(Live, members', runIds', opening') /\ UNCHANGED opening
    BY <1>0, <1>8, <2>1, CallsKeepUsers
       DEF HttpSnapshot, Call, UseInv, ReplaceOverHttp, vars, client
  <2>3. http' = [http EXCEPT ![u] = "streaming"] /\ SnapshotReplaces(u)
    BY <1>8 DEF HttpSnapshot
  <2>4. http' \in [Units -> Phases] /\ \A v \in Units : v # u => http'[v] = http[v]
    BY <2>3 DEF UnitTypes, Phases
  <2>5. QED BY <2>1, <2>2, <2>3, <2>4, SnapshotKeepsUse
<1>9. ASSUME NEW u \in Units, HttpSwap(u) PROVE UseInv'
  <2>1. u \in Live
    BY <1>9 DEF HttpSwap, UseInv
  <2>2. Live' = Live /\ UNCHANGED <<waiting, http, task, vars>>
        /\ \A v \in Units \ Live : requires'[v] = requires[v]
    BY <1>9, <2>1 DEF HttpSwap, Swapped, Live, UnitTypes
  <2>3. QED BY <2>2 DEF UseInv, vars, client
<1>10. ASSUME NEW u \in Units, UnitOpened(u) PROVE UseInv'
  <2>1. u \in Live /\ (OpenedRuns(u) \/ OpenedLeaves(u))
    BY <1>10 DEF UnitOpened, OpenedRuns, OpenedLeaves, UseInv, Users
  <2>2. Users(Live, members', runIds', opening')
    BY <1>0, <2>1, CallsKeepUsers DEF Opened, UseInv
  <2>3. UNCHANGED <<alive, waiting, requires, http, task>> /\ task = "none"
    BY <1>10 DEF UnitOpened, OpenedRuns, OpenedLeaves, UseInv
  <2>4. QED BY <2>2, <2>3 DEF UseInv, Live
<1>11. CASE FrameTask
  <2>1. PICK s \in Sockets :
            FrameDropped(s) \/ \E u \in Units : ConnectedSnapshot(s, u) \/ ConnectedSwap(s, u)
    BY <1>11 DEF FrameTask
  <2>2. Receive(s) /\ Free /\ UNCHANGED client
    BY <2>1 DEF FrameDropped, ConnectedSnapshot, ConnectedSwap, Receive
  <2>3. Users(Live, members', runIds', opening') /\ UNCHANGED opening /\ opening = {}
    BY <2>2 DEF client, UseInv, Free
  <2>4. ASSUME NEW u \in Units, Accepted(Head(toClient[s]), u) PROVE u \in Live
    <3>1. Head(toClient[s]) \in 1..lastRun /\ Head(toClient[s]) # NoRun
        BY <2>4 DEF Accepted, TypeOK, NoRun
    <3>2. runIds[u] = Head(toClient[s])
        BY <1>0, <2>4, <3>1 DEF Accepted, RunMapsAgree
    <3>3. QED BY <1>0, <3>1, <3>2 DEF UseInv, Users
  <2>5. CASE FrameDropped(s)
    BY <2>3, <2>5 DEF FrameDropped, unitVars, UseInv, Live
  <2>6. ASSUME NEW u \in Units, ConnectedSnapshot(s, u) PROVE UseInv'
    <3>1. u \in Live /\ SnapshotReplaces(u) /\ CancelRequest(u)
        BY <2>4, <2>6 DEF ConnectedSnapshot
    <3>2. http' \in [Units -> Phases] /\ \A v \in Units : v # u => http'[v] = http[v]
        BY <3>1 DEF CancelRequest, UnitTypes, Phases
    <3>3. QED BY <2>3, <3>1, <3>2, SnapshotKeepsUse
  <2>7. ASSUME NEW u \in Units, ConnectedSwap(s, u) PROVE UseInv'
    <3>1. u \in Live
        BY <2>4, <2>7 DEF ConnectedSwap
    <3>2. Live' = Live /\ UNCHANGED <<waiting, http, task>>
          /\ \A v \in Units \ Live : requires'[v] = requires[v]
        BY <2>7, <3>1 DEF ConnectedSwap, Swapped, SwapKeepsNeed, Live, UnitTypes
    <3>3. QED BY <2>3, <3>2 DEF UseInv
  <2>8. QED BY <2>1, <2>5, <2>6, <2>7
<1>12. CASE SocketTask \/ ServerTask
  <2>1. Users(Live, members', runIds', opening')
    BY <1>0, <1>12, EventsKeepUsers DEF SocketTask, ServerTask, SocketEvent, UseInv
  <2>2. /\ UNCHANGED <<alive, requires, waiting, http, task>>
        /\ task = "none" \/ UNCHANGED opening
    BY <1>12, ServerLeavesOpening DEF SocketTask, ServerTask, Free, unitVars
  <2>3. QED BY <2>1, <2>2 DEF UseInv, Live
<1>13. CASE UNCHANGED allVars
    BY <1>13 DEF allVars, vars, client, unitVars, UseInv, Live
<1>14. QED BY <1>1, <1>2, <1>3, <1>4, <1>5, <1>6, <1>7, <1>8, <1>9, <1>10, <1>11,
              <1>12, <1>13 DEF UnitsNext

LEMMA UseHolds == UnitsSpec => []UseInv
<1>1. IInv => TypeOK /\ RunMapsAgree
    BY DEF IInv
<1>2. QED BY <1>1, UseInit, UseStep, UnitTypesHold, UnitsUseConnection, Invariance, PTL
          DEF UnitsSpec

(* Whatever is in flight when a shard leaves the document - a render over  *)
(* either transport, a callback, its membership - goes with it.            *)
THEOREM GoneShardsHaveLetGo == UnitsSpec => []GoneShardsLetGo
<1>1. UseInv => GoneShardsLetGo
  <2>1. SUFFICES ASSUME UseInv, NEW u \in Shards \ alive
                 PROVE  /\ u \notin members /\ runIds[u] = NoRun
                        /\ http[u] = "no" /\ u \notin waiting
    BY DEF GoneShardsLetGo
  <2>2. u \in Units \ Live /\ u \in Targets
    BY UnitsAssumption DEF Units, Live
  <2>3. QED BY <2>1, <2>2 DEF UseInv, Users
<1>2. QED BY <1>1, UseHolds, PTL

-----------------------------------------------------------------------------
(* Responses over HTTP and connected renders. *)

(* Short of receiving a frame, no step makes a unit show its current run:  *)
(* a new run has an id that was never shown.                               *)
LEMMA NewRunsAreNotShown ==
    ASSUME IInv, [Next]_vars, NEW u \in Targets, shown'[u] = shown[u],
           runIds'[u] # NoRun, shown'[u] = runIds'[u]
    PROVE  runIds'[u] = runIds[u]
<1>1. /\ runIds \in [Targets -> 0..lastRun] /\ shown \in [Targets -> 0..lastRun]
      /\ lastRun \in Nat
    BY DEF IInv, TypeOK
<1>2. [Latest!Next]_Latest!vars
    BY StepRefines
<1>3. ASSUME NEW t \in Targets, Latest!Start(t) PROVE runIds'[u] = runIds[u]
    BY <1>1, <1>3 DEF Latest!Start
<1>4. ASSUME NEW t \in Targets, Latest!Show(t) \/ Latest!Replace(t)
      PROVE  runIds'[u] = runIds[u]
    BY <1>4 DEF Latest!Show, Latest!Replace
<1>5. ASSUME NEW S \in SUBSET Targets, Latest!Stop(S) PROVE runIds'[u] = runIds[u]
    BY <1>5 DEF Latest!Stop, Latest!NoRender, NoRun
<1>6. CASE UNCHANGED Latest!vars
    BY <1>6 DEF Latest!vars
<1>7. QED BY <1>2, <1>3, <1>4, <1>5, <1>6 DEF Latest!Next

(* So NoStaleResponse is safe from every step that starts a request only   *)
(* for a unit without a run, and ends it before the unit shows a run.      *)
LEMMA StaysFresh ==
    ASSUME IInv, [Next]_vars, NoStaleResponse,
           \A u \in Units :
                \/ http'[u] = "no"
                \/ runIds'[u] = NoRun
                \/ shown'[u] = NoRun
                \/ http'[u] = http[u] /\ shown'[u] = shown[u]
    PROVE  NoStaleResponse'
<1>1. SUFFICES ASSUME NEW u \in Units, runIds'[u] # NoRun, shown'[u] = runIds'[u]
               PROVE  http'[u] = "no"
    BY DEF NoStaleResponse
<1>2. CASE http'[u] = http[u] /\ shown'[u] = shown[u]
  <2>1. u \in Targets
    BY UnitsAssumption DEF Units
  <2>2. runIds'[u] = runIds[u]
    BY <1>1, <1>2, <2>1, NewRunsAreNotShown
  <2>3. QED BY <1>1, <1>2, <2>2 DEF NoStaleResponse
<1>3. QED BY <1>1, <1>2

LEMMA FreshStep ==
    IInv /\ UnitTypes /\ NoStaleResponse /\ [UnitsNext]_allVars => NoStaleResponse'
<1> SUFFICES ASSUME IInv, UnitTypes, NoStaleResponse, [UnitsNext]_allVars
             PROVE  NoStaleResponse'
    OBVIOUS
<1>0. [Next]_vars /\ Units = Targets /\ shown \in [Targets -> 0..lastRun]
      /\ runIds \in [Targets -> 0..lastRun] /\ http \in [Units -> Phases]
    BY StepConnects, UnitsAssumption DEF Units, UnitTypes, IInv, TypeOK
<1>1. CASE UNCHANGED <<shown, http>>
    BY <1>0, <1>1, StaysFresh
<1>2. CASE RunCheck \/ RunSync \/ Hydrate \/ Navigate \/ Commit \/ LoadSwap \/ Loaded
  <2>1. UNCHANGED shown
    BY <1>2 DEF RunCheck, RunSync, Hydrate, Navigate, Commit, LoadSwap, Loaded,
            SyncConnection, CheckMembers, Join, JoinOpen, JoinConnect, JoinWait,
            Leave, Stop, vars, client
  <2>2. UNCHANGED http \/ http' = [http EXCEPT ![Page] = "no"]
    BY <1>2 DEF RunCheck, RunSync, Hydrate, Navigate, Commit, LoadSwap, Loaded, CancelRequest
  <2>3. QED BY <1>0, <2>1, <2>2, StaysFresh
<1>3. CASE ReplaceDocument
  <2>1. /\ http' = [http EXCEPT ![Page] = "no"]
        /\ shown' = [shown EXCEPT ![Page] = NoRun] \/ UNCHANGED shown
    BY <1>3 DEF ReplaceDocument, CancelRequest, ReplaceOverHttp, vars
  <2>2. QED BY <1>0, <2>1, StaysFresh
<1>4. ASSUME NEW u \in Shards, DisposeShard(u) PROVE NoStaleResponse'
  <2>1. http' = [http EXCEPT ![u] = "no"] /\ UNCHANGED shown
    BY <1>4 DEF DisposeShard, CancelRequest, Abandon, Remove, vars
  <2>2. QED BY <1>0, <2>1, StaysFresh
<1>5. ASSUME NEW u \in Units, RefreshConnected(u) \/ HttpEnds(u)
      PROVE  NoStaleResponse'
  <2>1. http' = [http EXCEPT ![u] = "no"] /\ UNCHANGED shown
    BY <1>5 DEF RefreshConnected, HttpEnds, CancelRequest, Run, vars
  <2>2. QED BY <1>0, <2>1, StaysFresh
<1>6. ASSUME NEW u \in Units, RefreshOverHttp(u) PROVE NoStaleResponse'
  <2>1. http' = [http EXCEPT ![u] = "requested"] /\ UNCHANGED shown /\ runIds'[u] = NoRun
    BY <1>0, <1>6 DEF RefreshOverHttp, Stop, StopRun, vars, client
  <2>2. QED BY <1>0, <2>1, StaysFresh
<1>7. ASSUME NEW u \in Units, HttpSnapshot(u) PROVE NoStaleResponse'
  <2>1. http' = [http EXCEPT ![u] = "streaming"]
        /\ shown'[u] = NoRun /\ \A v \in Units : v # u => shown'[v] = shown[v]
    BY <1>0, <1>7 DEF HttpSnapshot, ReplaceOverHttp, vars
  <2>2. QED BY <1>0, <2>1, StaysFresh
<1>8. ASSUME NEW u \in Units, HttpSwap(u) \/ UnitOpened(u) PROVE NoStaleResponse'
  <2>1. UNCHANGED <<shown, http>>
    BY <1>8 DEF HttpSwap, UnitOpened, OpenedRuns, OpenedLeaves, vars
  <2>2. QED BY <1>1, <2>1
<1>9. CASE FrameTask
  <2>1. PICK s \in Sockets :
            FrameDropped(s) \/ \E u \in Units : ConnectedSnapshot(s, u) \/ ConnectedSwap(s, u)
    BY <1>9 DEF FrameTask
  <2>2. CASE FrameDropped(s)
    BY <1>1, <2>2 DEF FrameDropped, Receive, Apply, unitVars
  <2>3. ASSUME NEW u \in Units, ConnectedSnapshot(s, u) PROVE NoStaleResponse'
    <3>1. http' = [http EXCEPT ![u] = "no"] /\ \A v \in Units : v # u => shown'[v] = shown[v]
        BY <1>0, <2>3 DEF ConnectedSnapshot, CancelRequest, Accepted, Receive, Apply
    <3>2. QED BY <1>0, <3>1, StaysFresh
  <2>4. ASSUME NEW u \in Units, ConnectedSwap(s, u) PROVE NoStaleResponse'
    <3>1. UNCHANGED http /\ \A v \in Units : shown'[v] = shown[v]
        BY <1>0, <2>4 DEF ConnectedSwap, Accepted, Receive, Apply
    <3>2. QED BY <1>0, <3>1, StaysFresh
  <2>5. QED BY <2>1, <2>2, <2>3, <2>4
<1>10. CASE SocketTask \/ ServerTask
  <2>1. UNCHANGED <<shown, http>>
    BY <1>10
       DEF SocketTask, ServerTask, RetryFires, OpenEvent, CloseBegins, CloseEvent,
           ServerEvent, ServeRun, ServeStop, ServerEnds, Emit, Finish, unitVars
  <2>2. QED BY <1>1, <2>1
<1>11. CASE UNCHANGED allVars
    BY <1>1, <1>11 DEF allVars, vars, unitVars
<1>12. QED BY <1>2, <1>3, <1>4, <1>5, <1>6, <1>7, <1>8, <1>9, <1>10, <1>11 DEF UnitsNext

(* However requests, runs, navigations and replacements overlap, a render  *)
(* over HTTP never overwrites a connected render that is already shown.    *)
THEOREM NoResponseIsStale == UnitsSpec => []NoStaleResponse
<1>1. UnitsInit => NoStaleResponse
    BY DEF UnitsInit, NoStaleResponse
<1>2. QED BY <1>1, FreshStep, UnitTypesHold, UnitsUseConnection, Invariance, PTL
          DEF UnitsSpec
-----------------------------------------------------------------------------
(* The queue of microtasks. *)

InQueue(q, m) == \E i \in 1..Len(q) : q[i] = m

LEMMA ChecksDiffer ==
    ASSUME NEW u \in Units
    PROVE  SyncOf(u) # Check /\ \A v \in Units : SyncOf(u) = SyncOf(v) => u = v
BY DEF SyncOf, Check

LEMMA AppendKeepsQueued ==
    ASSUME NEW q \in Seq(Microtasks), NEW m \in Microtasks
    PROVE  /\ InQueue(Append(q, m), m)
           /\ \A n : InQueue(q, n) => InQueue(Append(q, m), n)
<1>1. Len(Append(q, m)) = Len(q) + 1 /\ Append(q, m)[Len(q) + 1] = m /\ Len(q) \in Nat
    OBVIOUS
<1>2. \A i \in 1..Len(q) : Append(q, m)[i] = q[i]
    OBVIOUS
<1>3. QED BY <1>1, <1>2 DEF InQueue

LEMMA ConcatKeepsQueued ==
    ASSUME NEW q \in Seq(Microtasks), NEW r \in Seq(Microtasks), NEW n,
           InQueue(q, n) \/ InQueue(r, n)
    PROVE  InQueue(q \o r, n)
<1>1. /\ Len(q \o r) = Len(q) + Len(r) /\ Len(q) \in Nat /\ Len(r) \in Nat
      /\ \A i \in 1..Len(q) + Len(r) : (q \o r)[i] = IF i <= Len(q) THEN q[i] ELSE r[i - Len(q)]
    BY ConcatProperties
<1>2. CASE InQueue(q, n)
    BY <1>1, <1>2 DEF InQueue
<1>3. CASE InQueue(r, n)
  <2>1. PICK i \in 1..Len(r) : r[i] = n
    BY <1>3 DEF InQueue
  <2>2. /\ i + Len(q) \in 1..Len(q) + Len(r) /\ ~(i + Len(q) <= Len(q))
        /\ (i + Len(q)) - Len(q) = i
    BY <1>1
  <2>3. (q \o r)[i + Len(q)] = n
    BY <1>1, <2>1, <2>2
  <2>4. QED BY <1>1, <2>2, <2>3 DEF InQueue
<1>4. QED BY <1>2, <1>3

LEMMA TailKeepsQueued ==
    ASSUME NEW q \in Seq(Microtasks), q # << >>, NEW n, InQueue(q, n), Head(q) # n
    PROVE  InQueue(Tail(q), n)
<1>1. /\ Len(Tail(q)) = Len(q) - 1 /\ Len(q) \in Nat
      /\ \A i \in 1..Len(Tail(q)) : Tail(q)[i] = q[i + 1]
    BY HeadTailProperties
<1>2. Head(q) = q[1]
    OBVIOUS
<1>3. PICK i \in 1..Len(q) : q[i] = n
    BY DEF InQueue
<1>4. i # 1
    BY <1>2, <1>3
<1>5. i - 1 \in 1..Len(Tail(q)) /\ (i - 1) + 1 = i
    BY <1>1, <1>4
<1>6. Tail(q)[i - 1] = n
    BY <1>1, <1>3, <1>5
<1>7. QED BY <1>5, <1>6 DEF InQueue

LEMMA ChecksQueueAll ==
    ASSUME NEW S \in SUBSET Units, NEW q \in Checks(S), NEW u \in S
    PROVE  InQueue(q, SyncOf(u))
<1>1. q \in Seq(Microtasks)
    BY ChecksAreMicrotasks
<1>2. DOMAIN q = 1..Len(q)
    BY <1>1
<1>3. QED BY <1>2 DEF Checks, InQueue

-----------------------------------------------------------------------------
(* Nobody misses a turn to check.  A unit that needs a connection of its   *)
(* own is a member, waits for the response, or has a check in the queue of *)
(* microtasks, unless a swap of the page has left it on its own.  And a    *)
(* member whose content asks for nothing any more has a check in the queue,*)
(* with which it leaves.                                                   *)
HasTurn(u) ==
    \/ u \in members
    \/ u \in waiting
    \/ InQueue(micro, SyncOf(u))

TurnInv ==
    /\ loading = "no" => waiting = {}
    /\ task = "none" =>
        /\ \A u \in Live \ uncovered : NeedsOwn(u, requires) => HasTurn(u)
        /\ \A u \in members : requires[u] \/ InQueue(micro, SyncOf(u))

LEMMA TurnInit == UnitsInit => TurnInv
<1>0. ASSUME UnitsInit, \A u \in Live : InQueue(micro, SyncOf(u))
      PROVE  TurnInv
  <2>1. members = {} /\ waiting = {}
    BY <1>0 DEF UnitsInit, Init
  <2>2. QED BY <1>0, <2>1 DEF TurnInv, HasTurn
<1> SUFFICES ASSUME UnitsInit, NEW u \in Live PROVE InQueue(micro, SyncOf(u))
    BY <1>0
<1>1. PICK checks \in Checks(alive) : micro = <<SyncOf(Page)>> \o checks
    BY DEF UnitsInit
<1>2. alive \in SUBSET Units /\ Page \in Units
    BY DEF UnitsInit, Units
<1>3. checks \in Seq(Microtasks) /\ <<SyncOf(Page)>> \in Seq(Microtasks)
    BY <1>2, ChecksAreMicrotasks, MicrotaskUnits
<1>4. CASE u = Page
  <2>1. InQueue(<<SyncOf(Page)>>, SyncOf(Page))
    BY DEF InQueue
  <2>2. QED BY <1>1, <1>3, <1>4, <2>1, ConcatKeepsQueued
<1>5. CASE u \in alive
    BY <1>1, <1>2, <1>3, <1>5, ChecksQueueAll, ConcatKeepsQueued
<1>6. QED BY <1>4, <1>5 DEF Live

(* A check makes of u what its content asks for, and takes nobody's turn.  *)
LEMMA SyncTakesTurn ==
    ASSUME UnitTypes, TurnInv, NEW u \in Units, NEW needs, NEW queue \in Seq(Microtasks),
           SyncConnection(u, needs, queue)
    PROVE  /\ NeedsOwn(u, needs) => u \in members' \/ u \in waiting'
           /\ u \in members' => NeedsOwn(u, needs)
           /\ \A v : v # u => (v \in members <=> v \in members')
           /\ waiting \in SUBSET waiting'
           /\ loading = "no" => waiting' = {}
           /\ \A m : InQueue(queue, m) => InQueue(micro', m)
<1>1. micro' = queue \/ micro' = Append(queue, Check)
    BY DEF SyncConnection, QueueCheck
<1>2. \A m : InQueue(queue, m) => InQueue(micro', m)
    BY <1>1, AppendKeepsQueued, MicrotaskUnits
<1>3. CASE ~NeedsOwn(u, needs)
    BY <1>2, <1>3 DEF SyncConnection, Leave, vars, client, TurnInv
<1>4. CASE NeedsOwn(u, needs) /\ Join(u)
    BY <1>2, <1>4 DEF SyncConnection, Join, JoinOpen, JoinConnect, JoinWait, TurnInv
<1>5. CASE NeedsOwn(u, needs) /\ UNCHANGED vars
  <2>1. members' = members
    BY <1>5 DEF vars, client
  <2>2. \/ waiting' = waiting \cup {u} /\ loading # "no"
        \/ waiting' = waiting /\ u \in members
    BY <1>5 DEF SyncConnection, Join, JoinOpen, JoinConnect, JoinWait, vars, client
  <2>3. loading = "no" => waiting' = {}
    BY <2>2 DEF TurnInv
  <2>4. QED BY <1>2, <1>5, <2>1, <2>2, <2>3
<1>6. QED BY <1>3, <1>4, <1>5 DEF SyncConnection

(* A step after which the same units are members and ask for the same.     *)
LEMMA KeepsTurns ==
    ASSUME TurnInv, UseInv, Live \in SUBSET Units,
           UNCHANGED <<alive, requires, waiting, members, task, uncovered>>,
           loading' = loading \/ loading' # "no",
           \A u \in Units : InQueue(micro, SyncOf(u)) => InQueue(micro', SyncOf(u))
    PROVE  TurnInv'
<1>1. Live' = Live /\ members \in SUBSET Live
    BY DEF Live, UseInv, Users
<1>2. \A u \in Live : HasTurn(u) => HasTurn(u)'
    BY DEF HasTurn
<1>3. \A u \in Live : NeedsOwn(u, requires)' = NeedsOwn(u, requires)
    BY DEF NeedsOwn, Covered
<1>4. QED BY <1>1, <1>2, <1>3 DEF TurnInv

(* A swap into u, after which u checks.  With an empty queue everybody had *)
(* their turn before it.                                                   *)
LEMMA SwapKeepsTurns ==
    ASSUME TurnInv, UseInv, UnitTypes, Free, Live \in SUBSET Units, NEW u \in Live,
           Swapped(u) \/ SwapKeepsNeed(u), micro' = <<SyncOf(u)>>,
           UNCHANGED <<alive, loading, waiting, members, task>>
    PROVE  TurnInv'
<1>1. Live' = Live /\ members \in SUBSET Live
    BY DEF Live, UseInv, Users
<1>2. \A v \in Units \ {u} : requires'[v] = requires[v]
    BY DEF Swapped, SwapKeepsNeed, UnitTypes
<1>3. InQueue(micro', SyncOf(u)) /\ \A m : ~InQueue(micro, m)
    BY DEF InQueue, Free
<1>4. ASSUME NEW v \in Live \ uncovered', NeedsOwn(v, requires)'
      PROVE  HasTurn(v)'
  <2>1. CASE v = u
    BY <1>3, <2>1 DEF HasTurn
  <2>2. CASE v # u
    <3>1. v \notin uncovered /\ requires[v]
        BY <1>2, <1>4, <2>2 DEF NeedsOwn, Swapped, SwapKeepsNeed
    <3>2. ~Covered(v, requires)
        <4>1. v # Page => ~requires'[Page]
            BY <1>4 DEF NeedsOwn, Covered
        <4>2. CASE u = Page /\ Swapped(u)
            <5>1. v \in alive /\ ~requires[Page]
                BY <1>4, <2>2, <4>2 DEF Swapped, Live
            <5>2. requires'[Page]
                BY <4>2, <5>1 DEF Swapped, UnitTypes, Units
            <5>3. QED BY <2>2, <4>1, <4>2, <5>2
        <4>3. CASE u # Page \/ SwapKeepsNeed(u)
            BY <1>2, <4>1, <4>3 DEF Covered, SwapKeepsNeed, Units
        <4>4. QED BY <4>2, <4>3
    <3>3. v \in members \/ v \in waiting
        BY <1>3, <3>1, <3>2 DEF TurnInv, HasTurn, Free, NeedsOwn
    <3>4. QED BY <3>3 DEF HasTurn
  <2>3. QED BY <2>1, <2>2
<1>5. ASSUME NEW v \in members'
      PROVE  requires'[v] \/ InQueue(micro', SyncOf(v))
    BY <1>1, <1>2, <1>3, <1>5 DEF TurnInv, Free
<1>6. QED BY <1>1, <1>2, <1>4, <1>5 DEF TurnInv

(* The content of a shard is replaced: it is to check.                     *)
LEMMA SnapshotKeepsTurns ==
    ASSUME TurnInv, UseInv, UnitTypes, Live \in SUBSET Units, NEW u \in Live,
           SnapshotReplaces(u), UNCHANGED <<members, uncovered>>
    PROVE  TurnInv'
<1>1. CASE u = Page
    BY <1>1 DEF SnapshotReplaces, TurnInv
<1>2. CASE u # Page
  <2>1. /\ UNCHANGED <<alive, loading, waiting, task>> /\ micro' = Append(micro, SyncOf(u))
        /\ \A v \in Units \ {u} : requires'[v] = requires[v]
    BY <1>2 DEF SnapshotReplaces, ShardReplaced, UnitTypes
  <2>2. Live' = Live /\ members \in SUBSET Live /\ Page \in Units \ {u}
    BY <1>2, <2>1 DEF Live, UseInv, Users, Units
  <2>3. InQueue(micro', SyncOf(u)) /\ \A m : InQueue(micro, m) => InQueue(micro', m)
    BY <2>1, AppendKeepsQueued, MicrotaskUnits DEF UnitTypes
  <2>4. ASSUME NEW v \in Live \ uncovered, task = "none", NeedsOwn(v, requires)'
        PROVE  HasTurn(v)'
    <3>1. CASE v = u
        BY <2>3, <3>1 DEF HasTurn
    <3>2. CASE v # u
        BY <2>1, <2>2, <2>3, <2>4, <3>2 DEF NeedsOwn, Covered, HasTurn, TurnInv
    <3>3. QED BY <3>1, <3>2
  <2>5. ASSUME NEW v \in members', task = "none"
        PROVE  requires'[v] \/ InQueue(micro', SyncOf(v))
    BY <2>1, <2>2, <2>3, <2>5 DEF TurnInv
  <2>6. QED BY <2>1, <2>2, <2>4, <2>5 DEF TurnInv
<1>3. QED BY <1>1, <1>2

LEMMA TurnStep ==
    TypeOK /\ RunMapsAgree /\ UnitTypes /\ UseInv /\ TurnInv /\ [UnitsNext]_allVars => TurnInv'
<1> SUFFICES ASSUME TypeOK, RunMapsAgree, UnitTypes, UseInv, TurnInv, [UnitsNext]_allVars
             PROVE  TurnInv'
    OBVIOUS
<1>0. /\ Units = Targets /\ Page \in Live /\ Live \in SUBSET Units /\ Page \notin Shards
      /\ micro \in Seq(Microtasks) /\ members \in SUBSET Live
    BY UnitsAssumption DEF Units, Live, UnitTypes, UseInv, Users
<1>1. CASE RunCheck
  <2>1. \A u \in Units : InQueue(micro, SyncOf(u)) => InQueue(micro', SyncOf(u))
    BY <1>0, <1>1, TailKeepsQueued, ChecksDiffer DEF RunCheck
  <2>2. UNCHANGED <<alive, requires, waiting, members, task, uncovered, loading>>
    BY <1>1 DEF RunCheck, CheckMembers, history
  <2>3. QED BY <1>0, <2>1, <2>2, KeepsTurns
<1>2. CASE RunSync
  <2>1. PICK u \in Units : Head(micro) = SyncOf(u)
    <3>1. Head(micro) \in Microtasks
        BY <1>0, <1>2 DEF RunSync
    <3>2. QED BY <1>2, <3>1 DEF RunSync, Microtasks, Check
  <2>2. SyncConnection(u, requires, Tail(micro)) /\ Tail(micro) \in Seq(Microtasks)
    BY <1>0, <1>2, <2>1 DEF RunSync, SyncOf
  <2>3. \A v \in Units : v # u /\ InQueue(micro, SyncOf(v)) => InQueue(micro', SyncOf(v))
    BY <1>0, <1>2, <2>1, <2>2, TailKeepsQueued, ChecksDiffer, SyncTakesTurn DEF RunSync
  <2>4. UNCHANGED <<alive, requires, loading, task>> /\ uncovered' = uncovered \ {u}
    BY <1>2, <2>1 DEF RunSync, SyncOf
  <2>5. /\ NeedsOwn(u, requires) => u \in members' \/ u \in waiting'
        /\ u \in members' => NeedsOwn(u, requires)
        /\ \A v : v # u => (v \in members <=> v \in members')
        /\ waiting \in SUBSET waiting'
        /\ loading = "no" => waiting' = {}
    BY <2>2, SyncTakesTurn
  <2>6. ASSUME NEW v \in Live \ uncovered', NeedsOwn(v, requires), task = "none"
        PROVE  HasTurn(v)'
    BY <1>0, <2>3, <2>4, <2>5, <2>6 DEF HasTurn, TurnInv
  <2>7. ASSUME NEW v \in members', task = "none"
        PROVE  requires[v] \/ InQueue(micro', SyncOf(v))
    BY <1>0, <2>3, <2>5, <2>7 DEF NeedsOwn, TurnInv
  <2>8. Live' = Live /\ \A v \in Live : NeedsOwn(v, requires)' = NeedsOwn(v, requires)
    BY <2>4 DEF Live, NeedsOwn, Covered
  <2>9. QED BY <2>4, <2>5, <2>6, <2>7, <2>8 DEF TurnInv
<1>3. CASE Hydrate
  <2>0. PICK new \in SUBSET Shards, needs \in [Units -> BOOLEAN] :
            /\ alive' = new /\ requires' = needs
            /\ \E checks \in Checks(new) : SyncConnection(Page, needs, micro \o checks)
    BY <1>3 DEF Hydrate
  <2>1. PICK checks \in Checks(new) : SyncConnection(Page, needs, micro \o checks)
    BY <2>0
  <2>2. new \in SUBSET Units /\ checks \in Seq(Microtasks)
    BY <2>1, ChecksAreMicrotasks DEF Units
  <2>3. micro \o checks \in Seq(Microtasks)
    BY <1>0, <2>2
  <2>4. /\ NeedsOwn(Page, needs) => Page \in members' \/ Page \in waiting'
        /\ Page \in members' => NeedsOwn(Page, needs)
        /\ \A v : v # Page => (v \in members <=> v \in members')
        /\ loading = "no" => waiting' = {}
        /\ \A m : InQueue(micro \o checks, m) => InQueue(micro', m)
    BY <1>0, <2>1, <2>3, SyncTakesTurn
  <2>5. \A v \in new : InQueue(micro', SyncOf(v))
    BY <1>0, <2>1, <2>2, <2>4, ChecksQueueAll, ConcatKeepsQueued
  <2>6. Live' = {Page} \cup new /\ UNCHANGED loading
    BY <1>3, <2>0 DEF Hydrate, Live
  <2>7. members \in SUBSET {Page}
    BY <1>0, <1>3 DEF Hydrate, Live
  <2>8. QED BY <2>0, <2>4, <2>5, <2>6, <2>7 DEF TurnInv, HasTurn, NeedsOwn
<1>4. CASE Navigate
    BY <1>0, <1>4, KeepsTurns DEF Navigate, vars, client, history
<1>5. CASE Commit \/ ReplaceDocument
    BY <1>5 DEF Commit, ReplaceDocument, TurnInv
<1>6. CASE LoadSwap
    BY <1>0, <1>6, SwapKeepsTurns DEF LoadSwap, vars, client
<1>7. CASE Loaded
  <2>1. /\ UNCHANGED <<alive, requires, members, task, uncovered>> /\ waiting' = {}
        /\ micro' \in Checks(waiting) /\ Free
    BY <1>7 DEF Loaded, WakeWaiting, vars, client, history
  <2>2. \A u \in waiting : InQueue(micro', SyncOf(u))
    BY <2>1, ChecksQueueAll DEF UnitTypes
  <2>3. \A m : ~InQueue(micro, m)
    BY <2>1 DEF Free, InQueue
  <2>4. Live' = Live /\ \A u \in Live : NeedsOwn(u, requires)' = NeedsOwn(u, requires)
    BY <2>1 DEF Live, NeedsOwn, Covered
  <2>5. QED BY <2>1, <2>2, <2>3, <2>4 DEF TurnInv, HasTurn, Free
<1>8. ASSUME NEW u \in Shards, DisposeShard(u) PROVE TurnInv'
    BY <1>8 DEF DisposeShard, TurnInv
<1>9. ASSUME NEW u \in Units, RefreshConnected(u) \/ RefreshOverHttp(u) \/ HttpEnds(u)
      PROVE  TurnInv'
  <2>1. UNCHANGED <<alive, requires, waiting, members, task, uncovered, loading, micro>>
    BY <1>9 DEF RefreshConnected, RefreshOverHttp, HttpEnds, Run, Stop, vars, client, history
  <2>2. QED BY <1>0, <2>1, KeepsTurns
<1>10. ASSUME NEW u \in Units, HttpSnapshot(u) PROVE TurnInv'
  <2>1. u \in Live /\ SnapshotReplaces(u) /\ UNCHANGED <<members, uncovered>>
    BY <1>10 DEF HttpSnapshot, UseInv, ReplaceOverHttp, vars, client, history
  <2>2. QED BY <1>0, <2>1, SnapshotKeepsTurns
<1>11. ASSUME NEW u \in Units, HttpSwap(u) PROVE TurnInv'
  <2>1. u \in Live
    BY <1>11 DEF HttpSwap, UseInv
  <2>2. QED BY <1>0, <1>11, <2>1, SwapKeepsTurns DEF HttpSwap, vars, client
<1>12. ASSUME NEW u \in Units, UnitOpened(u) PROVE TurnInv'
  <2>1. CASE OpenedRuns(u) /\ UNCHANGED <<alive, requires, waiting, task, micro, uncovered, loading>>
    BY <1>0, <2>1, KeepsTurns DEF OpenedRuns
  <2>2. CASE ~NeedsOwn(u, requires) /\ OpenedLeaves(u) /\ QueueCheck(micro)
             /\ UNCHANGED <<alive, requires, loading, waiting, task, uncovered>>
    <3>1. /\ members' = members \ {u}
          /\ UNCHANGED <<alive, requires, loading, waiting, task, uncovered>>
        BY <2>2 DEF OpenedLeaves
    <3>2. \A m : InQueue(micro, m) => InQueue(micro', m)
        BY <1>0, <2>2, AppendKeepsQueued, MicrotaskUnits DEF QueueCheck
    <3>3. Live' = Live /\ \A v \in Live : NeedsOwn(v, requires)' = NeedsOwn(v, requires)
        BY <3>1 DEF Live, NeedsOwn, Covered
    <3>4. QED BY <2>2, <3>1, <3>2, <3>3 DEF TurnInv, HasTurn
  <2>3. QED BY <1>12, <2>1, <2>2 DEF UnitOpened, history
<1>13. CASE FrameTask
  <2>1. PICK s \in Sockets :
            FrameDropped(s) \/ \E u \in Units : ConnectedSnapshot(s, u) \/ ConnectedSwap(s, u)
    BY <1>13 DEF FrameTask
  <2>2. Receive(s) /\ Free /\ UNCHANGED members
    BY <2>1 DEF FrameDropped, ConnectedSnapshot, ConnectedSwap, Receive, client
  <2>3. ASSUME NEW u \in Units, Accepted(Head(toClient[s]), u) PROVE u \in Live
    <3>1. Head(toClient[s]) \in 1..lastRun /\ Head(toClient[s]) # NoRun
        BY <2>3 DEF Accepted, TypeOK, NoRun
    <3>2. runIds[u] = Head(toClient[s])
        BY <1>0, <2>3, <3>1 DEF Accepted, RunMapsAgree
    <3>3. QED BY <1>0, <3>1, <3>2 DEF UseInv, Users
  <2>4. CASE FrameDropped(s)
    BY <1>0, <2>2, <2>4, KeepsTurns DEF FrameDropped, unitVars, history
  <2>5. ASSUME NEW u \in Units, ConnectedSnapshot(s, u) PROVE TurnInv'
    BY <1>0, <2>2, <2>3, <2>5, SnapshotKeepsTurns DEF ConnectedSnapshot, history
  <2>6. ASSUME NEW u \in Units, ConnectedSwap(s, u) PROVE TurnInv'
    BY <1>0, <2>2, <2>3, <2>6, SwapKeepsTurns DEF ConnectedSwap
  <2>7. QED BY <2>1, <2>4, <2>5, <2>6
<1>14. CASE SocketTask \/ ServerTask \/ UNCHANGED allVars
  <2>1. UNCHANGED <<alive, requires, waiting, task, uncovered, loading, micro>>
    BY <1>14 DEF SocketTask, ServerTask, allVars, unitVars, history
  <2>2. UNCHANGED members
    BY <1>14 DEF SocketTask, ServerTask, RetryFires, OpenEvent, CloseBegins, CloseEvent,
           ServerEvent, ServeRun, ServeStop, ServerEnds, Emit, Finish, client, allVars, vars
  <2>3. QED BY <1>0, <2>1, <2>2, KeepsTurns
<1>15. QED BY <1>1, <1>2, <1>3, <1>4, <1>5, <1>6, <1>7, <1>8, <1>9, <1>10, <1>11,
              <1>12, <1>13, <1>14 DEF UnitsNext

LEMMA TurnsHold == UnitsSpec => []TurnInv
<1>1. IInv => TypeOK /\ RunMapsAgree
    BY DEF IInv
<1>2. QED BY <1>1, TurnInit, TurnStep, UseHolds, UnitTypesHold, UnitsUseConnection,
             Invariance, PTL DEF UnitsSpec

(* A unit that needs a connection of its own is a member when the page has *)
(* loaded, whatever snapshots, swaps, responses, navigations and events of *)
(* the socket came between its checks; of the shards, all are except those *)
(* that a swap of the page left on their own since they last checked.      *)
THEOREM NeedyAreMembers == UnitsSpec => []NeedyUnitsAreMembers
<1>1. TurnInv => NeedyUnitsAreMembers
    BY DEF TurnInv, NeedyUnitsAreMembers, Settled, Free, HasTurn, InQueue, Live
<1>2. QED BY <1>1, TurnsHold, PTL
-----------------------------------------------------------------------------
(* Members and their runs.  Over an open socket every member that its      *)
(* event reached has a run; only stop() can take the run of a member away. *)
Untold == opening \cup skipped

MembersRun == IsOpen => \A t \in members \ Untold : runIds[t] # NoRun

LEMMA ConnectIsNotOpen ==
    ASSUME TypeOK, Connect
    PROVE  ~IsOpen'
<1>1. opened + 1 \in Sockets
    BY BoundsAssumption DEF Connect, TypeOK, Sockets
<1>2. ready' = [ready EXCEPT ![opened + 1] = "connecting"] /\ socket' = opened + 1
    BY DEF Connect
<1>3. ready'[opened + 1] = "connecting"
    BY <1>1, <1>2 DEF TypeOK
<1>4. QED BY <1>2, <1>3 DEF IsOpen

LEMMA StartGivesRun ==
    ASSUME TypeOK, NEW t \in Targets, StartRun(t)
    PROVE  /\ runIds'[t] # NoRun
           /\ \A v \in Targets \ {t} : runIds'[v] = runIds[v]
BY DEF StartRun, ClaimRun, NextRun, TypeOK, NoRun

(* A call that tells nobody but t, and t only by starting a run.           *)
LEMMA CallsKeepRuns ==
    ASSUME TypeOK, MembersRun, NEW t \in Targets,
           \A v \in (members' \ Untold') \cap Untold : v = t /\ StartRun(t),
           \/ Join(t) \/ Leave(t) \/ Run(t) \/ Remove(t) \/ ReplaceOverHttp(t) \/ Opened(t)
           \/ Stop(t) /\ (IsOpen => t \notin members)
    PROVE  MembersRun'
<1>0. members \in SUBSET Targets
    BY DEF TypeOK
<1>1. CASE JoinOpen(t) \/ Run(t) \/ OpenedRuns(t)
  <2>1. StartRun(t) /\ UNCHANGED <<socket, ready>> /\ members' \in SUBSET (members \cup {t})
    BY <1>1, OpenedStarts DEF JoinOpen, Run, OpenedRuns
  <2>2. IsOpen
    BY <2>1 DEF StartRun, ClaimRun
  <2>3. \A v \in members' \ Untold' : runIds'[v] # NoRun
    BY <1>0, <2>1, <2>2, StartGivesRun DEF MembersRun
  <2>4. QED BY <2>3 DEF MembersRun
<1>2. CASE JoinConnect(t)
    BY <1>2, ConnectIsNotOpen DEF JoinConnect, MembersRun
<1>3. CASE JoinWait(t)
    BY <1>3 DEF JoinWait, IsOpen, MembersRun
<1>4. CASE Leave(t) \/ OpenedLeaves(t) \/ ReplaceOverHttp(t)
  <2>1. UNCHANGED <<socket, ready, runIds, lastRun>> /\ members' \in SUBSET members
    BY <1>4 DEF Leave, OpenedLeaves, ReplaceOverHttp, client
  <2>2. ~StartRun(t)
    BY <2>1 DEF StartRun, ClaimRun, NextRun, TypeOK
  <2>3. QED BY <2>1, <2>2 DEF MembersRun, IsOpen
<1>5. CASE Remove(t) \/ (Stop(t) /\ (IsOpen => t \notin members))
  <2>1. /\ UNCHANGED <<socket, ready, lastRun>> /\ runIds' = [runIds EXCEPT ![t] = NoRun]
        /\ IsOpen => members' \in SUBSET (members \ {t})
    BY <1>5 DEF Remove, Stop, StopRun
  <2>2. \A v \in Targets \ {t} : runIds'[v] = runIds[v]
    BY <2>1 DEF TypeOK
  <2>3. QED BY <1>0, <2>1, <2>2 DEF MembersRun, IsOpen
<1>6. QED BY <1>1, <1>2, <1>3, <1>4, <1>5 DEF Join, Opened

(* An event that tells nobody. *)
LEMMA EventsKeepRuns ==
    ASSUME TypeOK, MembersRun, (members' \ Untold') \cap Untold = {},
           \/ CheckMembers \/ RetryFires
           \/ \E s \in Sockets : SocketEvent(s) \/ ServerEvent(s)
    PROVE  MembersRun'
<1>1. CASE CheckMembers
  <2>1. members' = members /\ (members = {} \/ UNCHANGED <<socket, ready, runIds>>)
    BY <1>1 DEF CheckMembers
  <2>2. QED BY <2>1 DEF MembersRun, IsOpen
<1>2. CASE RetryFires
  <2>1. CASE Connect
    BY <2>1, ConnectIsNotOpen DEF MembersRun
  <2>2. CASE UNCHANGED <<socket, opened, ready>>
    BY <1>2, <2>2 DEF RetryFires, MembersRun, IsOpen
  <2>3. QED BY <1>2, <2>1, <2>2 DEF RetryFires
<1>3. ASSUME NEW s \in Sockets, OpenEvent(s) PROVE MembersRun'
  <2>1. /\ UNCHANGED <<socket, members, runIds>> /\ ready' = [ready EXCEPT ![s] = "open"]
        /\ opening' = IF socket = s THEN members ELSE opening
    BY <1>3 DEF OpenEvent, TellMembers
  <2>2. socket # s => (IsOpen' <=> IsOpen)
    BY <2>1 DEF IsOpen, TypeOK
  <2>3. socket = s => members' \ Untold' = {}
    BY <2>1 DEF Untold
  <2>4. QED BY <2>1, <2>2, <2>3 DEF MembersRun
<1>4. ASSUME NEW s \in Sockets, CloseBegins(s) \/ CloseEvent(s) PROVE MembersRun'
  <2>1. CASE socket' = NoSocket
    BY <2>1 DEF MembersRun, IsOpen
  <2>2. CASE UNCHANGED <<socket, runIds, members>>
             /\ ready' \in {[ready EXCEPT ![s] = "closing"], [ready EXCEPT ![s] = "closed"]}
    <3>1. ready'[s] \in {"closing", "closed"} /\ \A z \in Sockets \ {s} : ready'[z] = ready[z]
        BY <2>2 DEF TypeOK
    <3>2. socket \in Sockets \/ socket = NoSocket
        BY BoundsAssumption DEF TypeOK, Sockets, NoSocket
    <3>3. IsOpen' => IsOpen
        BY <2>2, <3>1, <3>2 DEF IsOpen
    <3>4. QED BY <2>2, <3>3 DEF MembersRun
  <2>3. QED BY <1>4, <2>1, <2>2 DEF CloseBegins, CloseEvent, client
<1>5. ASSUME NEW s \in Sockets, Receive(s) \/ ServerEvent(s) PROVE MembersRun'
  <2>1. UNCHANGED <<socket, ready, runIds, members>>
    BY <1>5 DEF Receive, ServerEvent, ServeRun, ServeStop, ServerEnds, Emit, Finish, client
  <2>2. QED BY <2>1 DEF MembersRun, IsOpen
<1>6. QED BY <1>1, <1>2, <1>3, <1>4, <1>5 DEF SocketEvent

(* A step that has nothing to do with the events of the socket tells nobody.*)
LEMMA NobodyTold ==
    ASSUME opening' = opening, skipped' = skipped \/ skipped' = skipped \cap members'
    PROVE  (members' \ Untold') \cap Untold = {}
BY DEF Untold

(* The units call stop() of a member only when a navigation replaces the   *)
(* document: a refresh that goes over HTTP does so because its content     *)
(* asks for nothing, and then the unit has left.                           *)
RunInv ==
    /\ navigations \in Nat
    /\ navigations = 0 => loading # "requested" /\ MembersRun

LEMMA RunStep ==
    TypeOK /\ UnitTypes /\ TurnInv /\ RunInv /\ [UnitsNext]_allVars => RunInv'
<1> SUFFICES ASSUME TypeOK, UnitTypes, TurnInv, RunInv, [UnitsNext]_allVars
             PROVE  RunInv'
    OBVIOUS
<1>0. Units = Targets /\ Page \in Units /\ Shards \in SUBSET Units
    BY UnitsAssumption DEF Units
<1>1. CASE Navigate
    BY <1>1 DEF Navigate, RunInv
<1>2. CASE ~Navigate
  <2>1. navigations' = navigations
    BY <1>2 DEF UnitsNext, RunCheck, RunSync, Hydrate, Commit, ReplaceDocument, LoadSwap, Loaded,
            DisposeShard, RefreshConnected, RefreshOverHttp, HttpSnapshot, HttpSwap, HttpEnds,
            UnitOpened, FrameTask, FrameDropped, ConnectedSnapshot, ConnectedSwap, SocketTask,
            ServerTask, bounds, unitVars, allVars
  <2>2. loading' = "requested" => loading = "requested"
    BY <1>2 DEF UnitsNext, RunCheck, RunSync, Hydrate, Commit, ReplaceDocument, LoadSwap, Loaded,
            DisposeShard, RefreshConnected, RefreshOverHttp, HttpSnapshot, HttpSwap, HttpEnds,
            UnitOpened, FrameTask, FrameDropped, ConnectedSnapshot, ConnectedSwap, SocketTask,
            ServerTask, SnapshotReplaces, ShardReplaced, unitVars, allVars
  <2>3. SUFFICES ASSUME navigations = 0, MembersRun, loading # "requested"
                 PROVE  MembersRun'
    BY <2>1, <2>2 DEF RunInv
  <2>4. ASSUME UNCHANGED vars, skipped' = skipped \/ skipped' = skipped \cap members'
        PROVE  MembersRun'
    <3>1. (members' \ Untold') \cap Untold = {}
        BY <2>4, NobodyTold DEF vars, client
    <3>2. QED BY <2>3, <2>4, <3>1 DEF vars, client, MembersRun, IsOpen
  <2>5. CASE RunCheck
    <3>1. CheckMembers /\ skipped' = skipped /\ opening' = opening
        BY <2>5 DEF RunCheck, CheckMembers, history
    <3>2. QED BY <2>3, <3>1, NobodyTold, EventsKeepRuns
  <2>6. CASE RunSync
    <3>1. Head(micro) \in Microtasks
        BY <2>6 DEF RunSync, UnitTypes
    <3>2. PICK u \in Units : u = Head(micro).unit
        BY <3>1, MicrotaskUnits
    <3>3. /\ Join(u) \/ Leave(u) \/ UNCHANGED vars
          /\ skipped' = skipped \cap members'
        BY <2>6, <3>2 DEF RunSync, SyncConnection
    <3>4. CASE Join(u) \/ Leave(u)
        <4>1. opening' = opening
            BY <3>4 DEF Join, JoinOpen, JoinConnect, JoinWait, Leave
        <4>2. QED BY <1>0, <2>3, <3>3, <3>4, <4>1, NobodyTold, CallsKeepRuns
    <3>5. QED BY <2>4, <3>3, <3>4
  <2>7. CASE Hydrate
    <3>1. /\ Join(Page) \/ Leave(Page) \/ UNCHANGED vars
          /\ skipped' = skipped \cap members'
        BY <2>7 DEF Hydrate, SyncConnection
    <3>2. CASE Join(Page) \/ Leave(Page)
        <4>1. opening' = opening
            BY <3>2 DEF Join, JoinOpen, JoinConnect, JoinWait, Leave
        <4>2. QED BY <1>0, <2>3, <3>1, <3>2, <4>1, NobodyTold, CallsKeepRuns
    <3>3. QED BY <2>4, <3>1, <3>2
  <2>8. CASE Commit \/ ReplaceDocument
    <3>1. (ReplaceOverHttp(Page) \/ UNCHANGED vars) /\ skipped' = skipped
        BY <2>3, <2>8 DEF Commit, ReplaceDocument, history
    <3>2. CASE ReplaceOverHttp(Page)
        <4>1. opening' = opening
            BY <3>2 DEF ReplaceOverHttp, client
        <4>2. QED BY <1>0, <2>3, <3>1, <3>2, <4>1, NobodyTold, CallsKeepRuns
    <3>3. QED BY <2>4, <3>1, <3>2
  <2>9. CASE LoadSwap \/ Loaded
    BY <2>4, <2>9 DEF LoadSwap, Loaded, history
  <2>10. ASSUME NEW u \in Shards, DisposeShard(u) PROVE MembersRun'
    <3>1. (Remove(u) \/ UNCHANGED vars) /\ skipped' = skipped \cap members'
        BY <2>10 DEF DisposeShard, Abandon
    <3>2. CASE Remove(u)
        <4>1. opening' = opening
            BY <3>2 DEF Remove
        <4>2. QED BY <1>0, <2>3, <3>1, <3>2, <4>1, NobodyTold, CallsKeepRuns
    <3>3. QED BY <2>4, <3>1, <3>2
  <2>11. ASSUME NEW u \in Units, RefreshOverHttp(u) PROVE MembersRun'
    <3>1. IsOpen => u \notin members
        BY <2>11 DEF RefreshOverHttp, Free, TurnInv, InQueue
    <3>2. (Stop(u) \/ UNCHANGED vars) /\ skipped' = skipped
        BY <2>11 DEF RefreshOverHttp, history
    <3>3. CASE Stop(u)
        <4>1. opening' = opening
            BY <3>3 DEF Stop
        <4>2. QED BY <1>0, <2>3, <3>1, <3>2, <3>3, <4>1, NobodyTold, CallsKeepRuns
    <3>4. QED BY <2>4, <3>2, <3>3
  <2>12. ASSUME NEW u \in Units, HttpSnapshot(u) \/ HttpSwap(u) \/ HttpEnds(u)
         PROVE MembersRun'
    <3>1. (ReplaceOverHttp(u) \/ UNCHANGED vars) /\ skipped' = skipped
        BY <2>12 DEF HttpSnapshot, HttpSwap, HttpEnds, history
    <3>2. CASE ReplaceOverHttp(u)
        <4>1. opening' = opening
            BY <3>2 DEF ReplaceOverHttp, client
        <4>2. QED BY <1>0, <2>3, <3>1, <3>2, <4>1, NobodyTold, CallsKeepRuns
    <3>3. QED BY <2>4, <3>1, <3>2
  <2>13. ASSUME NEW u \in Units, RefreshConnected(u) PROVE MembersRun'
    <3>1. Run(u) /\ skipped' = skipped \ {u} /\ StartRun(u) /\ opening' = opening
        BY <2>13 DEF RefreshConnected, Run
    <3>2. \A v \in (members' \ Untold') \cap Untold : v = u
        BY <3>1 DEF Untold
    <3>3. QED BY <1>0, <2>3, <3>1, <3>2, CallsKeepRuns
  <2>14. ASSUME NEW u \in Units, UnitOpened(u) PROVE MembersRun'
    <3>1. CASE OpenedRuns(u) /\ skipped' = skipped \cup ((opening \ {u}) \ opening')
        <4>1. StartRun(u)
            BY <1>0, <3>1, OpenedStarts
        <4>2. \A v \in (members' \ Untold') \cap Untold : v = u
            BY <3>1 DEF Untold
        <4>3. QED BY <1>0, <2>3, <3>1, <4>1, <4>2, CallsKeepRuns DEF Opened
    <3>2. CASE OpenedLeaves(u) /\ skipped' = skipped
        <4>1. opening' = opening \ {u} /\ members' = members \ {u}
            BY <3>2 DEF OpenedLeaves
        <4>2. (members' \ Untold') \cap Untold = {}
            BY <3>2, <4>1 DEF Untold
        <4>3. QED BY <1>0, <2>3, <3>2, <4>2, CallsKeepRuns DEF Opened
    <3>3. QED BY <2>14, <3>1, <3>2 DEF UnitOpened, history
  <2>15. CASE FrameTask
    <3>1. PICK s \in Sockets : Receive(s)
        BY <2>15 DEF FrameTask, FrameDropped, ConnectedSnapshot, ConnectedSwap
    <3>2. skipped' = skipped /\ opening' = opening
        BY <2>15, <3>1 DEF FrameTask, FrameDropped, ConnectedSnapshot, ConnectedSwap,
                history, unitVars, Receive, client
    <3>3. QED BY <2>3, <3>1, <3>2, NobodyTold, EventsKeepRuns DEF SocketEvent
  <2>16. CASE SocketTask
    <3>1. PICK s \in Sockets : RetryFires \/ OpenEvent(s) \/ CloseBegins(s) \/ CloseEvent(s)
        BY <2>16, BoundsAssumption DEF SocketTask, Sockets
    <3>2. skipped' = skipped \ opening' /\ (opening' = opening \/ opening' = members')
        BY <2>16, <3>1 DEF SocketTask, RetryFires, OpenEvent, TellMembers, CloseBegins,
                CloseEvent, client
    <3>3. (members' \ Untold') \cap Untold = {}
        BY <3>2 DEF Untold
    <3>4. QED BY <2>3, <3>1, <3>3, EventsKeepRuns DEF SocketEvent
  <2>17. CASE ServerTask
    <3>1. skipped' = skipped /\ opening' = opening
        BY <2>17, ServerLeavesOpening DEF ServerTask, history, unitVars
    <3>2. QED BY <2>3, <2>17, <3>1, NobodyTold, EventsKeepRuns DEF ServerTask
  <2>18. CASE UNCHANGED allVars
    BY <2>4, <2>18 DEF allVars, unitVars, history
  <2>19. QED BY <1>2, <2>5, <2>6, <2>7, <2>8, <2>9, <2>10, <2>11, <2>12, <2>13, <2>14, <2>15,
                <2>16, <2>17, <2>18 DEF UnitsNext
<1>3. QED BY <1>1, <1>2

(* Until a navigation has stopped the run of the page, every member has a  *)
(* run as soon as the socket is open and the handlers are done, except     *)
(* those the "open" event did not reach because a request threw: neither a *)
(* reconnection nor a refresh over HTTP leaves one with nothing to come.   *)
THEOREM MembersRunUnlessNavigated == UnitsSpec => []RunUnlessNavigated
<1>1. UnitsInit => RunInv
    BY DEF UnitsInit, Init, RunInv, MembersRun, IsOpen
<1>2. RunInv => RunUnlessNavigated
    BY DEF RunInv, MembersRun, Untold, RunUnlessNavigated, MembersOfOpenSocketRun, Settled, Free
<1>3. IInv => TypeOK
    BY DEF IInv
<1>4. QED BY <1>1, <1>2, <1>3, RunStep, TurnsHold, UnitTypesHold, UnitsUseConnection,
             Invariance, PTL DEF UnitsSpec
=============================================================================
