--------------------------- MODULE DashboardProofs --------------------------
(***************************************************************************)
(* Reconnecting never multiplies the connections of a dashboard, for any   *)
(* number of hooks, mounts, sockets and faults.  Nothing of the server's   *)
(* list is needed: a chain lives in owner, conn and timers alone.          *)
(***************************************************************************)
EXTENDS LiveDashboard, FiniteSetTheorems, SequenceTheorems, WellFoundedInduction, TLAPS

(* The sockets whose callbacks belong to h.                                *)
Owned(h) == {ws \in Sockets : owner[ws] = h}

(* A socket has an owner from connect() to onclose.                        *)
OwnersInv ==
    /\ conn \in [Sockets -> SocketState]
    /\ owner \in [Sockets -> Hooks \cup {NoHook}]
    /\ \A ws \in Sockets : conn[ws] = "unused" <=> owner[ws] = NoHook

CountersInv == timers \in [Hooks -> Nat] /\ mounts \in [Hooks -> Nat]

ChainInv == OwnersInv /\ CountersInv /\ ReconnectsDoNotMultiply

(* The connections of a hook can be counted.                               *)
LEMMA OwnedIsFinite ==
    ASSUME NEW h \in Hooks
    PROVE  IsFiniteSet(Owned(h)) /\ Cardinality(Owned(h)) \in Nat
<1>1. IsFiniteSet(Owned(h))
  BY SocketsAssumption, FS_Subset DEF Owned
<1> QED BY <1>1, FS_CardinalityType

(* connect() gives h one connection more, and others none.                 *)
LEMMA ConnectGains ==
    ASSUME OwnersInv, NEW h \in Hooks, Connect(h)
    PROVE  /\ OwnersInv'
           /\ \A g \in Hooks : Cardinality(Owned(g)')
                 = IF g = h THEN Cardinality(Owned(g)) + 1 ELSE Cardinality(Owned(g))
<1> DEFINE fresh == CHOOSE ws \in Sockets : New(ws)
<1>1. fresh \in Sockets /\ New(fresh)
  BY Zenon DEF Connect
<1>2. conn' = [conn EXCEPT ![fresh] = "up"] /\ owner' = [owner EXCEPT ![fresh] = h]
  BY Zenon DEF Connect
<1>3. conn[fresh] = "unused" /\ owner[fresh] = NoHook
  BY <1>1 DEF New, OwnersInv
<1> HIDE DEF fresh
<1>4. OwnersInv'
  BY <1>1, <1>2, <1>3, NoHookAssumption DEF OwnersInv, SocketState
<1>5. ASSUME NEW g \in Hooks
      PROVE  Cardinality(Owned(g)')
                = IF g = h THEN Cardinality(Owned(g)) + 1 ELSE Cardinality(Owned(g))
  <2>1. CASE g = h
    <3>1. Owned(g)' = Owned(g) \cup {fresh} /\ fresh \notin Owned(g)
      BY <1>1, <1>2, <1>3, <2>1, NoHookAssumption DEF Owned, OwnersInv
    <3> QED BY <3>1, <2>1, OwnedIsFinite, FS_AddElement
  <2>2. CASE g # h
    <3>1. Owned(g)' = Owned(g)
      BY <1>1, <1>2, <1>3, <2>2, NoHookAssumption DEF Owned, OwnersInv
    <3> QED BY <3>1, <2>2
  <2> QED BY <2>1, <2>2
<1> QED BY <1>4, <1>5

(* onclose takes the connection from its owner, and nothing from others.   *)
LEMMA CloseLoses ==
    ASSUME OwnersInv, NEW ws \in Sockets, OnClose(ws)
    PROVE  /\ OwnersInv' /\ owner[ws] \in Hooks
           /\ \A g \in Hooks : Cardinality(Owned(g)')
                 = IF g = owner[ws] THEN Cardinality(Owned(g)) - 1 ELSE Cardinality(Owned(g))
<1>1. /\ conn[ws] = "broken" /\ conn' = [conn EXCEPT ![ws] = "unused"]
      /\ owner' = [owner EXCEPT ![ws] = NoHook]
  BY DEF OnClose
<1>2. owner[ws] \in Hooks
  BY <1>1 DEF OwnersInv
<1>3. OwnersInv'
  BY <1>1 DEF OwnersInv, SocketState
<1>4. ASSUME NEW g \in Hooks
      PROVE  Cardinality(Owned(g)')
                = IF g = owner[ws] THEN Cardinality(Owned(g)) - 1 ELSE Cardinality(Owned(g))
  <2>1. CASE g = owner[ws]
    <3>1. Owned(g)' = Owned(g) \ {ws} /\ ws \in Owned(g)
      BY <1>1, <2>1, NoHookAssumption DEF Owned, OwnersInv
    <3> QED BY <3>1, <2>1, OwnedIsFinite, FS_RemoveElement
  <2>2. CASE g # owner[ws]
    <3>1. Owned(g)' = Owned(g)
      BY <1>1, <2>2, NoHookAssumption DEF Owned, OwnersInv
    <3> QED BY <3>1, <2>2
  <2> QED BY <2>1, <2>2
<1> QED BY <1>2, <1>3, <1>4

(* A connection that breaks keeps its owner until onclose.                 *)
LEMMA BreakingKeepsOwners ==
    ASSUME OwnersInv, NEW S, BreakAll(S), UNCHANGED owner
    PROVE  OwnersInv'
BY DEF OwnersInv, BreakAll, LinkUp, SocketState

(* A step that only breaks connections, mounts less or moves data keeps    *)
(* every count.                                                            *)
LEMMA CalmSteps ==
    ASSUME ChainInv, OwnersInv', UNCHANGED <<owner, timers, mounts>>
    PROVE  ChainInv'
BY DEF ChainInv, CountersInv, ReconnectsDoNotMultiply, Chains

(* The invariant on chains is inductive.                                   *)
LEMMA ChainInvKept ==
    ASSUME ChainInv, [Next]_vars
    PROVE  ChainInv'
<1>1. ASSUME NEW g \in Hooks
      PROVE  /\ Cardinality(Owned(g)) \in Nat /\ timers[g] \in Nat /\ mounts[g] \in Nat
             /\ timers[g] + Cardinality(Owned(g)) <= mounts[g]
  BY OwnedIsFinite DEF ChainInv, CountersInv, ReconnectsDoNotMultiply, Chains, Owned
<1>2. OwnersInv /\ CountersInv
  BY DEF ChainInv
<1>3. ASSUME OwnersInv', CountersInv',
             \A g \in Hooks : timers'[g] + Cardinality(Owned(g)') <= mounts'[g]
      PROVE  ChainInv'
  BY <1>3 DEF ChainInv, ReconnectsDoNotMultiply, Chains, Owned
<1>4. ASSUME NEW h \in Hooks, Mount(h) PROVE ChainInv'
  <2>1. /\ mounts' = [mounts EXCEPT ![h] = @ + 1] /\ timers' = timers /\ Connect(h)
    BY <1>4 DEF Mount
  <2>2. CountersInv'
    BY <1>2, <2>1 DEF CountersInv
  <2>3. \A g \in Hooks : timers'[g] + Cardinality(Owned(g)') <= mounts'[g]
    BY <1>1, <1>2, <2>1, ConnectGains DEF CountersInv
  <2> QED BY <1>2, <1>3, <2>1, <2>2, <2>3, ConnectGains
<1>5. ASSUME NEW h \in Hooks, TimerFires(h) PROVE ChainInv'
  <2>1. timers[h] > 0 /\ timers' = [timers EXCEPT ![h] = @ - 1] /\ mounts' = mounts
    BY <1>5 DEF TimerFires
  <2>2. CountersInv'
    BY <1>2, <2>1 DEF CountersInv
  <2>3. CASE Connect(h)
    <3>1. \A g \in Hooks : timers'[g] + Cardinality(Owned(g)') <= mounts'[g]
      BY <1>1, <1>2, <2>1, <2>3, ConnectGains DEF CountersInv
    <3> QED BY <1>2, <1>3, <2>2, <2>3, <3>1, ConnectGains
  <2>4. CASE UNCHANGED subscriptionVars /\ UNCHANGED <<wsRef, owner>>
    <3>1. OwnersInv' /\ \A g \in Hooks : Owned(g)' = Owned(g)
      BY <1>2, <2>4 DEF OwnersInv, Owned, subscriptionVars, transportVars
    <3>2. \A g \in Hooks : timers'[g] + Cardinality(Owned(g)') <= mounts'[g]
      BY <1>1, <1>2, <2>1, <3>1 DEF CountersInv
    <3> QED BY <1>3, <2>2, <3>1, <3>2
  <2> QED BY <1>5, <2>3, <2>4 DEF TimerFires
<1>6. ASSUME NEW ws \in Sockets, OnClose(ws) PROVE ChainInv'
  <2>1. /\ timers' = [timers EXCEPT ![owner[ws]] = @ + TimersAfterClose(owner[ws])]
        /\ mounts' = mounts
    BY <1>6 DEF OnClose
  <2>2. TimersAfterClose(owner[ws]) \in {0, 1}
    BY DEF TimersAfterClose
  <2>3. OwnersInv' /\ owner[ws] \in Hooks
    BY <1>2, <1>6, CloseLoses
  <2>4. CountersInv'
    BY <1>2, <2>1, <2>2, <2>3 DEF CountersInv
  <2>5. ASSUME NEW g \in Hooks PROVE timers'[g] + Cardinality(Owned(g)') <= mounts'[g]
    <3>1. CASE g = owner[ws]
      <4>1. Cardinality(Owned(g)') = Cardinality(Owned(g)) - 1
        BY <1>2, <1>6, <3>1, CloseLoses
      <4>2. timers'[g] <= timers[g] + 1 /\ timers'[g] \in Nat
        BY <1>1, <1>2, <2>1, <2>2, <3>1 DEF CountersInv
      <4> QED BY <1>1, <2>1, <4>1, <4>2
    <3>2. CASE g # owner[ws]
      <4>1. Cardinality(Owned(g)') = Cardinality(Owned(g))
        BY <1>2, <1>6, <3>2, CloseLoses
      <4> QED BY <1>1, <1>2, <2>1, <3>2, <4>1 DEF CountersInv
    <3> QED BY <3>1, <3>2
  <2> QED BY <1>3, <2>3, <2>4, <2>5
<1>7. CASE \E h \in Hooks : Unmount(h)
  BY <1>2, <1>7, BreakingKeepsOwners, CalmSteps DEF Unmount
<1>8. CASE \E ws \in Sockets : OnMessage(ws)
  BY <1>8, CalmSteps DEF ChainInv, OwnersInv, OnMessage
<1>9. CASE \E ws \in Sockets : ServeSocket(ws)
  <2>1. UNCHANGED <<conn, owner, timers, mounts>>
    BY <1>9 DEF ServeSocket, HandlerStep, Subscribe, AcceptFails, Unsubscribe, hookVars,
                transportVars
  <2> QED BY <1>2, <2>1, CalmSteps DEF OwnersInv
<1>10. CASE Announce
  BY <1>2, <1>10, CalmSteps DEF OwnersInv, Announce, StartBroadcast, transportVars
<1>11. CASE Broadcast
  <2>1. UNCHANGED <<conn, owner, timers, mounts>>
    BY <1>11 DEF Broadcast, BroadcastStep, SendSucceeds, SendRaises, Purge, hookVars,
                 transportVars
  <2> QED BY <1>2, <2>1, CalmSteps DEF OwnersInv
<1>12. CASE Fault
  <2>1. \E S : BreakAll(S)
    BY <1>12 DEF Fault, Break, HandlerError, ApiRestart
  <2>2. UNCHANGED <<owner, timers, mounts>>
    BY <1>12 DEF Fault, hookVars
  <2> QED BY <1>2, <2>1, <2>2, BreakingKeepsOwners, CalmSteps
<1>13. CASE UNCHANGED vars
  BY <1>2, <1>13, CalmSteps DEF OwnersInv, vars, subscriptionVars, transportVars, hookVars
<1> QED BY <1>4, <1>5, <1>6, <1>7, <1>8, <1>9, <1>10, <1>11, <1>12, <1>13 DEF Next

(* It holds at the start.                                                  *)
LEMMA ChainInvAtStart == Init => ChainInv
<1> SUFFICES ASSUME Init PROVE ChainInv
  OBVIOUS
<1>1. OwnersInv /\ CountersInv
  BY DEF Init, SubscriptionsInit, OwnersInv, CountersInv, SocketState
<1>2. ASSUME NEW h \in Hooks PROVE timers[h] + Cardinality(Owned(h)) <= mounts[h]
  <2>1. Owned(h) = {}
    BY NoHookAssumption DEF Owned, Init
  <2> QED BY <2>1, FS_EmptySet DEF Init
<1> QED BY <1>1, <1>2 DEF ChainInv, ReconnectsDoNotMultiply, Chains, Owned

(* A dashboard has at most one chain of connections and reconnect timers   *)
(* per mount, whatever breaks and however long it runs.                    *)
THEOREM OneChainPerMount == FairSpec => []ReconnectsDoNotMultiply
<1>1. ChainInv /\ [Next]_vars => ChainInv'
  BY ChainInvKept
<1>2. ChainInv => ReconnectsDoNotMultiply
  BY DEF ChainInv
<1> QED BY <1>1, <1>2, ChainInvAtStart, PTL DEF FairSpec

-----------------------------------------------------------------------------
(* Less: the order on naturals, as a set of pairs.                         *)
Less == {p \in Nat \X Nat : p[1] < p[2]}

(* It is well founded.                                                     *)
LEMMA LessIsWellFounded == IsWellFoundedOn(Less, Nat)
BY NatLessThanWellFounded, Zenon DEF OpToRel, Less

(* Induction over the naturals, for a set instead of a predicate.          *)
LEMMA SetInduction ==
    ASSUME NEW S, 0 \in S, \A n \in Nat : n \in S => n + 1 \in S
    PROVE  Nat \subseteq S
<1> SUFFICES ASSUME Nat \ S # {} PROVE FALSE
  OBVIOUS
<1>1. PICK n \in Nat \ S : \A m \in Nat \ S : <<m, n>> \notin Less
  BY LessIsWellFounded, WFMin
<1>2. n # 0 /\ n - 1 \in Nat /\ n = (n - 1) + 1
  BY <1>1
<1>3. <<n - 1, n>> \in Less
  BY <1>2 DEF Less
<1>4. n - 1 \in S
  BY <1>1, <1>2, <1>3
<1> QED BY <1>1, <1>2, <1>4

-----------------------------------------------------------------------------
(* Taking one element out of a list without repetitions.                   *)
LEMMA RemoveAtProperties ==
    ASSUME NEW S, NEW list \in Seq(S), IsInjective(list), NEW j \in 1 .. Len(list)
    PROVE  /\ RemoveAt(list, j) \in Seq(S)
           /\ IsInjective(RemoveAt(list, j))
           /\ ToSet(RemoveAt(list, j)) = ToSet(list) \ {list[j]}
<1> DEFINE front == SubSeq(list, 1, j - 1)
           back == SubSeq(list, j + 1, Len(list))
           short == front \o back
<1>1. Len(list) \in Nat /\ list \in [1 .. Len(list) -> S] /\ DOMAIN list = 1 .. Len(list)
  BY LenProperties
<1>2. front \in Seq(S) /\ Len(front) = j - 1 /\ \A i \in 1 .. j - 1 : front[i] = list[i]
  BY <1>1, SubSeqProperties
<1>3. /\ back \in Seq(S) /\ Len(back) = Len(list) - j
      /\ \A i \in 1 .. Len(list) - j : back[i] = list[j + i]
  <2> DEFINE m == j + 1
  <2>1. m \in Int /\ Len(list) \in Int /\ \A i \in m .. Len(list) : list[i] \in S
    BY <1>1
  <2>2. back = SubSeq(list, m, Len(list))
    OBVIOUS
  <2> HIDE DEF m, back
  <2>3. /\ back \in Seq(S) /\ Len(back) = IF m <= Len(list) THEN Len(list) - m + 1 ELSE 0
        /\ \A i \in 1 .. Len(list) - m + 1 : back[i] = list[m + i - 1]
    BY <2>1, <2>2, SubSeqProperties
  <2>4. Len(list) - m + 1 = Len(list) - j /\ (m <= Len(list) <=> j < Len(list))
        /\ \A i \in Int : m + i - 1 = j + i
    BY <1>1 DEF m
  <2>5. Len(back) = Len(list) - j
    BY <1>1, <2>3, <2>4
  <2>6. ASSUME NEW i \in 1 .. Len(list) - j PROVE back[i] = list[j + i]
    BY <2>3, <2>4
  <2> QED BY <2>3, <2>5, <2>6
<1> HIDE DEF front, back
<1>4. /\ short \in Seq(S) /\ Len(short) = Len(list) - 1
      /\ \A i \in 1 .. Len(list) - 1 :
            short[i] = IF i < j THEN list[i] ELSE list[i + 1]
  <2>1. /\ short \in Seq(S) /\ Len(short) = Len(front) + Len(back)
        /\ \A i \in 1 .. Len(front) + Len(back) :
              short[i] = IF i <= Len(front) THEN front[i] ELSE back[i - Len(front)]
    BY <1>2, <1>3, ConcatProperties
  <2> HIDE DEF short
  <2>2. Len(front) + Len(back) = Len(list) - 1
    BY <1>1, <1>2, <1>3
  <2>3. ASSUME NEW i \in 1 .. Len(list) - 1
        PROVE  short[i] = IF i < j THEN list[i] ELSE list[i + 1]
    <3>1. CASE i < j
      <4>1. i \in 1 .. j - 1 /\ i <= Len(front)
        BY <1>1, <1>2, <3>1
      <4> QED BY <1>2, <2>1, <2>2, <3>1, <4>1
    <3>2. CASE ~(i < j)
      <4>1. /\ ~(i <= Len(front)) /\ i - Len(front) \in 1 .. Len(list) - j
            /\ j + (i - Len(front)) = i + 1
        BY <1>1, <1>2, <3>2
      <4> QED BY <1>3, <2>1, <2>2, <3>2, <4>1
    <3> QED BY <3>1, <3>2
  <2> QED BY <2>1, <2>2, <2>3
<1> HIDE DEF short
<1>5. DOMAIN short = 1 .. Len(list) - 1
  BY <1>4, LenProperties
<1>6. IsInjective(short)
  BY <1>1, <1>4, <1>5 DEF IsInjective
<1>7. ToSet(short) \subseteq ToSet(list) \ {list[j]}
  BY <1>1, <1>4, <1>5 DEF IsInjective, ToSet
<1>8. ASSUME NEW i \in 1 .. Len(list), i # j PROVE list[i] \in ToSet(short)
  <2>1. CASE i < j
    BY <1>1, <1>4, <1>5, <2>1 DEF ToSet
  <2>2. CASE i > j
    <3>1. i - 1 \in 1 .. Len(list) - 1 /\ short[i - 1] = list[i]
      BY <1>1, <1>4, <2>2
    <3> QED BY <1>5, <3>1 DEF ToSet
  <2> QED BY <1>8, <2>1, <2>2
<1>9. ToSet(list) \ {list[j]} \subseteq ToSet(short)
  BY <1>1, <1>8 DEF ToSet
<1> QED BY <1>4, <1>6, <1>7, <1>9 DEF RemoveAt, short, front, back

(* list.remove of a socket, of a list without repetitions.                 *)
LEMMA RemoveSocketProperties ==
    ASSUME NEW S, NEW list \in Seq(S), IsInjective(list), NEW ws
    PROVE  /\ RemoveSocket(list, ws) \in Seq(S)
           /\ IsInjective(RemoveSocket(list, ws))
           /\ ToSet(RemoveSocket(list, ws)) = ToSet(list) \ {ws}
<1>1. DOMAIN list = 1 .. Len(list)
  BY LenProperties
<1>2. CASE ~ \E i \in 1 .. Len(list) : list[i] = ws
  <2>1. RemoveSocket(list, ws) = list
    BY <1>2 DEF RemoveSocket, RemoveFirst
  <2> QED BY <1>1, <1>2, <2>1 DEF ToSet
<1>3. CASE \E i \in 1 .. Len(list) : list[i] = ws
  <2>1. PICK j \in 1 .. Len(list) : list[j] = ws
    BY <1>3
  <2>2. {i \in 1 .. Len(list) : list[i] = ws} = {j}
    BY <1>1, <2>1 DEF IsInjective
  <2>3. Min({j}) = j
    BY DEF Min
  <2>4. RemoveSocket(list, ws) = RemoveAt(list, j)
    BY <1>3, <2>2, <2>3 DEF RemoveSocket, RemoveFirst, SelectInSeq
  <2> QED BY <2>1, <2>4, RemoveAtProperties
<1> QED BY <1>2, <1>3

(* What the loop of broadcast_dashboard leaves of list.                    *)
AllRemoved(list, gone) == FoldLeft(RemoveSocket, list, gone)

(* It takes the sockets of gone out of list step by step.                  *)
Removes(after, list, gone) ==
    /\ after[0] = list
    /\ \A k \in 1 .. Len(gone) : after[k] = RemoveSocket(after[k - 1], gone[k])

(* And so the loop ends after the last one.                                *)
LEMMA RemovalLoop ==
    ASSUME NEW S, NEW list, NEW gone \in Seq(S)
    PROVE  \E after : Removes(after, list, gone) /\ AllRemoved(list, gone) = after[Len(gone)]
<1> DEFINE n == Len(gone)
           step(f, s) == IF s = {} THEN list
                         ELSE RemoveSocket(f[s \ {Max(s)}], gone[Max(s)])
           fold == CHOOSE f : f = [s \in SUBSET (1 .. n) |-> step(f, s)]
           Foldable == {m \in Nat : \E f : f = [s \in SUBSET (1 .. m) |-> step(f, s)]}
<1>1. n \in Nat /\ DOMAIN gone = 1 .. n
  BY LenProperties
<1>2. AllRemoved(list, gone) = fold[1 .. n]
  BY <1>1 DEF AllRemoved, FoldLeft, MapThenFoldSet
<1>3. 0 \in Foldable
  <2> DEFINE f == [s \in {{}} |-> list]
  <2>1. SUBSET (1 .. 0) = {{}}
    OBVIOUS
  <2>2. f = [s \in SUBSET (1 .. 0) |-> step(f, s)]
    BY <2>1
  <2> HIDE DEF f, step
  <2> QED BY <2>2, Zenon
<1>4. ASSUME NEW m \in Nat, m \in Foldable PROVE m + 1 \in Foldable
  <2>1. PICK f : f = [s \in SUBSET (1 .. m) |-> step(f, s)]
    BY <1>4
  <2> DEFINE p == m + 1
             g == [s \in SUBSET (1 .. p) |->
                      IF p \in s THEN RemoveSocket(f[s \ {p}], gone[p]) ELSE f[s]]
  <2>2. \A s \in SUBSET (1 .. m) : f[s] = step(f, s)
    BY <2>1, Zenon
  <2>3. ASSUME NEW s \in SUBSET (1 .. p), p \in s
        PROVE  Max(s) = p /\ s \ {p} \in SUBSET (1 .. m) /\ p \notin s \ {p}
    <3>1. \A y \in s : p >= y /\ y \in Int
      OBVIOUS
    <3>2. \A x \in s : (\A y \in s : x >= y) => x = p
      BY <2>3, <3>1
    <3>3. Max(s) = p
      BY <2>3, <3>1, <3>2, Zenon DEF Max
    <3> QED BY <2>3, <3>3
  <2>4. ASSUME NEW s \in SUBSET (1 .. p), p \notin s
        PROVE  s \in SUBSET (1 .. m)
    BY <2>4
  <2>5. ASSUME NEW s \in SUBSET (1 .. m), s # {}
        PROVE  s \ {Max(s)} \in SUBSET (1 .. m)
    BY <2>5
  <2>6. ASSUME NEW s \in SUBSET (1 .. m) PROVE s \in SUBSET (1 .. p) /\ p \notin s
    OBVIOUS
  <2>7. \A s \in SUBSET (1 .. p) : g[s] = IF p \in s THEN RemoveSocket(f[s \ {p}], gone[p]) ELSE f[s]
    OBVIOUS
  <2>8. g = [s \in SUBSET (1 .. p) |-> g[s]]
    OBVIOUS
  <2> HIDE DEF g, p
  <2>9. ASSUME NEW s \in SUBSET (1 .. p) PROVE g[s] = step(g, s)
    <3>1. CASE p \in s
      <4>1. g[s] = RemoveSocket(f[s \ {p}], gone[p]) /\ g[s \ {p}] = f[s \ {p}]
        BY <2>3, <2>6, <2>7, <3>1
      <4> QED BY <2>3, <3>1, <4>1
    <3>2. CASE p \notin s
      <4>1. s \in SUBSET (1 .. m) /\ g[s] = f[s]
        BY <2>4, <2>7, <3>2
      <4>2. s # {} => g[s \ {Max(s)}] = f[s \ {Max(s)}]
        BY <2>5, <2>6, <2>7, <4>1
      <4> QED BY <2>2, <4>1, <4>2
    <3> QED BY <3>1, <3>2
  <2> HIDE DEF step
  <2>10. g = [s \in SUBSET (1 .. p) |-> step(g, s)]
    BY <2>8, <2>9
  <2>11. p \in Nat
    BY DEF p
  <2>12. p \in Foldable
    BY <2>10, <2>11, Zenon
  <2> QED BY <2>12 DEF p
<1>5. n \in Foldable
  <2>1. Foldable \subseteq Nat
    OBVIOUS
  <2> HIDE DEF Foldable, n
  <2> QED BY <1>1, <1>3, <1>4, SetInduction
<1> HIDE DEF n
<1>6. fold = [s \in SUBSET (1 .. n) |-> step(fold, s)]
  <2> HIDE DEF step
  <2> QED BY <1>5, Zenon
<1> HIDE DEF fold
<1>7. \A s \in SUBSET (1 .. n) : fold[s] = step(fold, s)
  <2> HIDE DEF step
  <2> QED BY <1>6, Zenon
<1> DEFINE after == [k \in 0 .. n |-> fold[1 .. k]]
<1>8. after[0] = list
  <2>1. 1 .. 0 = {} /\ 0 \in 0 .. n
    BY <1>1
  <2> QED BY <1>7, <2>1
<1>9. ASSUME NEW k \in 1 .. n PROVE after[k] = RemoveSocket(after[k - 1], gone[k])
  <2>1. /\ 1 .. k \in SUBSET (1 .. n) /\ 1 .. k # {}
        /\ (1 .. k) \ {k} = 1 .. (k - 1) /\ k \in 0 .. n /\ k - 1 \in 0 .. n
    BY <1>1
  <2>2. Max(1 .. k) = k
    BY <1>1 DEF Max
  <2> QED BY <1>7, <2>1, <2>2
<1>10. after[n] = fold[1 .. n]
  BY <1>1
<1> HIDE DEF after
<1> QED BY <1>2, <1>8, <1>9, <1>10 DEF n, Removes

(* All of them are taken out, and nothing else, in whatever order and      *)
(* however often they are named.                                           *)
LEMMA RemovalProperties ==
    ASSUME NEW S, NEW list \in Seq(S), IsInjective(list), NEW gone \in Seq(S)
    PROVE  /\ AllRemoved(list, gone) \in Seq(S)
           /\ IsInjective(AllRemoved(list, gone))
           /\ ToSet(AllRemoved(list, gone)) = ToSet(list) \ ToSet(gone)
<1> DEFINE n == Len(gone)
<1>1. n \in Nat /\ DOMAIN gone = 1 .. n
  BY LenProperties
<1>0. \E after : Removes(after, list, gone) /\ AllRemoved(list, gone) = after[Len(gone)]
  BY RemovalLoop, Zenon
<1>2. PICK after : /\ after[0] = list
                   /\ \A k \in 1 .. n : after[k] = RemoveSocket(after[k - 1], gone[k])
                   /\ AllRemoved(list, gone) = after[n]
  BY <1>0 DEF Removes
<1> DEFINE Removed(k) == {gone[i] : i \in 1 .. k}
           Good(k) == /\ after[k] \in Seq(S) /\ IsInjective(after[k])
                      /\ ToSet(after[k]) = ToSet(list) \ Removed(k)
           Reached == {k \in Nat : k <= n => Good(k)}
<1>3. 0 \in Reached
  <2>1. Removed(0) = {}
    OBVIOUS
  <2> QED BY <1>2, <2>1
<1>4. ASSUME NEW k \in Nat, k \in Reached PROVE k + 1 \in Reached
  <2> SUFFICES ASSUME k + 1 <= n PROVE Good(k + 1)
    OBVIOUS
  <2>1. Good(k) /\ k + 1 \in 1 .. n /\ (k + 1) - 1 = k
    BY <1>1, <1>4
  <2>2. after[k + 1] = RemoveSocket(after[k], gone[k + 1])
    BY <1>2, <2>1
  <2>3. /\ after[k + 1] \in Seq(S) /\ IsInjective(after[k + 1])
        /\ ToSet(after[k + 1]) = ToSet(after[k]) \ {gone[k + 1]}
    BY <2>1, <2>2, RemoveSocketProperties
  <2>4. Removed(k + 1) = Removed(k) \cup {gone[k + 1]}
    OBVIOUS
  <2> HIDE DEF Removed
  <2> QED BY <2>1, <2>3, <2>4
<1>5. n \in Reached
  <2> HIDE DEF Reached, n
  <2> QED BY <1>1, <1>3, <1>4, SetInduction
<1>6. ToSet(gone) = Removed(n)
  BY <1>1 DEF ToSet
<1> QED BY <1>1, <1>2, <1>5, <1>6

(* Appending a new element keeps a list without repetitions.               *)
LEMMA AppendNew ==
    ASSUME NEW S, NEW list \in Seq(S), IsInjective(list), NEW e \in S, e \notin ToSet(list)
    PROVE  /\ Append(list, e) \in Seq(S) /\ IsInjective(Append(list, e))
           /\ ToSet(Append(list, e)) = ToSet(list) \cup {e}
<1> DEFINE long == Append(list, e)
           n == Len(list)
<1>1. n \in Nat /\ DOMAIN list = 1 .. n
  BY LenProperties
<1>2. /\ long \in Seq(S) /\ DOMAIN long = 1 .. (n + 1) /\ long[n + 1] = e
      /\ \A i \in 1 .. n : long[i] = list[i]
  BY <1>1, AppendProperties, LenProperties
<1> HIDE DEF long, n
<1>3. \A i \in 1 .. (n + 1) : i = n + 1 \/ i \in 1 .. n
  BY <1>1
<1>4. IsInjective(long)
  BY <1>1, <1>2, <1>3 DEF IsInjective, ToSet
<1>5. n + 1 \in 1 .. (n + 1) /\ \A i \in 1 .. n : i \in 1 .. (n + 1)
  BY <1>1
<1>6. ToSet(long) = ToSet(list) \cup {e}
  BY <1>1, <1>2, <1>3, <1>5 DEF ToSet
<1> QED BY <1>2, <1>4, <1>6 DEF long

(* The head of a list is in it, its tail has nothing else.                 *)
LEMMA HeadAndTail ==
    ASSUME NEW S, NEW list \in Seq(S), list # <<>>
    PROVE  Head(list) \in S /\ Tail(list) \in Seq(S)
BY HeadTailProperties

-----------------------------------------------------------------------------
(* What a socket is in the list for.  A handler that waits in accept() has *)
(* not entered its socket yet, and a socket on which a send failed stays   *)
(* broken until nothing refers to it.                                      *)
ListInv ==
    /\ IsInjective(dashboard_sockets)
    /\ \A ws \in Sockets : handler[ws] = "accept" => ~Listed(ws)
    /\ \A ws \in Sockets : handler[ws] = "receive" /\ LinkUp(ws) => Listed(ws)
    /\ \A ws \in ToSet(dead) : ~LinkUp(ws)

DashboardInv == TypeOK /\ ChainInv /\ ListInv

(* No step of handlers, broadcasts and faults, and none of the browser but *)
(* connect(), brings a connection up.                                      *)
NoneComesUp == \A ws \in Sockets : LinkUp(ws)' => LinkUp(ws)

(* BrokenLinks: what BreakAll does.                                        *)
LEMMA BrokenLinks ==
    ASSUME TypeOK, NEW S, BreakAll(S)
    PROVE  /\ conn' \in [Sockets -> SocketState] /\ inbox' \in [Sockets -> BOOLEAN]
           /\ NoneComesUp
BY DEF BreakAll, TypeOK, LinkUp, SocketState, NoneComesUp

(* The socket of connect() is in nobody's hands.                           *)
LEMMA Connected ==
    ASSUME NEW h \in Hooks, Connect(h)
    PROVE  \E ws \in Sockets :
              /\ New(ws) /\ conn' = [conn EXCEPT ![ws] = "up"]
              /\ handler' = [handler EXCEPT ![ws] = "accept"]
              /\ wsRef' = [wsRef EXCEPT ![h] = ws] /\ owner' = [owner EXCEPT ![ws] = h]
              /\ UNCHANGED <<inbox, dashboard_sockets>> /\ UNCHANGED broadcastVars
<1> DEFINE fresh == CHOOSE ws \in Sockets : New(ws)
<1>1. fresh \in Sockets /\ New(fresh)
  BY Zenon DEF Connect
<1>2. /\ conn' = [conn EXCEPT ![fresh] = "up"]
      /\ handler' = [handler EXCEPT ![fresh] = "accept"]
      /\ wsRef' = [wsRef EXCEPT ![h] = fresh] /\ owner' = [owner EXCEPT ![fresh] = h]
      /\ UNCHANGED <<inbox, dashboard_sockets>> /\ UNCHANGED broadcastVars
  BY Zenon DEF Connect
<1> HIDE DEF fresh
<1> QED BY <1>1, <1>2

(* ConnectKeepsList: connect() does not disturb the list.                  *)
LEMMA ConnectKeepsList ==
    ASSUME DashboardInv, NEW h \in Hooks, Connect(h)
    PROVE  /\ ListInv' /\ OwnersInv'
           /\ conn' \in [Sockets -> SocketState] /\ handler' \in [Sockets -> HandlerState]
           /\ wsRef' \in [Hooks -> Sockets \cup {NoSocket}]
           /\ owner' \in [Sockets -> Hooks \cup {NoHook}]
           /\ UNCHANGED <<inbox, dashboard_sockets>> /\ UNCHANGED broadcastVars
<1>1. PICK ws \in Sockets :
         /\ New(ws) /\ conn' = [conn EXCEPT ![ws] = "up"]
         /\ handler' = [handler EXCEPT ![ws] = "accept"]
         /\ wsRef' = [wsRef EXCEPT ![h] = ws] /\ owner' = [owner EXCEPT ![ws] = h]
         /\ UNCHANGED <<inbox, dashboard_sockets>> /\ UNCHANGED broadcastVars
  BY Connected
<1>2. OwnersInv'
  BY ConnectGains DEF DashboardInv, ChainInv
<1>3. /\ conn' \in [Sockets -> SocketState] /\ handler' \in [Sockets -> HandlerState]
      /\ wsRef' \in [Hooks -> Sockets \cup {NoSocket}]
      /\ owner' \in [Sockets -> Hooks \cup {NoHook}]
  BY <1>1 DEF DashboardInv, TypeOK, SocketState, HandlerState
<1>4. ~Listed(ws) /\ ws \notin ToSet(dead)
  BY <1>1 DEF New
<1>5. ListInv'
  <2>1. \A x : Listed(x)' = Listed(x)
    BY <1>1 DEF Listed
  <2>2. dead' = dead /\ dashboard_sockets' = dashboard_sockets
    BY <1>1 DEF broadcastVars
  <2>3. \A x \in Sockets : x # ws => handler'[x] = handler[x] /\ (LinkUp(x)' <=> LinkUp(x))
    BY <1>1 DEF LinkUp, DashboardInv, TypeOK
  <2>4. handler'[ws] = "accept"
    BY <1>1 DEF DashboardInv, TypeOK
  <2>5. ToSet(dead) \subseteq Sockets
    BY LenProperties DEF ToSet, DashboardInv, TypeOK
  <2> QED BY <1>4, <2>1, <2>2, <2>3, <2>4, <2>5 DEF ListInv, DashboardInv
<1> QED BY <1>1, <1>2, <1>3, <1>5

(* CalmList: a step that neither changes the list, nor lets a handler      *)
(* begin to receive, nor brings a connection up does not disturb it.       *)
LEMMA CalmList ==
    ASSUME ListInv, NoneComesUp, UNCHANGED dashboard_sockets,
           ToSet(dead') \subseteq ToSet(dead), ToSet(dead) \subseteq Sockets,
           \A ws \in Sockets : handler'[ws] # "none" => handler'[ws] = handler[ws]
    PROVE  ListInv'
<1>1. \A ws : Listed(ws)' = Listed(ws)
  BY DEF Listed
<1> QED BY <1>1 DEF ListInv, NoneComesUp, Listed

(* DeadAreSockets: what a broadcast found dead are sockets.                *)
LEMMA DeadAreSockets == TypeOK => ToSet(dead) \subseteq Sockets
BY LenProperties DEF ToSet, TypeOK

(* What the browser does keeps types and list.                             *)
LEMMA BrowserSteps ==
    ASSUME DashboardInv,
           \/ \E h \in Hooks : Mount(h) \/ Unmount(h) \/ TimerFires(h)
           \/ \E ws \in Sockets : OnMessage(ws) \/ OnClose(ws)
    PROVE  TypeOK' /\ ListInv'
<1>t. TypeOK /\ ListInv /\ OwnersInv /\ ToSet(dead) \subseteq Sockets
  BY DeadAreSockets DEF DashboardInv, ChainInv
<1>1. ASSUME NEW h \in Hooks, Mount(h) PROVE TypeOK' /\ ListInv'
  <2>1. /\ mounted' \in [Hooks -> BOOLEAN] /\ mounts' \in [Hooks -> 0 .. MaxMounts]
        /\ Connect(h) /\ UNCHANGED <<timers, heard, faults>>
    BY <1>1, <1>t, MaxMountsAssumption DEF Mount, TypeOK
  <2> QED BY <1>t, <2>1, ConnectKeepsList DEF TypeOK, broadcastVars
<1>2. ASSUME NEW h \in Hooks, TimerFires(h) PROVE TypeOK' /\ ListInv'
  <2>1. timers' \in [Hooks -> Nat] /\ UNCHANGED <<mounted, mounts, heard, faults>>
    BY <1>2, <1>t DEF TimerFires, TypeOK
  <2>2. CASE Connect(h)
    BY <1>t, <2>1, <2>2, ConnectKeepsList DEF TypeOK, broadcastVars
  <2>3. CASE UNCHANGED subscriptionVars /\ UNCHANGED <<wsRef, owner>>
    <3>1. TypeOK'
      BY <1>t, <2>1, <2>3 DEF TypeOK, subscriptionVars, transportVars, broadcastVars
    <3>2. ListInv'
      BY <1>t, <2>3, CalmList
         DEF subscriptionVars, transportVars, broadcastVars, NoneComesUp, LinkUp
    <3> QED BY <3>1, <3>2
  <2> QED BY <1>2, <2>2, <2>3 DEF TimerFires
<1>3. ASSUME NEW h \in Hooks, Unmount(h) PROVE TypeOK' /\ ListInv'
  <2>1. BreakAll({wsRef[h]}) /\ UNCHANGED <<handler, dashboard_sockets>>
        /\ UNCHANGED <<broadcasting, todo, dead>>
    BY <1>3 DEF Unmount, broadcastVars
  <2>2. /\ conn' \in [Sockets -> SocketState] /\ inbox' \in [Sockets -> BOOLEAN]
        /\ NoneComesUp
    BY <1>t, <2>1, BrokenLinks
  <2>3. TypeOK'
    BY <1>3, <1>t, <2>1, <2>2 DEF TypeOK, Unmount
  <2> QED BY <1>t, <2>1, <2>2, <2>3, CalmList
<1>4. ASSUME NEW ws \in Sockets, OnMessage(ws) PROVE TypeOK' /\ ListInv'
  <2>1. UNCHANGED <<conn, handler, dashboard_sockets, broadcasting, todo, dead>>
    BY <1>4 DEF OnMessage, broadcastVars
  <2>2. heard' \in [Hooks -> BOOLEAN] /\ inbox' \in [Sockets -> BOOLEAN]
    BY <1>4, <1>t DEF OnMessage, TypeOK
  <2>3. TypeOK'
    BY <1>4, <1>t, <2>1, <2>2 DEF TypeOK, OnMessage
  <2> QED BY <1>t, <2>1, <2>3, CalmList DEF NoneComesUp, LinkUp
<1>5. ASSUME NEW ws \in Sockets, OnClose(ws) PROVE TypeOK' /\ ListInv'
  <2>1. UNCHANGED <<inbox, handler, dashboard_sockets, broadcasting, todo, dead>>
        /\ UNCHANGED <<mounted, mounts, wsRef, heard, faults>>
    BY <1>5 DEF OnClose, broadcastVars
  <2>2. conn' \in [Sockets -> SocketState] /\ NoneComesUp
    BY <1>5, <1>t DEF OnClose, TypeOK, SocketState, NoneComesUp, LinkUp
  <2>3. owner' \in [Sockets -> Hooks \cup {NoHook}]
    BY <1>5, <1>t DEF OnClose, TypeOK
  <2>4. owner[ws] \in Hooks /\ TimersAfterClose(owner[ws]) \in Nat
    BY <1>5, <1>t, CloseLoses DEF TimersAfterClose
  <2>5. timers' \in [Hooks -> Nat]
    BY <1>5, <1>t, <2>4 DEF OnClose, TypeOK
  <2>6. TypeOK'
    BY <1>t, <2>1, <2>2, <2>3, <2>5 DEF TypeOK
  <2> QED BY <1>t, <2>1, <2>2, <2>6, CalmList
<1> QED BY <1>1, <1>2, <1>3, <1>4, <1>5

(* So do the handlers of sockets in the API process.                       *)
LEMMA HandlerSteps ==
    ASSUME DashboardInv, NEW ws \in Sockets, HandlerStep(ws), UNCHANGED hookVars, UNCHANGED faults
    PROVE  TypeOK' /\ ListInv'
<1>t. TypeOK /\ ListInv /\ ToSet(dead) \subseteq Sockets
  BY DeadAreSockets DEF DashboardInv
<1>1. /\ UNCHANGED <<conn, inbox, broadcasting, todo, dead>>
      /\ UNCHANGED <<mounted, mounts, wsRef, timers, owner, heard, faults>>
  BY DEF HandlerStep, Subscribe, AcceptFails, Unsubscribe, hookVars, transportVars, broadcastVars
<1>2. \A x : LinkUp(x)' = LinkUp(x)
  BY <1>1 DEF LinkUp
<1>3. ASSUME handler' \in [Sockets -> HandlerState], dashboard_sockets' \in Seq(Sockets)
      PROVE  TypeOK'
  BY <1>1, <1>3, <1>t DEF TypeOK
<1>4. CASE Subscribe(ws)
  <2>1. handler' = [handler EXCEPT ![ws] = "receive"] /\ ~Listed(ws)
        /\ dashboard_sockets' = Append(dashboard_sockets, ws)
    BY <1>4, <1>t DEF Subscribe, ListInv
  <2>2. /\ dashboard_sockets' \in Seq(Sockets) /\ IsInjective(dashboard_sockets')
        /\ ToSet(dashboard_sockets') = ToSet(dashboard_sockets) \cup {ws}
    BY <1>t, <2>1, AppendNew DEF ListInv, TypeOK, Listed
  <2>3. handler' \in [Sockets -> HandlerState]
    BY <1>t, <2>1 DEF TypeOK, HandlerState
  <2>4. \A x \in Sockets : handler'[x] = IF x = ws THEN "receive" ELSE handler[x]
    BY <1>t, <2>1 DEF TypeOK
  <2>5. ListInv'
    BY <1>1, <1>2, <1>t, <2>2, <2>4 DEF ListInv, Listed
  <2> QED BY <1>3, <2>2, <2>3, <2>5
<1>5. CASE AcceptFails(ws)
  <2>1. handler' \in [Sockets -> HandlerState] /\ dashboard_sockets' = dashboard_sockets
    BY <1>5, <1>t DEF AcceptFails, TypeOK, HandlerState
  <2>2. \A x \in Sockets : handler'[x] # "none" => handler'[x] = handler[x]
    BY <1>5, <1>t DEF AcceptFails, TypeOK
  <2>3. ListInv'
    BY <1>1, <1>2, <1>t, <2>1, <2>2, CalmList DEF NoneComesUp
  <2> QED BY <1>3, <1>t, <2>1, <2>3 DEF TypeOK
<1>6. CASE Unsubscribe(ws)
  <2>1. ~LinkUp(ws) /\ handler' = [handler EXCEPT ![ws] = "none"]
    BY <1>6 DEF Unsubscribe
  <2>2. /\ dashboard_sockets' \in Seq(Sockets) /\ IsInjective(dashboard_sockets')
        /\ ToSet(dashboard_sockets') = ToSet(dashboard_sockets) \ {ws}
    <3>1. CASE Listed(ws)
      BY <1>6, <1>t, <3>1, RemoveSocketProperties DEF Unsubscribe, ListInv, TypeOK
    <3>2. CASE ~Listed(ws)
      BY <1>6, <1>t, <3>2 DEF Unsubscribe, ListInv, TypeOK, Listed
    <3> QED BY <3>1, <3>2
  <2>3. handler' \in [Sockets -> HandlerState]
    BY <1>t, <2>1 DEF TypeOK, HandlerState
  <2>4. \A x \in Sockets : handler'[x] = IF x = ws THEN "none" ELSE handler[x]
    BY <1>t, <2>1 DEF TypeOK
  <2>5. ListInv'
    BY <1>1, <1>2, <1>t, <2>1, <2>2, <2>4 DEF ListInv, Listed
  <2> QED BY <1>3, <2>2, <2>3, <2>5
<1> QED BY <1>4, <1>5, <1>6 DEF HandlerStep

(* The sockets that a broadcast takes out of the list are some of those on *)
(* which a send failed.                                                    *)
LEMMA PurgedAreDead ==
    ASSUME TypeOK, Purge
    PROVE  \E reached \in Seq(Sockets) :
              /\ ToSet(reached) \subseteq ToSet(dead)
              /\ dashboard_sockets' = AllRemoved(dashboard_sockets, reached)
<1> DEFINE reached == IF FirstMissing = 0 THEN dead ELSE SubSeq(dead, 1, FirstMissing - 1)
<1>1. dashboard_sockets' = AllRemoved(dashboard_sockets, reached)
  BY DEF Purge, AllRemoved
<1>2. Len(dead) \in Nat /\ DOMAIN dead = 1 .. Len(dead) /\ \A i \in 1 .. Len(dead) : dead[i] \in Sockets
  BY LenProperties DEF TypeOK
<1>3. FirstMissing = 0 \/ FirstMissing \in 1 .. Len(dead)
  <2> DEFINE Missing == {i \in 1 .. Len(dead) : ~Listed(dead[i])}
  <2>1. FirstMissing = IF Missing # {} THEN Min(Missing) ELSE 0
    BY DEF FirstMissing, SelectInSeq
  <2>2. ASSUME Missing # {} PROVE Min(Missing) \in Missing
    <3>1. Missing \subseteq Nat
      BY <1>2
    <3> HIDE DEF Missing
    <3>2. PICK m \in Missing : \A k \in Missing : <<k, m>> \notin Less
      BY <2>2, <3>1, LessIsWellFounded, WFMin
    <3>3. ASSUME NEW k \in Missing PROVE m <= k
      <4>1. k \in Nat /\ m \in Nat /\ ~(k < m)
        BY <3>1, <3>2 DEF Less
      <4> QED BY <4>1
    <3> QED BY <3>3, Zenon DEF Min
  <2> QED BY <2>1, <2>2
<1>4. CASE FirstMissing = 0
  BY <1>1, <1>4 DEF TypeOK
<1>5. CASE FirstMissing \in 1 .. Len(dead)
  <2> DEFINE last == FirstMissing - 1
  <2>1. reached = SubSeq(dead, 1, last) /\ last \in 0 .. Len(dead)
    BY <1>2, <1>5
  <2> HIDE DEF last, reached
  <2>2. /\ reached \in Seq(Sockets) /\ Len(reached) = last
        /\ \A i \in 1 .. last : reached[i] = dead[i]
    <3>1. last \in Int /\ \A i \in 1 .. last : dead[i] \in Sockets
      BY <1>2, <2>1
    <3>2. /\ SubSeq(dead, 1, last) \in Seq(Sockets)
          /\ Len(SubSeq(dead, 1, last)) = IF 1 <= last THEN last - 1 + 1 ELSE 0
          /\ \A i \in 1 .. last - 1 + 1 : SubSeq(dead, 1, last)[i] = dead[1 + i - 1]
      BY <3>1, SubSeqProperties
    <3>3. Len(reached) = last
      BY <2>1, <3>2
    <3>4. ASSUME NEW i \in 1 .. last PROVE reached[i] = dead[i]
      <4>1. i \in 1 .. last - 1 + 1 /\ 1 + i - 1 = i
        BY <3>1
      <4> QED BY <2>1, <3>2, <4>1
    <3> QED BY <2>1, <3>2, <3>3, <3>4
  <2>3. DOMAIN reached = 1 .. last
    BY <2>2, LenProperties
  <2>4. ToSet(reached) \subseteq ToSet(dead)
    BY <1>2, <2>1, <2>2, <2>3 DEF ToSet
  <2> QED BY <1>1, <2>2, <2>4
<1> QED BY <1>3, <1>4, <1>5

(* The steps of a broadcast keep types and list.                           *)
LEMMA BroadcastSteps ==
    ASSUME DashboardInv, Announce \/ Broadcast
    PROVE  TypeOK' /\ ListInv'
<1>t. TypeOK /\ ListInv /\ ToSet(dead) \subseteq Sockets
  BY DeadAreSockets DEF DashboardInv
<1>1. UNCHANGED <<conn, handler, mounted, mounts, wsRef, timers, owner, faults>>
  BY DEF Announce, StartBroadcast, Broadcast, BroadcastStep, SendSucceeds, SendRaises, Purge,
         hookVars, transportVars
<1>2. NoneComesUp
  BY <1>1 DEF NoneComesUp, LinkUp
<1>3. CASE Announce
  <2>1. /\ UNCHANGED <<inbox, dashboard_sockets>> /\ broadcasting' = TRUE
        /\ todo' = dashboard_sockets /\ dead' = <<>> /\ heard' = [h \in Hooks |-> FALSE]
    BY <1>3 DEF Announce, StartBroadcast, transportVars
  <2>2. TypeOK'
    BY <1>1, <1>t, <2>1 DEF TypeOK
  <2>3. ToSet(<<>>) = {}
    BY DEF ToSet
  <2> QED BY <1>1, <1>2, <1>t, <2>1, <2>2, <2>3, CalmList
<1>4. ASSUME Broadcast, SendSucceeds PROVE TypeOK' /\ ListInv'
  <2>1. /\ UNCHANGED <<dashboard_sockets, broadcasting, dead, heard>>
        /\ broadcasting /\ todo # <<>> /\ todo' = Tail(todo)
        /\ inbox' = [inbox EXCEPT ![Head(todo)] = LinkUp(Head(todo))]
    BY <1>4 DEF Broadcast, SendSucceeds, hookVars
  <2>2. Tail(todo) \in Seq(Sockets) /\ LinkUp(Head(todo)) \in BOOLEAN
    BY <1>t, <2>1, HeadAndTail DEF TypeOK, LinkUp
  <2>3. inbox' \in [Sockets -> BOOLEAN]
    BY <1>t, <2>1, <2>2 DEF TypeOK
  <2>4. TypeOK'
    BY <1>1, <1>t, <2>1, <2>2, <2>3 DEF TypeOK
  <2> QED BY <1>1, <1>2, <1>t, <2>1, <2>4, CalmList
<1>5. ASSUME Broadcast, SendRaises PROVE TypeOK' /\ ListInv'
  <2>1. /\ UNCHANGED <<inbox, dashboard_sockets, broadcasting, heard>>
        /\ broadcasting /\ todo # <<>> /\ todo' = Tail(todo)
        /\ ~LinkUp(Head(todo)) /\ dead' = Append(dead, Head(todo))
    BY <1>5 DEF Broadcast, SendRaises, hookVars, transportVars
  <2>2. Head(todo) \in Sockets /\ Tail(todo) \in Seq(Sockets)
    BY <1>t, <2>1, HeadAndTail DEF TypeOK
  <2>3. dead' \in Seq(Sockets) /\ \A ws \in ToSet(dead') : ws \in ToSet(dead) \/ ws = Head(todo)
    <3>1. /\ Append(dead, Head(todo)) \in Seq(Sockets)
          /\ Len(Append(dead, Head(todo))) = Len(dead) + 1
          /\ \A i \in 1 .. Len(dead) : Append(dead, Head(todo))[i] = dead[i]
          /\ Append(dead, Head(todo))[Len(dead) + 1] = Head(todo)
      BY <1>t, <2>2, AppendProperties DEF TypeOK
    <3>2. /\ DOMAIN dead = 1 .. Len(dead) /\ Len(dead) \in Nat
          /\ DOMAIN Append(dead, Head(todo)) = 1 .. (Len(dead) + 1)
      BY <1>t, <3>1, LenProperties DEF TypeOK
    <3>3. \A i \in 1 .. (Len(dead) + 1) : i = Len(dead) + 1 \/ i \in 1 .. Len(dead)
      BY <3>2
    <3> QED BY <2>1, <3>1, <3>2, <3>3 DEF ToSet
  <2>4. TypeOK'
    BY <1>1, <1>t, <2>1, <2>2, <2>3 DEF TypeOK
  <2>5. \A ws : Listed(ws)' = Listed(ws) /\ LinkUp(ws)' = LinkUp(ws)
    BY <1>1, <2>1 DEF Listed, LinkUp
  <2>6. ListInv'
    BY <1>1, <1>t, <2>1, <2>3, <2>5 DEF ListInv
  <2> QED BY <2>4, <2>6
<1>6. ASSUME Broadcast, Purge PROVE TypeOK' /\ ListInv'
  <2>1. /\ UNCHANGED <<inbox, heard, todo>> /\ todo = <<>> /\ broadcasting' = FALSE
        /\ dead' = <<>>
    BY <1>6 DEF Broadcast, Purge, hookVars, transportVars
  <2>2. PICK reached \in Seq(Sockets) :
           /\ ToSet(reached) \subseteq ToSet(dead)
           /\ dashboard_sockets' = AllRemoved(dashboard_sockets, reached)
    BY <1>6, <1>t, PurgedAreDead
  <2>3. /\ dashboard_sockets' \in Seq(Sockets) /\ IsInjective(dashboard_sockets')
        /\ ToSet(dashboard_sockets') = ToSet(dashboard_sockets) \ ToSet(reached)
    BY <1>t, <2>2, RemovalProperties DEF TypeOK, ListInv
  <2>4. TypeOK'
    BY <1>1, <1>t, <2>1, <2>3 DEF TypeOK
  <2>5. ToSet(<<>>) = {}
    BY DEF ToSet
  <2>6. \A ws \in ToSet(reached) : ~LinkUp(ws)
    BY <1>t, <2>2 DEF ListInv
  <2>7. \A ws : LinkUp(ws)' = LinkUp(ws)
    BY <1>1 DEF LinkUp
  <2>8. ListInv'
    BY <1>1, <1>t, <2>1, <2>3, <2>5, <2>6, <2>7 DEF ListInv, Listed
  <2> QED BY <2>4, <2>8
<1> QED BY <1>3, <1>4, <1>5, <1>6 DEF Broadcast, BroadcastStep

(* So do faults.                                                           *)
LEMMA FaultSteps ==
    ASSUME DashboardInv, Fault
    PROVE  TypeOK' /\ ListInv'
<1>t. TypeOK /\ ListInv /\ ToSet(dead) \subseteq Sockets
  BY DeadAreSockets DEF DashboardInv
<1>1. /\ UNCHANGED <<mounted, mounts, wsRef, timers, owner, heard>>
      /\ faults' \in 0 .. MaxFaults
  BY <1>t, MaxFaultsAssumption DEF Fault, hookVars, TypeOK
<1>2. ASSUME NEW ws \in Sockets, Break(ws) \/ HandlerError(ws) PROVE TypeOK' /\ ListInv'
  <2>1. /\ BreakAll({ws}) /\ UNCHANGED <<dashboard_sockets, broadcasting, todo, dead>>
        /\ handler' \in [Sockets -> HandlerState]
        /\ \A x \in Sockets : handler'[x] # "none" => handler'[x] = handler[x]
    BY <1>2, <1>t DEF Break, HandlerError, broadcastVars, TypeOK, HandlerState
  <2>2. /\ conn' \in [Sockets -> SocketState] /\ inbox' \in [Sockets -> BOOLEAN]
        /\ NoneComesUp
    BY <1>t, <2>1, BrokenLinks
  <2>3. TypeOK'
    BY <1>1, <1>t, <2>1, <2>2 DEF TypeOK
  <2> QED BY <1>t, <2>1, <2>2, <2>3, CalmList
<1>3. CASE ApiRestart
  <2>1. /\ BreakAll(Sockets) /\ handler' = [ws \in Sockets |-> "none"]
        /\ dashboard_sockets' = <<>> /\ broadcasting' = FALSE /\ todo' = <<>> /\ dead' = <<>>
    BY <1>3 DEF ApiRestart
  <2>2. conn' \in [Sockets -> SocketState] /\ inbox' \in [Sockets -> BOOLEAN]
    BY <1>t, <2>1, BrokenLinks
  <2>3. TypeOK'
    BY <1>1, <1>t, <2>1, <2>2, EmptySeq DEF TypeOK, HandlerState
  <2>4. ListInv'
    BY <2>1 DEF ListInv, ToSet, IsInjective
  <2> QED BY <2>3, <2>4
<1> QED BY <1>2, <1>3 DEF Fault

(* DashboardInvKept: the invariant is inductive.                           *)
LEMMA DashboardInvKept == DashboardInv /\ [Next]_vars => DashboardInv'
<1> SUFFICES ASSUME DashboardInv, [Next]_vars PROVE DashboardInv'
  OBVIOUS
<1>1. ChainInv'
  BY ChainInvKept DEF DashboardInv
<1>2. ASSUME UNCHANGED vars PROVE TypeOK' /\ ListInv'
  <2>1. TypeOK'
    BY <1>2 DEF DashboardInv, TypeOK, vars, subscriptionVars, transportVars, broadcastVars, hookVars
  <2>2. ListInv'
    BY <1>2, DeadAreSockets, CalmList
       DEF DashboardInv, vars, subscriptionVars, transportVars, broadcastVars, NoneComesUp, LinkUp
  <2> QED BY <2>1, <2>2
<1>3. TypeOK' /\ ListInv'
  BY <1>2, BrowserSteps, HandlerSteps, BroadcastSteps, FaultSteps DEF Next, ServeSocket
<1> QED BY <1>1, <1>3 DEF DashboardInv

(* The invariant holds at the start.                                       *)
LEMMA DashboardInvAtStart == Init => DashboardInv
<1> SUFFICES ASSUME Init PROVE DashboardInv
  OBVIOUS
<1>1. TypeOK
  <2>1. /\ conn \in [Sockets -> SocketState] /\ inbox \in [Sockets -> BOOLEAN]
        /\ handler \in [Sockets -> HandlerState] /\ broadcasting \in BOOLEAN
        /\ todo = <<>> /\ dead = <<>> /\ dashboard_sockets = <<>>
    BY DEF Init, SubscriptionsInit, SocketState, HandlerState
  <2>2. /\ mounted \in [Hooks -> BOOLEAN] /\ heard \in [Hooks -> BOOLEAN]
        /\ mounts \in [Hooks -> 0 .. MaxMounts] /\ timers \in [Hooks -> Nat]
        /\ wsRef \in [Hooks -> Sockets \cup {NoSocket}]
        /\ owner \in [Sockets -> Hooks \cup {NoHook}] /\ faults \in 0 .. MaxFaults
    BY MaxMountsAssumption, MaxFaultsAssumption DEF Init
  <2> QED BY <2>1, <2>2, EmptySeq DEF TypeOK
<1>2. ListInv
  BY DEF Init, SubscriptionsInit, ListInv, IsInjective, ToSet
<1> QED BY <1>1, <1>2, ChainInvAtStart DEF DashboardInv

(* DashboardTypes: every variable keeps its type, and the locals of a      *)
(* broadcast do not outlive it.                                            *)
THEOREM DashboardTypes == FairSpec => []TypeOK
<1>1. DashboardInv => TypeOK
  BY DEF DashboardInv
<1> QED BY <1>1, DashboardInvAtStart, DashboardInvKept, PTL DEF FairSpec

(* SubscribersStayListed: no interleaving of broadcasts, handlers, lost    *)
(* connections and restarts loses a subscriber or lists it twice.          *)
THEOREM SubscribersStayListed == FairSpec => []SubscribersAreListed
<1>1. DashboardInv => SubscribersAreListed
  BY DEF DashboardInv, ListInv, SubscribersAreListed
<1> QED BY <1>1, DashboardInvAtStart, DashboardInvKept, PTL DEF FairSpec
=============================================================================
