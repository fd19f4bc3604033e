--------------------------- MODULE LiveDashboard ----------------------------
(***************************************************************************)
(* Dashboards in browsers (frontend/src/hooks/useDashboard.ts) and the     *)
(* channel that feeds them.  A hook opens a WebSocket when it is mounted   *)
(* and another one some time after each onclose.  A component may be       *)
(* mounted again with the same refs: React does it once in development     *)
(* (reactStrictMode, next.config.ts).                                      *)
(*                                                                         *)
(* Connections break, handlers raise and the API process restarts, at most *)
(* MaxFaults times.  The length of the backoff is left out.                *)
(***************************************************************************)
EXTENDS Subscriptions

CONSTANTS
    Hooks,      \* uses of useDashboard, one per browser tab
    NoHook,     \* the owner of a socket that was never opened
    NoSocket,   \* wsRef before the first connect
    MaxMounts,  \* bound: how often a hook is mounted
    MaxFaults   \* bound: how many faults happen

ASSUME MaxMountsAssumption == MaxMounts \in Nat \ {0}
ASSUME MaxFaultsAssumption == MaxFaults \in Nat
ASSUME SocketsAssumption == IsFiniteSet(Sockets)
ASSUME NoHookAssumption == NoHook \notin Hooks

VARIABLES
    mounted,    \* hook -> mountedRef
    mounts,     \* hook -> how often it was mounted
    wsRef,      \* hook -> the socket that the cleanup closes
    timers,     \* hook -> number of setTimeout(connect) pending
    owner,      \* socket -> the hook whose callbacks it has, until onclose
    heard,      \* hook -> it got data since the last broadcast began
    faults

hookVars == <<mounted, mounts, wsRef, timers, owner, heard>>
vars == <<subscriptionVars, hookVars, faults>>

Init ==
    /\ SubscriptionsInit
    /\ mounted = [h \in Hooks |-> FALSE]
    /\ mounts = [h \in Hooks |-> 0]
    /\ wsRef = [h \in Hooks |-> NoSocket]
    /\ timers = [h \in Hooks |-> 0]
    /\ owner = [ws \in Sockets |-> NoHook]
    /\ heard = [h \in Hooks |-> FALSE]
    /\ faults = 0

-----------------------------------------------------------------------------
(* A WebSocket object that nothing refers to any more stands for the next  *)
(* new one.                                                                *)
New(ws) ==
    /\ conn[ws] = "unused" /\ handler[ws] = "none"
    /\ ~Listed(ws) /\ ws \notin ToSet(todo) \cup ToSet(dead)
    /\ \A h \in Hooks : wsRef[h] # ws

(* connect(), of a hook that is mounted; with it the server begins to run  *)
(* ws_dashboard.  One new socket is as good as another.                    *)
Connect(h) ==
    /\ \E ws \in Sockets : New(ws)
    /\ LET ws == CHOOSE ws \in Sockets : New(ws)
       IN  /\ conn' = [conn EXCEPT ![ws] = "up"]
           /\ handler' = [handler EXCEPT ![ws] = "accept"]
           /\ wsRef' = [wsRef EXCEPT ![h] = ws]
           /\ owner' = [owner EXCEPT ![ws] = h]
    /\ UNCHANGED <<inbox, dashboard_sockets>> /\ UNCHANGED broadcastVars

(* The effect of the component runs.                                       *)
Mount(h) ==
    /\ ~mounted[h] /\ mounts[h] < MaxMounts
    /\ mounted' = [mounted EXCEPT ![h] = TRUE]
    /\ mounts' = [mounts EXCEPT ![h] = @ + 1]
    /\ Connect(h)
    /\ UNCHANGED <<timers, heard, faults>>

(* Its cleanup runs: wsRef.current.close(), whose onclose comes later.     *)
Unmount(h) ==
    /\ mounted[h]
    /\ mounted' = [mounted EXCEPT ![h] = FALSE]
    /\ BreakAll({wsRef[h]})
    /\ heard' = [heard EXCEPT ![h] = FALSE]
    /\ UNCHANGED <<mounts, wsRef, timers, owner, faults>>
    /\ UNCHANGED <<handler, dashboard_sockets>> /\ UNCHANGED broadcastVars

OnMessage(ws) ==
    /\ inbox[ws]
    /\ inbox' = [inbox EXCEPT ![ws] = FALSE]
    /\ heard' = [heard EXCEPT ![owner[ws]] = mounted[owner[ws]]]
    /\ UNCHANGED <<conn, handler, dashboard_sockets>> /\ UNCHANGED broadcastVars
    /\ UNCHANGED <<mounted, mounts, wsRef, timers, owner, faults>>

(* Mutant of TimersAfterClose: onerror reconnects, and so does onclose.    *)
TwoTimersAfterClose(h) == IF mounted[h] THEN 2 ELSE 0

TimersAfterClose(h) == IF mounted[h] THEN 1 ELSE 0

OnClose(ws) ==
    /\ conn[ws] = "broken"
    /\ conn' = [conn EXCEPT ![ws] = "unused"]
    /\ timers' = [timers EXCEPT ![owner[ws]] = @ + TimersAfterClose(owner[ws])]
    /\ owner' = [owner EXCEPT ![ws] = NoHook]
    /\ UNCHANGED <<inbox, handler, dashboard_sockets>> /\ UNCHANGED broadcastVars
    /\ UNCHANGED <<mounted, mounts, wsRef, heard, faults>>

(* Mutant of MayConnect: connect without its first line.                   *)
AlwaysConnect(h) == TRUE

(* if (!mountedRef.current) return; nobody clears the timer.               *)
MayConnect(h) == mounted[h]

TimerFires(h) ==
    /\ timers[h] > 0
    /\ timers' = [timers EXCEPT ![h] = @ - 1]
    /\ IF MayConnect(h) THEN Connect(h)
                        ELSE UNCHANGED subscriptionVars /\ UNCHANGED <<wsRef, owner>>
    /\ UNCHANGED <<mounted, mounts, heard, faults>>

-----------------------------------------------------------------------------
ServeSocket(ws) == HandlerStep(ws) /\ UNCHANGED hookVars /\ UNCHANGED faults

(* New data: what the dashboards have is not the latest any more.          *)
Announce ==
    /\ StartBroadcast
    /\ heard' = [h \in Hooks |-> FALSE]
    /\ UNCHANGED <<mounted, mounts, wsRef, timers, owner, faults>>

Broadcast == BroadcastStep /\ UNCHANGED hookVars /\ UNCHANGED faults

Break(ws) ==
    /\ LinkUp(ws)
    /\ BreakAll({ws})
    /\ UNCHANGED <<handler, dashboard_sockets>> /\ UNCHANGED broadcastVars

Fault ==
    /\ faults < MaxFaults
    /\ faults' = faults + 1
    /\ \/ \E ws \in Sockets : Break(ws) \/ HandlerError(ws)
       \/ ApiRestart
    /\ UNCHANGED hookVars

Next ==
    \/ \E h \in Hooks : Mount(h) \/ Unmount(h) \/ TimerFires(h)
    \/ \E ws \in Sockets : OnMessage(ws) \/ OnClose(ws) \/ ServeSocket(ws)
    \/ Announce \/ Broadcast \/ Fault

(* Events of the browser and steps of the event loop happen at last: a     *)
(* send returns or raises, and not every read of the loop fails.  Nothing  *)
(* is assumed of mounting, unmounting and faults.                          *)
Fairness ==
    /\ \A ws \in Sockets : WF_vars(OnMessage(ws))
    /\ WF_vars(\E ws \in Sockets : OnClose(ws))
    /\ WF_vars(\E ws \in Sockets : ServeSocket(ws))
    /\ \A h \in Hooks : WF_vars(TimerFires(h))
    /\ WF_vars(Announce)
    /\ WF_vars(Broadcast)

FairSpec == Init /\ [][Next]_vars /\ Fairness

-----------------------------------------------------------------------------
(* TypeOK: every variable holds values of its type, and the locals of a    *)
(* broadcast do not outlive it.                                            *)
TypeOK ==
    /\ conn \in [Sockets -> SocketState] /\ inbox \in [Sockets -> BOOLEAN]
    /\ handler \in [Sockets -> HandlerState]
    /\ dashboard_sockets \in Seq(Sockets)
    /\ todo \in Seq(Sockets) /\ dead \in Seq(Sockets)
    /\ broadcasting \in BOOLEAN /\ (~broadcasting => todo = <<>> /\ dead = <<>>)
    /\ mounted \in [Hooks -> BOOLEAN] /\ mounts \in [Hooks -> 0 .. MaxMounts]
    /\ wsRef \in [Hooks -> Sockets \cup {NoSocket}]
    /\ timers \in [Hooks -> Nat] /\ owner \in [Sockets -> Hooks \cup {NoHook}]
    /\ heard \in [Hooks -> BOOLEAN] /\ faults \in 0 .. MaxFaults

(* SubscribersAreListed: whatever comes and goes during a broadcast, a     *)
(* socket whose client is connected is in the list, once (manager.py:57,   *)
(* 69-70 both take sockets out).                                           *)
SubscribersAreListed ==
    /\ \A ws \in Sockets : handler[ws] = "receive" /\ LinkUp(ws) => Listed(ws)
    /\ IsInjective(dashboard_sockets)

(* GhostsLeave: a socket whose client is gone does not stay in the list,   *)
(* although its handler may have ended without disconnect_dashboard and    *)
(* although a ValueError ends the clean-up of a broadcast early.           *)
GhostsLeave ==
    \A ws \in Sockets : Listed(ws) /\ ~LinkUp(ws) ~> ~Listed(ws) \/ LinkUp(ws)

(* DashboardsStayLive: a mounted dashboard gets new data again and again   *)
(* (README.md:94), after lost connections, failed clean-ups and restarts.  *)
DashboardsStayLive ==
    \A h \in Hooks : []<>(heard[h] \/ ~mounted[h])

(* Connections of hook h, and timers that will open one.                   *)
Chains(h) ==
    timers[h] + Cardinality({ws \in Sockets : owner[ws] = h})

(* ReconnectsDoNotMultiply: each mount begins one chain of connections,    *)
(* and reconnecting continues a chain, never begins one.                   *)
ReconnectsDoNotMultiply == \A h \in Hooks : Chains(h) <= mounts[h]

(* NothingLeftBehind: a hook that was mounted once leaves no connection    *)
(* and no timer behind when it is unmounted, even while it reconnects.     *)
NothingLeftBehind ==
    \A h \in Hooks :
       mounts[h] = 1 /\ ~mounted[h] ~> Chains(h) = 0 \/ mounted[h]
=============================================================================
