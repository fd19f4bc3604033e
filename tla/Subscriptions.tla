---------------------------- MODULE Subscriptions ----------------------------
(***************************************************************************)
(* The dashboard channel of the API process: ConnectionManager             *)
(* (api/websocket/manager.py), the route ws_dashboard (api/routes/jobs.py) *)
(* and the loop that broadcasts every three seconds (api/main.py).  All    *)
(* run in one event loop: they interleave at every await and nowhere else, *)
(* so a broadcast, which awaits each send, sees sockets come and go.       *)
(***************************************************************************)
EXTENDS SequencesExt

CONSTANT Sockets    \* WebSocket objects, each with both of its ends

VARIABLES
    conn,               \* socket -> the end in the browser
    inbox,              \* socket -> whether a message is on its way to it
    handler,            \* socket -> where its ws_dashboard is
    dashboard_sockets,  \* _dashboard_sockets
    broadcasting,       \* the loop is in broadcast_dashboard
    todo,               \* the rest of list(self._dashboard_sockets)
    dead                \* the local list dead

transportVars == <<conn, inbox>>
broadcastVars == <<broadcasting, todo, dead>>
subscriptionVars == <<transportVars, handler, dashboard_sockets, broadcastVars>>

(* "up" from new WebSocket() on; "broken" when the connection is gone and  *)
(* the browser has not fired onclose.                                      *)
SocketState == {"unused", "up", "broken"}

(* ws_dashboard has not begun or has returned ("none"), waits in accept()  *)
(* or waits in receive_text().                                             *)
HandlerState == {"none", "accept", "receive"}

LinkUp(ws) == conn[ws] = "up"

(* The connections of the sockets in S break; what was on its way is lost. *)
BreakAll(S) ==
    /\ conn' = [ws \in Sockets |->
                   IF ws \in S /\ LinkUp(ws) THEN "broken" ELSE conn[ws]]
    /\ inbox' = [ws \in Sockets |-> inbox[ws] /\ ws \notin S]

Listed(ws) == ws \in ToSet(dashboard_sockets)

SubscriptionsInit ==
    /\ conn = [ws \in Sockets |-> "unused"]
    /\ inbox = [ws \in Sockets |-> FALSE]
    /\ handler = [ws \in Sockets |-> "none"]
    /\ dashboard_sockets = <<>>
    /\ broadcasting = FALSE /\ todo = <<>> /\ dead = <<>>

-----------------------------------------------------------------------------
(* Mutant of RemoveSocket: the last socket of the list.                    *)
RemoveAnother(list, ws) == Front(list)

(* list.remove(ws) *)
RemoveSocket(list, ws) == RemoveFirst(list, ws)

(* connect_dashboard, after accept() returned.                             *)
Subscribe(ws) ==
    /\ handler[ws] = "accept"
    /\ handler' = [handler EXCEPT ![ws] = "receive"]
    /\ dashboard_sockets' = Append(dashboard_sockets, ws)
    /\ UNCHANGED transportVars /\ UNCHANGED broadcastVars

(* accept() raises: the client has gone already.                           *)
AcceptFails(ws) ==
    /\ handler[ws] = "accept" /\ ~LinkUp(ws)
    /\ handler' = [handler EXCEPT ![ws] = "none"]
    /\ UNCHANGED dashboard_sockets
    /\ UNCHANGED transportVars /\ UNCHANGED broadcastVars

(* receive_text() raises WebSocketDisconnect: disconnect_dashboard.        *)
Unsubscribe(ws) ==
    /\ handler[ws] = "receive" /\ ~LinkUp(ws)
    /\ handler' = [handler EXCEPT ![ws] = "none"]
    /\ dashboard_sockets' = IF Listed(ws) THEN RemoveSocket(dashboard_sockets, ws)
                                          ELSE dashboard_sockets
    /\ UNCHANGED transportVars /\ UNCHANGED broadcastVars

(* receive_text() raises something else, which ws_dashboard does not       *)
(* catch: the server closes the connection, the socket stays in the list.  *)
HandlerError(ws) ==
    /\ handler[ws] = "receive"
    /\ handler' = [handler EXCEPT ![ws] = "none"]
    /\ BreakAll({ws})
    /\ UNCHANGED dashboard_sockets /\ UNCHANGED broadcastVars

-----------------------------------------------------------------------------
(* The loop woke up and its reads succeeded (when they raise, it goes back *)
(* to sleep): broadcast_dashboard begins with a copy of the list.          *)
StartBroadcast ==
    /\ ~broadcasting
    /\ broadcasting' = TRUE
    /\ todo' = dashboard_sockets
    /\ dead' = <<>>
    /\ UNCHANGED <<handler, dashboard_sockets>> /\ UNCHANGED transportVars

(* A send to a client that is gone may still succeed, until the server has *)
(* noticed.                                                                *)
SendSucceeds ==
    /\ broadcasting /\ todo # <<>>
    /\ handler[Head(todo)] = "receive"
    /\ inbox' = [inbox EXCEPT ![Head(todo)] = LinkUp(Head(todo))]
    /\ todo' = Tail(todo)
    /\ UNCHANGED <<conn, handler, dashboard_sockets, broadcasting, dead>>

(* Mutant of SendRaises: without try, the exception ends the broadcast.    *)
SendAborts ==
    /\ broadcasting /\ todo # <<>>
    /\ ~LinkUp(Head(todo))
    /\ broadcasting' = FALSE
    /\ UNCHANGED <<handler, dashboard_sockets, todo, dead>> /\ UNCHANGED transportVars

SendRaises ==
    /\ broadcasting /\ todo # <<>>
    /\ ~LinkUp(Head(todo))
    /\ dead' = Append(dead, Head(todo))
    /\ todo' = Tail(todo)
    /\ UNCHANGED <<handler, dashboard_sockets, broadcasting>> /\ UNCHANGED transportVars

(* The first dead socket that its handler has taken out of the list during *)
(* a send: there list.remove raises ValueError.  0 if there is none.       *)
FirstMissing == SelectInSeq(dead, LAMBDA ws : ~Listed(ws))

(* The sockets before that one are removed, the rest stays.  No await in   *)
(* that loop: one step.  (A handler that runs between the last send and    *)
(* this step might as well have run during that send.)  The exception is   *)
(* caught in _dashboard_broadcast_loop, which sleeps and starts again.     *)
Purge ==
    /\ broadcasting /\ todo = <<>>
    /\ LET reached == IF FirstMissing = 0 THEN dead ELSE SubSeq(dead, 1, FirstMissing - 1)
       IN  dashboard_sockets' = FoldLeft(RemoveSocket, dashboard_sockets, reached)
    /\ broadcasting' = FALSE
    /\ dead' = <<>>
    /\ UNCHANGED <<handler, todo>> /\ UNCHANGED transportVars

(* The API process ends, with its connections, and starts again.           *)
ApiRestart ==
    /\ BreakAll(Sockets)
    /\ handler' = [ws \in Sockets |-> "none"]
    /\ dashboard_sockets' = <<>>
    /\ broadcasting' = FALSE /\ todo' = <<>> /\ dead' = <<>>

HandlerStep(ws) == Subscribe(ws) \/ AcceptFails(ws) \/ Unsubscribe(ws)
BroadcastStep == SendSucceeds \/ SendRaises \/ Purge
=============================================================================
