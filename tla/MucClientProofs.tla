-------------------------- MODULE MucClientProofs --------------------------
(***************************************************************************)
(* Proofs about the chat room client, for any number of nicks and          *)
(* participants and every interleaving of its threads.                     *)
(***************************************************************************)
EXTENDS MucClient, TLAPS

-----------------------------------------------------------------------------
(* The steps, by the variables they change                                 *)

(* The steps that change neither the room nor the threads.                 *)
Sends == UpdateOrders \/ PublishMessage \/ TakeOrder \/ HandlePrivate

(* Steps about the other participants.                                     *)
Participants ==
    \/ \E n \in Nick, p \in Peer : Available(n, p)
    \/ \E n \in Nick : Unavailable(n) \/ RoomMessage(n)
    \/ \E n, m \in Nick : NickChanged(n, m)

(* Every step is one of these.                                             *)
LEMMA StepCases ==
    ASSUME [Next]_vars
    PROVE  \/ Reconnect \/ JoinDisconnecter \/ EnterRoom \/ Joined
           \/ \E success \in BOOLEAN : XmppConnect(success)
           \/ LeaveRoom \/ XmppDisconnect \/ ResetRoom \/ FinishWorker
           \/ \E t \in Handler : \/ TestDisconnecting(t) \/ JoinOld(t)
                                 \/ StartWorker(t) \/ AssignDisconnecter(t)
           \/ NotifyJoin \/ Stop \/ Disconnect \/ Disconnected
           \/ SelfPresence \/ \E s \in {"out", session} : Removed(s)
           \/ Participants \/ Sends \/ ConnectionLost
           \/ UNCHANGED vars
BY DEF Next, Connect, Worker, Recv, Main, DisconnectAsync, Handler, Participants, Sends

-----------------------------------------------------------------------------
(* Types                                                                   *)

(* The type invariant in two parts.                                        *)
Flags ==
    /\ conn \in BOOLEAN /\ room \in BOOLEAN /\ disconnecting \in BOOLEAN
    /\ joining \in BOOLEAN /\ joinable \in BOOLEAN /\ serving \in BOOLEAN
    /\ known \in BOOLEAN /\ publishing \in BOOLEAN /\ mixup \in BOOLEAN
    /\ regular \in BOOLEAN

Shapes ==
    /\ session \in {"out", "joining", "in"}
    /\ occupants \in [Nick -> Peer \cup {None}]
    /\ nickToJid \in [Nick -> Peer \cup {None}]
    /\ worker \in {"none", "leave", "disconnect", "reset", "finish", "done"}
    /\ rc \in {"join", "connect", "enter", "wait", "asleep", "stopped"}
    /\ pc \in [Handler -> {"idle", "test", "joinOld", "lock", "assign", "notify",
                           "join", "check"}]
    /\ crash \in {"no", "Connect", "terminate", "Disconnect", "SendMessage"}

(* The flags stay Boolean.                                                 *)
LEMMA FlagsStep ==
    ASSUME Flags, [Next]_vars PROVE Flags'
<1>1. CASE Reconnect
  BY <1>1, Zenon DEF Flags, Reconnect, server, sending
<1>2. CASE JoinDisconnecter
  BY <1>2, Zenon DEF Flags, JoinDisconnecter, server, sending
<1>3. CASE EnterRoom
  BY <1>3, Zenon DEF Flags, EnterRoom, sending, Empty
<1>4. CASE Joined
  BY <1>4, Zenon DEF Flags, Joined, server
<1>5. ASSUME NEW success \in BOOLEAN, XmppConnect(success) PROVE Flags'
  BY <1>5, Zenon DEF Flags, XmppConnect
<1>6. CASE LeaveRoom
  BY <1>6, Zenon DEF Flags, LeaveRoom, sending
<1>7. CASE XmppDisconnect
  BY <1>7, Zenon DEF Flags, XmppDisconnect, sending
<1>8. CASE ResetRoom
  BY <1>8, Zenon DEF Flags, ResetRoom, server, sending
<1>9. CASE FinishWorker
  BY <1>9, Zenon DEF Flags, FinishWorker, server, sending
<1>10. ASSUME NEW t \in Handler, TestDisconnecting(t) PROVE Flags'
  BY <1>10, Zenon DEF Flags, TestDisconnecting, Return, server, sending
<1>11. ASSUME NEW t \in Handler, JoinOld(t) PROVE Flags'
  BY <1>11, Zenon DEF Flags, JoinOld, server, sending
<1>12. ASSUME NEW t \in Handler, StartWorker(t) PROVE Flags'
  BY <1>12, Zenon DEF Flags, StartWorker, server, sending, Empty
<1>13. ASSUME NEW t \in Handler, AssignDisconnecter(t) PROVE Flags'
  BY <1>13, Zenon DEF Flags, AssignDisconnecter, Return, server, sending
<1>14. CASE NotifyJoin
  BY <1>14, Zenon DEF Flags, NotifyJoin, server, sending
<1>15. CASE Stop
  BY <1>15, Zenon DEF Flags, Stop, server, sending
<1>16. CASE Disconnect
  BY <1>16, Zenon DEF Flags, Disconnect, server, sending
<1>17. CASE Disconnected
  BY <1>17, Zenon DEF Flags, Disconnected, server, sending
<1>18. CASE SelfPresence
  BY <1>18, Zenon DEF Flags, SelfPresence, sending
<1>19. ASSUME NEW s \in {"out", session}, Removed(s) PROVE Flags'
  BY <1>19, Zenon DEF Flags, Removed, sending
<1>20. CASE Participants
  <2>1. ASSUME NEW occ, NEW jids, NEW heard \in BOOLEAN, Presence(occ, jids, heard)
        PROVE  Flags'
    BY <2>1, Zenon DEF Flags, Presence
  <2>2. ASSUME NEW n \in Nick, NEW p \in Peer, Available(n, p) PROVE Flags'
    BY <2>2, <2>1, Zenon DEF Available
  <2>3. ASSUME NEW n \in Nick, Unavailable(n) PROVE Flags'
    <3>1. (occupants[n] \notin Hidden /\ rc # "stopped") \in BOOLEAN
      BY Zenon
    <3> QED BY <2>3, <3>1, <2>1, Zenon DEF Unavailable
  <2>4. ASSUME NEW n \in Nick, RoomMessage(n) PROVE Flags'
    BY <2>4, Zenon DEF Flags, RoomMessage, server
  <2>5. ASSUME NEW n \in Nick, NEW m \in Nick, NickChanged(n, m) PROVE Flags'
    BY <2>5, <2>1, Zenon DEF NickChanged
  <2> QED BY <1>20, <2>2, <2>3, <2>4, <2>5 DEF Participants
<1>21. CASE Sends
    BY <1>21, Zenon DEF Flags, Sends, UpdateOrders, PublishMessage, TakeOrder,
     HandlePrivate,
     SendProcessingMessage, SendMessage, server
<1>22. CASE ConnectionLost
  BY <1>22, Zenon DEF Flags, ConnectionLost, sending
<1>23. CASE UNCHANGED vars
  BY <1>23, Zenon DEF Flags, vars, server, sending
<1> QED BY <1>1, <1>2, <1>3, <1>4, <1>5, <1>6, <1>7, <1>8, <1>9, <1>10, <1>11, <1>12,
           <1>13, <1>14, <1>15, <1>16, <1>17, <1>18, <1>19, <1>20, <1>21, <1>22,
           <1>23, StepCases

(* The other variables keep their types.                                   *)
LEMMA ShapesStep ==
    ASSUME Shapes, [Next]_vars PROVE Shapes'
<1>1. CASE Reconnect
  BY <1>1 DEF Shapes, Reconnect, server, sending
<1>2. CASE JoinDisconnecter
  BY <1>2 DEF Shapes, JoinDisconnecter, server, sending
<1>3. CASE EnterRoom
  BY <1>3 DEF Shapes, EnterRoom, sending, Empty
<1>4. CASE Joined
  BY <1>4 DEF Shapes, Joined, server
<1>5. ASSUME NEW success \in BOOLEAN, XmppConnect(success) PROVE Shapes'
  BY <1>5 DEF Shapes, XmppConnect
<1>6. CASE LeaveRoom
  BY <1>6 DEF Shapes, LeaveRoom, sending
<1>7. CASE XmppDisconnect
  BY <1>7 DEF Shapes, XmppDisconnect, sending
<1>8. CASE ResetRoom
  BY <1>8 DEF Shapes, ResetRoom, server, sending
<1>9. CASE FinishWorker
  BY <1>9 DEF Shapes, FinishWorker, server, sending
<1>10. ASSUME NEW t \in Handler, TestDisconnecting(t) PROVE Shapes'
  BY <1>10 DEF Shapes, TestDisconnecting, Return, server, sending
<1>11. ASSUME NEW t \in Handler, JoinOld(t) PROVE Shapes'
  BY <1>11 DEF Shapes, JoinOld, server, sending
<1>12. ASSUME NEW t \in Handler, StartWorker(t) PROVE Shapes'
  BY <1>12 DEF Shapes, StartWorker, server, sending, Empty
<1>13. ASSUME NEW t \in Handler, AssignDisconnecter(t) PROVE Shapes'
  BY <1>13 DEF Shapes, AssignDisconnecter, Return, server, sending
<1>14. CASE NotifyJoin
  BY <1>14 DEF Shapes, NotifyJoin, server, sending
<1>15. CASE Stop
  BY <1>15 DEF Shapes, Stop, server, sending
<1>16. CASE Disconnect
  BY <1>16 DEF Shapes, Disconnect, server, sending
<1>17. CASE Disconnected
  BY <1>17 DEF Shapes, Disconnected, server, sending
<1>18. CASE SelfPresence
  BY <1>18 DEF Shapes, SelfPresence, sending
<1>19. ASSUME NEW s \in {"out", session}, Removed(s) PROVE Shapes'
  BY <1>19 DEF Shapes, Removed, sending
<1>20. CASE Participants
  BY <1>20 DEF Shapes, Participants, Available, Unavailable, NickChanged, RoomMessage,
     Presence, ChangeNick, server
<1>21. CASE Sends
  BY <1>21 DEF Shapes, Sends, UpdateOrders, PublishMessage, TakeOrder, HandlePrivate,
     SendProcessingMessage, SendMessage, server
<1>22. CASE ConnectionLost
  BY <1>22 DEF Shapes, ConnectionLost, sending
<1>23. CASE UNCHANGED vars
  BY <1>23 DEF Shapes, vars, server, sending
<1> QED BY <1>1, <1>2, <1>3, <1>4, <1>5, <1>6, <1>7, <1>8, <1>9, <1>10, <1>11, <1>12,
           <1>13, <1>14, <1>15, <1>16, <1>17, <1>18, <1>19, <1>20, <1>21, <1>22,
           <1>23, StepCases

-----------------------------------------------------------------------------
(* Clean disconnects                                                       *)

(* What holds as long as the environment is regular.                       *)
Threads ==
    /\ pc["recv"] \in {"idle", "test", "joinOld", "lock", "assign", "notify"}
    /\ pc["main"] \in {"idle", "test", "joinOld", "lock", "assign", "join", "check"}
    /\ pc["main"] # "idle" => rc = "stopped"
    /\ rc = "stopped" => pc["recv"] = "idle"
    /\ pc["recv"] # "idle" => conn /\ room

NoWorker ==
    worker = "none" =>
        /\ ~joinable
        /\ rc # "join" => ~disconnecting
        /\ conn => (room \/ rc = "enter")
        /\ rc = "enter" => conn /\ ~room
        /\ room => conn
        /\ \A t \in Handler : pc[t] # "assign"

Working ==
    worker # "none" =>
        /\ rc \notin {"connect", "enter"}
        /\ joinable <=> \A t \in Handler : pc[t] # "assign"
        /\ worker \in {"leave", "disconnect", "reset", "finish"} <=> disconnecting
        /\ worker \in {"reset", "finish", "done"} => ~conn
        /\ worker \in {"finish", "done"} => ~room
        /\ \A t \in Handler : pc[t] # "lock"

Callers ==
    /\ \A t \in Handler : pc[t] \in {"joinOld", "lock"} => ~disconnecting
    /\ pc["main"] = "join" => worker # "none"
    /\ pc["main"] = "check" => worker = "none" /\ ~conn /\ ~room
    /\ worker = "none" /\ rc \in {"join", "connect"} => ~conn

Clean == Threads /\ NoWorker /\ Working /\ Callers

CleanInv ==
    /\ CleanDisconnect
    /\ regular /\ Running => Clean

(* A step within a regular environment keeps it clean.                     *)
LEMMA CleanStep ==
    ASSUME Flags, Shapes, Clean, Running, regular', [Next]_vars
    PROVE  Clean' /\ crash' \in {"no", "SendMessage"}
<1> DEFINE Goal == Clean' /\ crash' \in {"no", "SendMessage"}
<1> USE DEF Handler, Running
<1>a. UNCHANGED <<conn, room, disconnecting, joinable, worker, rc, pc>> => Clean'
  BY DEF Clean, Threads, NoWorker, Working, Callers
<1>1. CASE Reconnect
    BY <1>1 DEF Flags, Shapes, Clean, Threads, NoWorker, Working, Callers, Reconnect,
     IsConnected, server, sending
<1>2. CASE JoinDisconnecter
    BY <1>2 DEF Flags, Shapes, Clean, Threads, NoWorker, Working, Callers,
     JoinDisconnecter, server, sending
<1>3. CASE EnterRoom
    BY <1>3 DEF Flags, Shapes, Clean, Threads, NoWorker, Working, Callers, EnterRoom,
     Unlocked, sending
<1>4. CASE Joined
  BY <1>4 DEF Flags, Shapes, Clean, Threads, NoWorker, Working, Callers, Joined, server
<1>5. ASSUME NEW success \in BOOLEAN, XmppConnect(success) PROVE Goal
  BY <1>5 DEF Flags, Shapes, Clean, Threads, NoWorker, Working, Callers, XmppConnect
<1>6. CASE LeaveRoom
    BY <1>6 DEF Flags, Shapes, Clean, Threads, NoWorker, Working, Callers, LeaveRoom,
     sending
<1>7. CASE XmppDisconnect
    BY <1>7 DEF Flags, Shapes, Clean, Threads, NoWorker, Working, Callers,
     XmppDisconnect, sending
<1>8. CASE ResetRoom
    BY <1>8 DEF Flags, Shapes, Clean, Threads, NoWorker, Working, Callers, ResetRoom,
     server, sending
<1>9. CASE FinishWorker
    BY <1>9 DEF Flags, Shapes, Clean, Threads, NoWorker, Working, Callers, FinishWorker,
     server, sending
<1>10. ASSUME NEW t \in Handler, TestDisconnecting(t) PROVE Goal
    BY <1>10 DEF Flags, Shapes, Clean, Threads, NoWorker, Working, Callers,
     TestDisconnecting, Return, server, sending
<1>11. ASSUME NEW t \in Handler, JoinOld(t) PROVE Goal
    BY <1>11 DEF Flags, Shapes, Clean, Threads, NoWorker, Working, Callers, JoinOld,
     server, sending
<1>12. ASSUME NEW t \in Handler, StartWorker(t) PROVE Goal
    BY <1>12 DEF Flags, Shapes, Clean, Threads, NoWorker, Working, Callers, StartWorker,
     Unlocked, server, sending
<1>13. ASSUME NEW t \in Handler, AssignDisconnecter(t) PROVE Goal
    BY <1>13 DEF Flags, Shapes, Clean, Threads, NoWorker, Working, Callers,
     AssignDisconnecter, Return, server, sending
<1>14. CASE NotifyJoin
    BY <1>14 DEF Flags, Shapes, Clean, Threads, NoWorker, Working, Callers, NotifyJoin,
     server, sending
<1>15. CASE Stop
    BY <1>15 DEF Flags, Shapes, Clean, Threads, NoWorker, Working, Callers, Stop,
     server, sending
<1>16. CASE Disconnect
    BY <1>16 DEF Flags, Shapes, Clean, Threads, NoWorker, Working, Callers, Disconnect,
     server, sending
<1>17. CASE Disconnected
    BY <1>17 DEF Flags, Shapes, Clean, Threads, NoWorker, Working, Callers,
     Disconnected, server, sending
<1>18. CASE SelfPresence
    BY <1>18 DEF Flags, Shapes, Clean, Threads, NoWorker, Working, Callers,
     SelfPresence, sending
<1>19. ASSUME NEW s \in {"out", session}, Removed(s) PROVE Goal
    BY <1>19 DEF Flags, Shapes, Clean, Threads, NoWorker, Working, Callers, Removed,
     InRoom, Receiving, sending
<1>20. CASE Participants
  <2>1. UNCHANGED <<conn, room, disconnecting, joinable, worker, rc, pc, crash>>
    BY <1>20 DEF Participants, Available, Unavailable, NickChanged, RoomMessage, Presence, server
  <2> QED BY <2>1, <1>a
<1>21. CASE Sends
  <2>1. UNCHANGED <<conn, room, disconnecting, joinable, worker, rc, pc>>
    BY <1>21 DEF Sends, UpdateOrders, PublishMessage, TakeOrder, HandlePrivate,
       SendProcessingMessage, SendMessage, server
  <2>2. crash' \in {crash, "SendMessage"}
    BY <1>21 DEF Sends, UpdateOrders, PublishMessage, TakeOrder, HandlePrivate,
       SendProcessingMessage, SendMessage, server
  <2> QED BY <2>1, <2>2, <1>a
<1>22. CASE ConnectionLost
    BY <1>22 DEF Flags, Shapes, Clean, Threads, NoWorker, Working, Callers,
     ConnectionLost, sending
<1>23. CASE UNCHANGED vars
    BY <1>23 DEF Flags, Shapes, Clean, Threads, NoWorker, Working, Callers, vars,
     server, sending
<1> QED BY <1>1, <1>2, <1>3, <1>4, <1>5, <1>6, <1>7, <1>8, <1>9, <1>10, <1>11, <1>12,
           <1>13, <1>14, <1>15, <1>16, <1>17, <1>18, <1>19, <1>20, <1>21, <1>22,
           <1>23, StepCases

(* Nothing happens any more after an abort.                                *)
LEMMA AbortedStops ==
    ASSUME ~Running, [Next]_vars PROVE UNCHANGED <<crash, regular>>
BY StepCases DEF Running, vars, server, sending, Handler, Reconnect, JoinDisconnecter,
   EnterRoom, Joined, XmppConnect, LeaveRoom, XmppDisconnect, ResetRoom, FinishWorker,
   TestDisconnecting, JoinOld, StartWorker, AssignDisconnecter, NotifyJoin, Stop,
   Disconnect, Disconnected, SelfPresence, InRoom, Receiving, Removed, Participants,
   Available, Unavailable, RoomMessage, NickChanged, Presence, Sends, UpdateOrders,
   PublishMessage, TakeOrder, HandlePrivate, ConnectionLost

(* What is not regular any more stays so.                                  *)
LEMMA RegularBefore ==
    ASSUME regular', [Next]_vars PROVE regular
BY StepCases DEF vars, server, sending, Handler, Reconnect, JoinDisconnecter,
   EnterRoom, Joined, XmppConnect, LeaveRoom, XmppDisconnect, ResetRoom, FinishWorker,
   TestDisconnecting, JoinOld, StartWorker, AssignDisconnecter, NotifyJoin, Stop,
   Disconnect, Disconnected, SelfPresence, Removed, Participants,
   Available, Unavailable, RoomMessage, NickChanged, Presence, Sends, UpdateOrders,
   PublishMessage, TakeOrder, HandlePrivate, SendProcessingMessage, SendMessage, ConnectionLost

(* The type invariant holds: no handler leaves a flag or a table of the    *)
(* client in a state it does not know.                                     *)
THEOREM TypeCorrect == Spec => []TypeOK
<1>1. Init => Flags
  BY Zenon DEF Init, Flags
<1>2. Init => Shapes
  BY DEF Init, Shapes, Empty
<1>3. Flags /\ Shapes /\ [Next]_vars => (Flags /\ Shapes)'
  BY FlagsStep, ShapesStep
<1>4. Flags /\ Shapes => TypeOK
  BY Zenon DEF Flags, Shapes, TypeOK
<1> QED BY <1>1, <1>2, <1>3, <1>4, PTL DEF Spec

(* However kicks, errors, reconnects and the shutdown interleave, and for  *)
(* any set of participants: Connect never finds a room that is left over   *)
(* ("Did not fully disconnect previously"), Disconnect finds all closed,   *)
(* and a disconnecter is not overwritten while it runs, as long as no      *)
(* connection breaks without notice and no reconnect or shutdown hits the  *)
(* start of a disconnect.                                                  *)
THEOREM DisconnectsAreClean == Spec => []CleanDisconnect
<1> DEFINE IInv == Flags /\ Shapes /\ CleanInv
<1>1. Init => IInv
  <2>1. Init => Flags
    BY Zenon DEF Init, Flags
  <2>2. Init => Shapes
    BY DEF Init, Shapes, Empty
  <2>3. Init => CleanInv
    BY DEF Init, CleanInv, CleanDisconnect, Running, Clean, Threads, NoWorker, Working,
       Callers, Handler
  <2> QED BY <2>1, <2>2, <2>3
<1>2. IInv /\ [Next]_vars => IInv'
  <2> SUFFICES ASSUME IInv, [Next]_vars PROVE CleanInv'
    BY FlagsStep, ShapesStep
  <2>1. CASE ~regular'
    BY <2>1 DEF CleanInv, CleanDisconnect
  <2>2. CASE regular' /\ ~Running
    <3>1. UNCHANGED <<crash, regular>>
      BY <2>2, AbortedStops
    <3> QED BY <2>2, <3>1 DEF CleanInv, CleanDisconnect, Running
  <2>3. CASE regular' /\ Running
    <3>1. Clean
      BY <2>3, RegularBefore DEF CleanInv
    <3>2. Clean' /\ crash' \in {"no", "SendMessage"}
      BY <2>3, <3>1, CleanStep
    <3> QED BY <3>2 DEF CleanInv, CleanDisconnect
  <2> QED BY <2>1, <2>2, <2>3
<1>3. IInv => CleanDisconnect
  BY DEF CleanInv
<1> QED BY <1>1, <1>2, <1>3, PTL DEF Spec

-----------------------------------------------------------------------------
(* Who has sent a message                                                  *)

(* A nick resolves to its holder or to nobody.  The nick of someone with a *)
(* hidden JID resolves to nobody: it has no entry left of somebody else.   *)
Resolved ==
    /\ \A n \in Nick : nickToJid[n] \in {None, occupants[n]} \ Hidden
    /\ mixup = FALSE

(* The table of nicks follows the participants.                            *)
LEMMA ResolvedStep ==
    ASSUME Shapes, Resolved, [Next]_vars PROVE Resolved'
<1> USE MucAssumption
<1>a. UNCHANGED <<occupants, nickToJid, mixup>> => Resolved'
  BY DEF Resolved
<1>b. nickToJid' = Empty /\ mixup' = mixup => Resolved'
  BY DEF Resolved, Empty
<1>1. ASSUME NEW n \in Nick, NEW p \in Peer, Available(n, p) PROVE Resolved'
  BY <1>1 DEF Available, Presence, Resolved, Shapes
<1>2. ASSUME NEW n \in Nick, Unavailable(n) PROVE Resolved'
  BY <1>2 DEF Unavailable, Presence, Resolved, Shapes
<1>3. ASSUME NEW n \in Nick, NEW m \in Nick, NickChanged(n, m) PROVE Resolved'
  BY <1>3 DEF NickChanged, ChangeNick, Presence, Resolved, Shapes
<1>4. ASSUME NEW n \in Nick, RoomMessage(n) PROVE Resolved'
  <2>1. nickToJid[n] \in {None, occupants[n]}
    BY DEF Resolved
  <2>2. UNCHANGED <<occupants, nickToJid>>
    BY <1>4 DEF RoomMessage, server
  <2>3. mixup' = FALSE
    BY <1>4, <2>1, Zenon DEF RoomMessage, ResolveNickname, Resolved
  <2> QED BY <2>2, <2>3 DEF Resolved
<1>5. CASE EnterRoom
  BY <1>5, <1>b DEF EnterRoom
<1>6. ASSUME NEW t \in Handler, StartWorker(t) PROVE Resolved'
  BY <1>6, <1>b DEF StartWorker
<1>7. ASSUME NEW t \in Handler, TestDisconnecting(t) \/ JoinOld(t) \/ AssignDisconnecter(t)
      PROVE  Resolved'
  BY <1>7, <1>a DEF TestDisconnecting, JoinOld, AssignDisconnecter, server
<1>8. CASE Reconnect \/ JoinDisconnecter \/ Joined \/ \E success \in BOOLEAN : XmppConnect(success)
  BY <1>8, <1>a DEF Reconnect, JoinDisconnecter, Joined, XmppConnect, server
<1>9. CASE LeaveRoom \/ XmppDisconnect \/ ResetRoom \/ FinishWorker
  BY <1>9, <1>a DEF LeaveRoom, XmppDisconnect, ResetRoom, FinishWorker, server
<1>10. CASE NotifyJoin \/ Stop \/ Disconnect \/ Disconnected
  BY <1>10, <1>a DEF NotifyJoin, Stop, Disconnect, Disconnected, server
<1>11. CASE SelfPresence \/ (\E s \in {"out", session} : Removed(s)) \/ ConnectionLost
  BY <1>11, <1>a DEF SelfPresence, Removed, ConnectionLost
<1>12. CASE Sends
  BY <1>12, <1>a DEF Sends, UpdateOrders, PublishMessage, TakeOrder, HandlePrivate,
     SendProcessingMessage, SendMessage, server
<1>13. CASE UNCHANGED vars
  BY <1>13, <1>a DEF vars, server
<1> QED BY <1>1, <1>2, <1>3, <1>4, <1>5, <1>6, <1>7, <1>8, <1>9, <1>10, <1>11, <1>12,
           <1>13, StepCases DEF Participants

(* In any environment, and for any set of participants with visible and    *)
(* hidden JIDs: a message in the room is attributed to the one who holds   *)
(* the nick, or to nobody.                                                 *)
THEOREM SendersAreRight == Spec => []RightSender
<1>1. Init => Shapes /\ Resolved
  BY MucAssumption DEF Init, Shapes, Resolved, Empty
<1>2. Shapes /\ Resolved /\ [Next]_vars => (Shapes /\ Resolved)'
  BY ShapesStep, ResolvedStep
<1>3. Resolved => RightSender
  BY DEF Resolved, RightSender
<1> QED BY <1>1, <1>2, <1>3, PTL DEF Spec

=============================================================================
