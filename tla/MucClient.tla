----------------------------- MODULE MucClient -----------------------------
(***************************************************************************)
(* MucClient (src/src/mucclient.cpp) keeps the daemon in the chat room on  *)
(* which the orders are broadcast, and maps the nicks there to JIDs.  Its  *)
(* state is shared by these threads:                                       *)
(*                                                                         *)
(*   - the one that calls Connect: Daemon::Connect at first, and then the  *)
(*     IntervalJob reconnecter (src/src/daemon.cpp, intervaljob.cpp);      *)
(*   - "recv", the receive loop of XmppClient, which runs the handlers;    *)
(*   - "main", which destroys the daemon in the end;                       *)
(*   - the worker that DisconnectAsync starts;                             *)
(*   - threads that send: the order refresher and the RPC server.          *)
(*                                                                         *)
(* XmppClient (Charon) and the XMPP server are external.                   *)
(***************************************************************************)
CONSTANTS
    Nick,        \* nicks in the room
    Peer,        \* full JIDs of other participants
    Hidden,      \* those whose JID the server does not show to us
    None         \* no JID

ASSUME MucAssumption == Hidden \subseteq Peer /\ None \notin Peer

VARIABLES
    conn,           \* XmppClient::IsConnected
    session,        \* our status in the room on the server
    occupants,      \* who has which nick, as of the stanza processed last
    room,           \* whether room is not null
    disconnecting, joining,
    nickToJid,
    worker,         \* what the disconnecting thread does next
    joinable,       \* whether disconnecter is that thread
    rc,             \* what the connecting thread does next
    pc,             \* what "recv" and "main" do next
    serving,        \* whether the RPC server has been started
    known,          \* whether the Authenticator knows the JID of a trader
    publishing,     \* UpdateOrders has tested IsConnected
    crash,          \* why the process has been aborted, if it has
    mixup,          \* whether a message was attributed to a wrong JID
    regular         \* FALSE once the unlikely has happened (see Properties)

server == <<conn, session, occupants>>
sending == <<serving, known, publishing>>
vars == <<server, room, disconnecting, joining, nickToJid, worker, joinable,
          rc, pc, sending, crash, mixup, regular>>

Handler == {"recv", "main"}

IsConnected == ~disconnecting /\ conn
Running == crash = "no"

(* The mutex is held across steps only within DisconnectAsync.             *)
Unlocked == \A t \in Handler : pc[t] # "assign"

Empty == [n \in Nick |-> None]

-----------------------------------------------------------------------------
(* Connect *)

(* The reconnecter wakes up and finds that we are not connected.           *)
Reconnect ==
    /\ Running /\ rc = "asleep" /\ ~IsConnected
    /\ rc' = "join"
    /\ UNCHANGED <<server, room, disconnecting, joining, nickToJid, worker,
                   joinable, pc, sending, crash, mixup, regular>>

(* The disconnecter is not waited for.                                     *)
JoinDisconnecterDetach ==
    /\ Running /\ rc = "join"
    /\ joinable' = FALSE
    /\ disconnecting' = FALSE
    /\ rc' = "connect"
    /\ regular' = (regular /\ (worker # "none" => joinable))
    /\ UNCHANGED <<server, room, joining, nickToJid, worker, pc, sending, crash,
                   mixup>>

(* Clean up a disconnecter that is left over.  It is not regular for that  *)
(* to happen after a worker was started, but before it is in disconnecter. *)
JoinDisconnecter ==
    /\ Running /\ rc = "join"
    /\ joinable => worker = "done"
    /\ worker' = IF joinable THEN "none" ELSE worker
    /\ joinable' = FALSE
    /\ disconnecting' = FALSE
    /\ rc' = "connect"
    /\ regular' = (regular /\ (worker # "none" => joinable))
    /\ UNCHANGED <<server, room, joining, nickToJid, pc, sending, crash,
                   mixup>>

(* XmppClient::Connect; in Connect, everything else follows with the lock. *)
XmppConnect(success) ==
    /\ Running /\ rc = "connect"
    /\ conn' = (conn \/ success)
    /\ rc' = IF success THEN "enter" ELSE "asleep"
    /\ serving' = (serving \/ ~success)
    /\ UNCHANGED <<session, occupants, room, disconnecting, joining, nickToJid,
                   worker, joinable, pc, known, publishing, crash, mixup,
                   regular>>

EnterRoom ==
    /\ Running /\ rc = "enter" /\ Unlocked
    /\ nickToJid' = Empty
    /\ \/ /\ room
          /\ crash' = "Connect"
          /\ UNCHANGED <<session, occupants, room, joining, rc>>
       \/ /\ ~room
          /\ room' = TRUE
          /\ joining' = TRUE
          /\ session' = IF conn THEN "joining" ELSE "out"
          /\ occupants' = Empty
          /\ rc' = "wait"
          /\ UNCHANGED crash
    /\ UNCHANGED <<conn, disconnecting, worker, joinable, pc, sending, mixup,
                   regular>>

(* The wait on cvJoin ends.                                                *)
Joined ==
    /\ Running /\ rc = "wait" /\ ~joining /\ Unlocked
    /\ rc' = "asleep"
    /\ serving' = TRUE
    /\ UNCHANGED <<server, room, disconnecting, joining, nickToJid, worker,
                   joinable, pc, known, publishing, crash, mixup, regular>>

-----------------------------------------------------------------------------
(* DisconnectAsync, called by t.  A handler goes on to notify the thread   *)
(* that waits in Connect, and Disconnect to join the worker.               *)

Return(t) == IF t = "recv" THEN "notify" ELSE "join"

TestDisconnecting(t) ==
    /\ Running /\ pc[t] = "test"
    /\ pc' = [pc EXCEPT ![t] = IF disconnecting THEN Return(t) ELSE "joinOld"]
    /\ UNCHANGED <<server, room, disconnecting, joining, nickToJid, worker,
                   joinable, rc, sending, crash, mixup, regular>>

JoinOld(t) ==
    /\ Running /\ pc[t] = "joinOld"
    /\ joinable => worker = "done"
    /\ worker' = IF joinable THEN "none" ELSE worker
    /\ joinable' = FALSE
    /\ pc' = [pc EXCEPT ![t] = "lock"]
    /\ UNCHANGED <<server, room, disconnecting, joining, nickToJid, rc,
                   sending, crash, mixup, regular>>

(* A thread object that is joinable must not be assigned to.               *)
StartWorker(t) ==
    /\ Running /\ pc[t] = "lock" /\ Unlocked
    /\ nickToJid' = Empty
    /\ disconnecting' = TRUE
    /\ \/ /\ joinable
          /\ crash' = "terminate"
          /\ UNCHANGED <<worker, pc>>
       \/ /\ ~joinable
          /\ worker' = "leave"
          /\ pc' = [pc EXCEPT ![t] = "assign"]
          /\ UNCHANGED crash
    /\ UNCHANGED <<server, room, joining, joinable, rc, sending, mixup,
                   regular>>

AssignDisconnecter(t) ==
    /\ Running /\ pc[t] = "assign"
    /\ joinable' = TRUE
    /\ pc' = [pc EXCEPT ![t] = Return(t)]
    /\ UNCHANGED <<server, room, disconnecting, joining, nickToJid, worker,
                   rc, sending, crash, mixup, regular>>

DisconnectAsync(t) ==
    \/ TestDisconnecting(t) \/ JoinOld(t)
    \/ StartWorker(t) \/ AssignDisconnecter(t)

(* The worker.  XmppClient::Disconnect waits for a handler to return.      *)
LeaveRoom ==
    /\ Running /\ worker = "leave"
    /\ session' = IF room THEN "out" ELSE session
    /\ worker' = "disconnect"
    /\ UNCHANGED <<conn, occupants, room, disconnecting, joining, nickToJid,
                   joinable, rc, pc, sending, crash, mixup, regular>>

XmppDisconnect ==
    /\ Running /\ worker = "disconnect" /\ pc["recv"] = "idle"
    /\ conn' = FALSE
    /\ session' = "out"
    /\ worker' = "reset"
    /\ UNCHANGED <<occupants, room, disconnecting, joining, nickToJid,
                   joinable, rc, pc, sending, crash, mixup, regular>>

ResetRoom ==
    /\ Running /\ worker = "reset"
    /\ room' = FALSE
    /\ worker' = "finish"
    /\ UNCHANGED <<server, disconnecting, joining, nickToJid, joinable, rc, pc,
                   sending, crash, mixup, regular>>

FinishWorker ==
    /\ Running /\ worker = "finish"
    /\ disconnecting' = FALSE
    /\ worker' = "done"
    /\ UNCHANGED <<server, room, joining, nickToJid, joinable, rc, pc,
                   sending, crash, mixup, regular>>

Worker == LeaveRoom \/ XmppDisconnect \/ ResetRoom \/ FinishWorker

-----------------------------------------------------------------------------
(* The end of the daemon: the reconnecter is stopped, which is possible    *)
(* while it sleeps, and ~MucClient calls Disconnect.  A handler that calls *)
(* DisconnectAsync at the same time is not regular.                        *)
Stop ==
    /\ Running /\ rc = "asleep"
    /\ rc' = "stopped"
    /\ pc' = [pc EXCEPT !["main"] = "test"]
    /\ regular' = (regular /\ pc["recv"] = "idle")
    /\ UNCHANGED <<server, room, disconnecting, joining, nickToJid, worker,
                   joinable, sending, crash, mixup>>

Disconnect ==
    /\ Running /\ pc["main"] = "join"
    /\ joinable => worker = "done"
    /\ worker' = IF joinable THEN "none" ELSE worker
    /\ joinable' = FALSE
    /\ pc' = [pc EXCEPT !["main"] = "check"]
    /\ UNCHANGED <<server, room, disconnecting, joining, nickToJid, rc,
                   sending, crash, mixup, regular>>

Disconnected ==
    /\ Running /\ pc["main"] = "check" /\ Unlocked
    /\ crash' = IF disconnecting \/ room \/ conn THEN "Disconnect" ELSE crash
    /\ pc' = [pc EXCEPT !["main"] = "idle"]
    /\ UNCHANGED <<server, room, disconnecting, joining, nickToJid, worker,
                   joinable, rc, sending, mixup, regular>>

-----------------------------------------------------------------------------
(* The handlers.  They run one at a time, in the order of the stream.      *)

Receiving == Running /\ conn /\ pc["recv"] = "idle"
InRoom == Receiving /\ session # "out" /\ room

(* We are kicked from the room (our own presence is unavailable), or there *)
(* is an error, after which we may still be in the room.                   *)
Removed(s) ==
    /\ InRoom
    /\ session' = s
    /\ pc' = [pc EXCEPT !["recv"] = "test"]
    /\ regular' = (regular /\ rc # "stopped")
    /\ UNCHANGED <<conn, occupants, room, disconnecting, joining, nickToJid,
                   worker, joinable, rc, sending, crash, mixup>>

(* Nobody is told that the room cannot be joined.                          *)
NotifyJoinNever ==
    /\ Running /\ pc["recv"] = "notify"
    /\ pc' = [pc EXCEPT !["recv"] = "idle"]
    /\ UNCHANGED <<server, room, disconnecting, joining, nickToJid, worker,
                   joinable, rc, sending, crash, mixup, regular>>

NotifyJoin ==
    /\ Running /\ pc["recv"] = "notify" /\ Unlocked
    /\ joining' = FALSE
    /\ pc' = [pc EXCEPT !["recv"] = "idle"]
    /\ UNCHANGED <<server, room, disconnecting, nickToJid, worker, joinable,
                   rc, sending, crash, mixup, regular>>

(* Our own presence: we are in the room now.                               *)
SelfPresence ==
    /\ InRoom /\ session = "joining" /\ Unlocked
    /\ session' = "in"
    /\ joining' = FALSE
    /\ UNCHANGED <<conn, occupants, room, disconnecting, nickToJid, worker,
                   joinable, rc, pc, sending, crash, mixup, regular>>

(* The presence of a participant that has the nick n from now on, leaves,  *)
(* or changes the nick from n to m.                                        *)
Presence(occ, jids, heard) ==
    /\ InRoom /\ Unlocked
    /\ occupants' = occ
    /\ nickToJid' = jids
    /\ known' = (known \/ heard)
    /\ UNCHANGED <<conn, session, room, disconnecting, joining, worker, joinable,
                   rc, pc, serving, publishing, crash, mixup, regular>>

Available(n, p) ==
    /\ occupants[n] = None
    /\ Presence([occupants EXCEPT ![n] = p],
                IF p \in Hidden THEN nickToJid ELSE [nickToJid EXCEPT ![n] = p],
                FALSE)

(* HandleDisconnect authenticates the JID, too, to remove its orders.      *)
Unavailable(n) ==
    /\ occupants[n] # None
    /\ Presence([occupants EXCEPT ![n] = None], [nickToJid EXCEPT ![n] = None],
                occupants[n] \notin Hidden /\ rc # "stopped")

ChangeNickKeep(n, m, p) == [nickToJid EXCEPT ![m] = p]
ChangeNickToNick(n, m, p) == [nickToJid EXCEPT ![n] = None, ![m] = m]
ChangeNick(n, m, p) == [nickToJid EXCEPT ![n] = None, ![m] = p]

NickChanged(n, m) ==
    LET p == occupants[n] IN
    /\ p # None /\ occupants[m] = None
    /\ Presence([occupants EXCEPT ![n] = None, ![m] = p],
                IF p \in Hidden THEN nickToJid ELSE ChangeNick(n, m, p),
                FALSE)

(* A message in the room is from the JID that the nick resolves to, and is *)
(* ignored if there is none, or after the daemon has been destroyed.       *)
ResolveNickname(n) == nickToJid[n]

RoomMessage(n) ==
    LET jid == ResolveNickname(n) IN
    /\ InRoom /\ rc # "stopped" /\ Unlocked
    /\ occupants[n] # None
    /\ mixup' = (mixup \/ jid \notin {None, occupants[n]})
    /\ known' = (known \/ jid # None)
    /\ UNCHANGED <<server, room, disconnecting, joining, nickToJid, worker,
                   joinable, rc, pc, serving, publishing, crash, regular>>

-----------------------------------------------------------------------------
(* Sending *)

SendMessage ==
    /\ crash' = IF IsConnected THEN crash ELSE "SendMessage"
    /\ UNCHANGED <<server, room, disconnecting, joining, nickToJid, worker,
                   joinable, rc, pc, serving, mixup, regular>>

(* UpdateOrders ignores a refresh while we are not connected ...           *)
UpdateOrders ==
    /\ Running /\ rc # "stopped" /\ ~publishing /\ IsConnected
    /\ publishing' = TRUE
    /\ UNCHANGED <<server, room, disconnecting, joining, nickToJid, worker,
                   joinable, rc, pc, serving, known, crash, mixup, regular>>

(* ... and publishes the orders.                                           *)
PublishMessage ==
    /\ Running /\ rc # "stopped" /\ publishing
    /\ publishing' = FALSE
    /\ SendMessage
    /\ UNCHANGED known

(* A message to a trader is sent only if its JID is known.                 *)
LookupJid == known'
SendProcessingMessage == LookupJid /\ SendMessage

(* Neither the RPC method takeorder nor the reply to a private message     *)
(* tests IsConnected before.                                               *)
TakeOrder ==
    /\ Running /\ serving /\ rc # "stopped"
    /\ UNCHANGED <<known, publishing>>
    /\ SendProcessingMessage

HandlePrivate ==
    /\ Receiving /\ rc # "stopped"
    /\ known' = TRUE
    /\ SendProcessingMessage
    /\ UNCHANGED publishing

-----------------------------------------------------------------------------
(* The connection breaks.  No handler of MucClient is called for that.     *)
ConnectionLost ==
    /\ Receiving
    /\ conn' = FALSE
    /\ session' = "out"
    /\ regular' = FALSE
    /\ UNCHANGED <<occupants, room, disconnecting, joining, nickToJid, worker,
                   joinable, rc, pc, sending, crash, mixup>>

(* The flags are not initialised; Daemon::Connect has been called.         *)
Init ==
    /\ conn = FALSE /\ session = "out" /\ occupants = Empty
    /\ room = FALSE
    /\ disconnecting \in BOOLEAN /\ joining \in BOOLEAN
    /\ nickToJid = Empty
    /\ worker = "none" /\ joinable = FALSE
    /\ rc = "join" /\ pc = [t \in Handler |-> "idle"]
    /\ serving = FALSE /\ known = FALSE /\ publishing = FALSE
    /\ crash = "no" /\ mixup = FALSE /\ regular = TRUE

Connect ==
    \/ Reconnect \/ JoinDisconnecter \/ EnterRoom \/ Joined
    \/ \E success \in BOOLEAN : XmppConnect(success)

Recv == DisconnectAsync("recv") \/ NotifyJoin
Main == DisconnectAsync("main") \/ Disconnect \/ Disconnected

Next ==
    \/ Connect \/ Worker \/ Recv \/ Stop \/ Main
    \/ SelfPresence
    \/ \E s \in {"out", session} : Removed(s)
    \/ \E n \in Nick, p \in Peer : Available(n, p)
    \/ \E n \in Nick : Unavailable(n) \/ RoomMessage(n)
    \/ \E n, m \in Nick : NickChanged(n, m)
    \/ UpdateOrders \/ PublishMessage \/ TakeOrder \/ HandlePrivate
    \/ ConnectionLost

Spec == Init /\ [][Next]_vars

(* All threads are scheduled.  The server accepts us, and lets us join, if *)
(* we try again and again.                                                 *)
FairSpec ==
    /\ Spec
    /\ WF_vars(Connect) /\ WF_vars(Worker) /\ WF_vars(Recv) /\ WF_vars(Main)
    /\ SF_vars(XmppConnect(TRUE)) /\ SF_vars(IsConnected /\ SelfPresence)

-----------------------------------------------------------------------------
(* Properties.  Not regular is: a connection that breaks without notice, a *)
(* reconnect or the shutdown that hits the very moment at which a handler  *)
(* starts to disconnect.                                                   *)

TypeOK ==
    /\ conn \in BOOLEAN /\ session \in {"out", "joining", "in"}
    /\ occupants \in [Nick -> Peer \cup {None}]
    /\ room \in BOOLEAN /\ disconnecting \in BOOLEAN /\ joining \in BOOLEAN
    /\ nickToJid \in [Nick -> Peer \cup {None}]
    /\ worker \in {"none", "leave", "disconnect", "reset", "finish", "done"}
    /\ joinable \in BOOLEAN
    /\ rc \in {"join", "connect", "enter", "wait", "asleep", "stopped"}
    /\ pc \in [Handler -> {"idle", "test", "joinOld", "lock", "assign", "notify",
                           "join", "check"}]
    /\ serving \in BOOLEAN /\ known \in BOOLEAN /\ publishing \in BOOLEAN
    /\ mixup \in BOOLEAN /\ regular \in BOOLEAN
    /\ crash \in {"no", "Connect", "terminate", "Disconnect", "SendMessage"}

(* However kicks, errors, reconnects and the shutdown follow each other:   *)
(* Connect finds that the previous room is gone ("Did not fully disconnect *)
(* previously"), Disconnect that all is closed, and no disconnecter is     *)
(* overwritten while it runs, as long as the environment is regular.       *)
CleanDisconnect == crash \in {"Connect", "Disconnect", "terminate"} => ~regular

(* No message is attributed to somebody else than who holds the nick,      *)
(* across changes of nicks and reconnects, and in any environment.         *)
RightSender == ~mixup

(* After having been kicked or refused, the daemon gets back into the room:*)
(* no thread waits for ever, in cvJoin or for the worker or the handler.   *)
Rejoins ==
    []<>(\/ IsConnected /\ session = "in"
         \/ rc = "stopped" \/ crash # "no" \/ ~regular)

(* Messages are sent only while connected (CHECK in SendMessage).          *)
SendsConnected == crash # "SendMessage"
=============================================================================
