------------------------------ MODULE WsClients ------------------------------
(***************************************************************************)
(* The websocket clients of the web server (components/web_server): who is *)
(* connected, which one of them is the writer, and what each browser has   *)
(* been told about its role.                                               *)
(*                                                                         *)
(* The httpd task registers, unregisters and serves the clients one after  *)
(* the other; every task that runs the state machine broadcasts to them.   *)
(* The table is guarded by clients_mutex, so each critical section is one  *)
(* action.  Role messages are sent after the mutex has been given back:    *)
(* outbox holds the one a task still has to send, and the other tasks run  *)
(* in between.                                                             *)
(*                                                                         *)
(* AnyWriterEver, AnySlot, PromoteLast and AdmitsAgain are mistaken        *)
(* versions of what follows them, to try the properties against.           *)
(*                                                                         *)
(* Data: a socket is a number the operating system uses again after it was *)
(* closed; a frame is reduced to whether its sending succeeded.            *)
(***************************************************************************)
EXTENDS Integers, FiniteSets

CONSTANTS
    MAX_WS_CLIENTS,
    Fd,             \* socket descriptors
    Httpd,          \* the server's task
    Broadcaster     \* the other tasks whose events broadcast: input and tick

Index == 0 .. MAX_WS_CLIENTS - 1
Task == Broadcaster \cup {Httpd}
NoMessage == [writer |-> FALSE]

ASSUME ClientsAssumption ==
    /\ MAX_WS_CLIENTS \in Nat \ {0}
    /\ Httpd \notin Broadcaster

VARIABLES
    clients,        \* the table
    published,      \* s_ws and g_web are set
    busy,           \* what the httpd task is in the middle of
    outbox,         \* the role message each task is about to send
    \* External: the sessions of esp_http_server and the browsers behind them.
    session,
    told            \* the role each browser was last told, as far as it arrived

vars == <<clients, published, busy, outbox, session, told>>

Client == [sockfd : Fd, is_writer : BOOLEAN, active : BOOLEAN]
Free == [is_writer |-> FALSE, active |-> FALSE]
RoleMessage == [sockfd : Fd, writer : BOOLEAN]
Idle == [doing |-> "idle"]

Table == [Index -> Client \cup {Free}]

TypeOK ==
    /\ clients \in Table
    /\ published \in BOOLEAN
    /\ busy \in [doing : {"greeting", "dispatching", "closing"}, sockfd : Fd] \cup {Idle}
    /\ outbox \in [Task -> RoleMessage \cup {NoMessage}]
    /\ session \in [Fd -> {"closed", "open"}]
    /\ told \in [Fd -> {"nothing", "writer", "visitor"}]

-------------------------------------------------------------------------------
(* Searching the table, clients_mutex held *)

Active(table) == {k \in Index : table[k].active}
Writers(table) == {k \in Active(table) : table[k].is_writer}
AnyWriterEver(table) == \E k \in Index : table[k].is_writer
AnyWriter(table) == Writers(table) # {}
find_slot(fd) == {k \in Active(clients) : clients[k].sockfd = fd}

AnySlot == Index
FreeSlots == Index \ Active(clients)

Lowest(S) == CHOOSE k \in S : \A j \in S : k <= j

PromoteLast(table) == [table EXCEPT ![MAX_WS_CLIENTS - 1].is_writer = TRUE]

(* The lowest active client becomes the writer; nobody, if there is none.   *)
Promote(table) ==
    IF Active(table) = {} THEN table
    ELSE [table EXCEPT ![Lowest(Active(table))].is_writer = TRUE]

Promotion(table) ==
    IF Active(table) = {} THEN NoMessage
    ELSE [sockfd |-> table[Lowest(Active(table))].sockfd, writer |-> TRUE]

(* An entry dropped by a broadcast keeps its is_writer. *)
Reaped(dead) ==
    [k \in Index |-> IF k \in dead THEN [clients[k] EXCEPT !.active = FALSE]
                     ELSE clients[k]]

Unregistered(gone) ==
    [k \in Index |-> IF k \in gone
                     THEN [clients[k] EXCEPT !.active = FALSE, !.is_writer = FALSE]
                     ELSE clients[k]]

-------------------------------------------------------------------------------
Init ==
    /\ clients = [k \in Index |-> Free]
    /\ published = FALSE
    /\ busy = Idle
    /\ outbox = [task \in Task |-> NoMessage]
    /\ session = [fd \in Fd |-> "closed"]
    /\ told = [fd \in Fd |-> "nothing"]

(* The end of web_server_start: the routes have been served before.         *)
Publish ==
    /\ ~published
    /\ published' = TRUE
    /\ UNCHANGED <<clients, busy, outbox, session, told>>

AdmitsAgain(fd) == FreeSlots # {}

(* A socket is not registered twice, nor into a full table. *)
Admits(fd) == find_slot(fd) = {} /\ FreeSlots # {}

(* The handshake of a new session, and register_client. *)
Register(fd) ==
    /\ busy = Idle
    /\ outbox[Httpd] = NoMessage
    /\ session[fd] = "closed"
    /\ session' = [session EXCEPT ![fd] = "open"]
    /\ LET make_writer == ~AnyWriter(clients)
           entry == [sockfd |-> fd, is_writer |-> make_writer, active |-> TRUE]
       IN  IF Admits(fd)
           THEN /\ clients' = [clients EXCEPT ![Lowest(FreeSlots)] = entry]
                /\ outbox' = [outbox EXCEPT
                      ![Httpd] = [sockfd |-> fd, writer |-> make_writer]]
                /\ busy' = [doing |-> "greeting", sockfd |-> fd]
           ELSE UNCHANGED <<clients, outbox, busy>>  \* rejected
    /\ UNCHANGED <<published, told>>

(* send_role: nothing says that the message still is true, or that the      *)
(* socket still belongs to the same browser.                                *)
SendRole(task) ==
    /\ outbox[task] # NoMessage
    /\ LET message == outbox[task]
       IN  told' = IF session[message.sockfd] = "closed" THEN told
                   ELSE [told EXCEPT ![message.sockfd] =
                            IF message.writer THEN "writer" ELSE "visitor"]
    /\ outbox' = [outbox EXCEPT ![task] = NoMessage]
    /\ UNCHANGED <<clients, published, busy, session>>

(* The role message is lost with its connection. *)
LoseRole(task) ==
    /\ outbox[task] # NoMessage
    /\ told' = [told EXCEPT ![outbox[task].sockfd] = "nothing"]
    /\ outbox' = [outbox EXCEPT ![task] = NoMessage]
    /\ UNCHANGED <<clients, published, busy, session>>

(* broadcast_text: clients to whom the sending fails are dropped, and if    *)
(* that leaves no writer, the lowest remaining client is promoted.          *)
BroadcastText(task) ==
    /\ outbox[task] = NoMessage
    /\ \E dead \in SUBSET Active(clients) :
          /\ {k \in Active(clients) : session[clients[k].sockfd] = "closed"}
                \subseteq dead
          /\ LET reaped == Reaped(dead)
             IN  IF ~AnyWriter(reaped)
                 THEN /\ clients' = Promote(reaped)
                      /\ outbox' = [outbox EXCEPT ![task] = Promotion(reaped)]
                 ELSE clients' = reaped /\ UNCHANGED outbox

(* An event of the input or the tick task. *)
BroadcastEvent(task) ==
    /\ published
    /\ BroadcastText(task)
    /\ UNCHANGED <<published, busy, session, told>>

(* No memory for the text of the frame: nothing is sent. *)
FrameNotMade(task) == outbox[task] = NoMessage /\ UNCHANGED <<clients, outbox>>

(* The state a new client is sent after its role. *)
Greet ==
    /\ busy.doing = "greeting"
    /\ BroadcastText(Httpd) \/ FrameNotMade(Httpd)
    /\ busy' = Idle
    /\ UNCHANGED <<published, session, told>>

(* ws_handler: a frame of a browser; the input of a visitor is ignored.     *)
ReceiveFrame(fd) ==
    /\ busy = Idle
    /\ outbox[Httpd] = NoMessage
    /\ session[fd] = "open"
    /\ \E k \in find_slot(fd) : clients[k].is_writer
    /\ busy' = [doing |-> "dispatching", sockfd |-> fd]
    /\ UNCHANGED <<clients, published, outbox, session, told>>

(* Its event broadcasts like any other, once per callback. *)
DispatchFrame ==
    /\ busy.doing = "dispatching"
    /\ published
    /\ BroadcastText(Httpd)
    /\ UNCHANGED <<published, busy, session, told>>

(* A POST announces the new state and configuration, from the httpd task.   *)
ConfigPosted ==
    /\ busy = Idle
    /\ published
    /\ BroadcastText(Httpd)
    /\ UNCHANGED <<published, busy, session, told>>

FrameDone ==
    /\ busy.doing = "dispatching"
    /\ outbox[Httpd] = NoMessage
    /\ busy' = Idle
    /\ UNCHANGED <<clients, published, outbox, session, told>>

(* on_session_close and unregister_client; without s_ws only the socket is  *)
(* closed.                                                                  *)
SessionClose(fd) ==
    /\ busy = Idle
    /\ outbox[Httpd] = NoMessage
    /\ session[fd] = "open"
    /\ busy' = [doing |-> "closing", sockfd |-> fd]
    /\ LET gone == IF published THEN find_slot(fd) ELSE {}
           table == Unregistered(gone)
       IN  IF \E k \in gone : clients[k].is_writer
           THEN /\ clients' = Promote(table)
                /\ outbox' = [outbox EXCEPT ![Httpd] = Promotion(table)]
           ELSE clients' = table /\ UNCHANGED outbox
    /\ UNCHANGED <<published, session, told>>

(* close(sockfd): from now on the number may be given to another browser.   *)
CloseSocket ==
    /\ busy.doing = "closing"
    /\ outbox[Httpd] = NoMessage
    /\ session' = [session EXCEPT ![busy.sockfd] = "closed"]
    /\ told' = [told EXCEPT ![busy.sockfd] = "nothing"]
    /\ busy' = Idle
    /\ UNCHANGED <<clients, published, outbox>>

Next ==
    \/ Publish
    \/ \E fd \in Fd : Register(fd)
    \/ \E fd \in Fd : ReceiveFrame(fd)
    \/ \E fd \in Fd : SessionClose(fd)
    \/ \E task \in Task : SendRole(task)
    \/ \E task \in Task : LoseRole(task)
    \/ \E task \in Broadcaster : BroadcastEvent(task)
    \/ Greet
    \/ ConfigPosted
    \/ DispatchFrame
    \/ FrameDone
    \/ CloseSocket

Spec == Init /\ [][Next]_vars

-------------------------------------------------------------------------------
(* Properties *)

(* Whenever the mutex is free there is exactly one writer among the         *)
(* clients, if there are clients: no two of them can play, and they are     *)
(* never all locked out, whoever drops, in whatever order the tasks find    *)
(* out (register_client, unregister_client, broadcast_text).                *)
ExactlyOneWriter ==
    Active(clients) # {} => \E w \in Index : Writers(clients) = {w}

(* No socket is in the table twice, even when its number was used again.    *)
NoDoubleEntry ==
    \A j, k \in Active(clients) :
        clients[j].sockfd = clients[k].sockfd => j = k

(* "First connect wins": a writer keeps its role for as long as it stays in *)
(* the table.  Nobody who connects later, and no promotion, takes it away.  *)
WriterKeepsRole ==
    [][\A k \in Writers(clients) :
          \/ k \in Writers(clients') /\ clients'[k].sockfd = clients[k].sockfd
          \/ k \notin Active(clients')]_vars

Settled == busy = Idle /\ \A task \in Task : outbox[task] = NoMessage

(* When every message has been sent, each client in the table believes to   *)
(* have the role it has.  web/index.html:398 tells a visitor: you get write *)
(* access when the current writer disconnects.                              *)
RolesAgree ==
    Settled =>
        \A k \in Active(clients) :
            LET fd == clients[k].sockfd
            IN  session[fd] = "open" /\ told[fd] # "nothing" =>
                    (told[fd] = "writer") = clients[k].is_writer
===============================================================================
