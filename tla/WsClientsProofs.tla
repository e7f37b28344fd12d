---------------------------- MODULE WsClientsProofs ----------------------------
(***************************************************************************)
(* For any number of clients, sockets and broadcasting tasks: the table of *)
(* websocket clients has exactly one writer, no socket twice, and a writer *)
(* stays the writer until it leaves.                                       *)
(*                                                                         *)
(* The lemmas of the first part say what each change of the table does to  *)
(* its active entries and its writers; the invariant of the second part is *)
(* the conjunction of the type invariant and the two properties.           *)
(***************************************************************************)
EXTENDS WsClients, WellFoundedInduction, TLAPS

USE ClientsAssumption

(* What a step makes of the table keeps the socket of every active entry.   *)
KeepsSockets(old, new) ==
    \A k \in Active(new) : k \in Active(old) /\ new[k].sockfd = old[k].sockfd

-------------------------------------------------------------------------------
(* The searches *)

(* The first index of a non-empty set is in the set. *)
LEMMA LowestIsThere ==
  ASSUME NEW S, S \subseteq Nat, S # {}
  PROVE  Lowest(S) \in S
<1> DEFINE R == OpToRel(<, Nat)
<1>1. IsWellFoundedOn(R, Nat)
  BY NatLessThanWellFounded
<1> HIDE DEF R
<1>2. PICK k \in S : \A j \in S : <<j, k>> \notin R
  BY <1>1, WFMin
<1>3. \A j \in S : ~(j < k)
  BY <1>2 DEF R, OpToRel
<1>4. \A j \in S : k <= j
  BY <1>3
<1>. QED
  BY <1>4 DEF Lowest

LEMMA ActiveIsClient ==
  ASSUME NEW table \in Table, NEW k \in Active(table)
  PROVE  k \in Index /\ table[k] \in Client
BY DEF Table, Active, Free

(* Promoting in a table without writers makes exactly one of them.          *)
LEMMA PromoteOne ==
  ASSUME NEW table \in Table, Writers(table) = {}
  PROVE  /\ Promote(table) \in Table
         /\ Active(Promote(table)) = Active(table)
         /\ KeepsSockets(table, Promote(table))
         /\ Active(table) # {} =>
               \E w \in Index : Writers(Promote(table)) = {w}
<1>1. CASE Active(table) = {}
  BY <1>1 DEF Promote, KeepsSockets
<1>2. CASE Active(table) # {}
  <2> DEFINE w == Lowest(Active(table))
             new == [table EXCEPT ![w].is_writer = TRUE]
  <2>1. w \in Active(table)
    BY <1>2, LowestIsThere DEF Active, Index
  <2>2. w \in Index /\ table[w] \in Client
    BY <2>1, ActiveIsClient
  <2>3. Promote(table) = new
    BY <1>2 DEF Promote
  <2> HIDE DEF w
  <2>4. new \in Table
    BY <2>2 DEF Table, Client
  <2>5. \A k \in Index : k # w => new[k] = table[k]
    BY DEF Table
  <2>6. /\ new[w].active = table[w].active
        /\ new[w].sockfd = table[w].sockfd
        /\ new[w].is_writer = TRUE
    BY <2>2 DEF Table, Client
  <2> HIDE DEF new
  <2>7. Active(new) = Active(table)
    BY <2>5, <2>6 DEF Active
  <2>8. Writers(new) = {w}
    <3>1. w \in Writers(new)
      BY <2>1, <2>6, <2>7 DEF Writers
    <3>2. ASSUME NEW k \in Writers(new), k # w
          PROVE  FALSE
      <4>1. k \in Active(table) /\ new[k] = table[k]
        BY <3>2, <2>5, <2>7, ActiveIsClient DEF Writers
      <4>. QED
        BY <3>2, <4>1 DEF Writers
    <3>. QED
      BY <3>1, <3>2
  <2>. QED
    BY <2>2, <2>3, <2>4, <2>5, <2>6, <2>7, <2>8 DEF KeepsSockets, Active
<1>. QED
  BY <1>1, <1>2

(* Dropping entries changes nothing for the others. *)
LEMMA ReapedOnly ==
  ASSUME clients \in Table, NEW dead \in SUBSET Active(clients)
  PROVE  /\ Reaped(dead) \in Table
         /\ Active(Reaped(dead)) = Active(clients) \ dead
         /\ Writers(Reaped(dead)) = Writers(clients) \ dead
         /\ KeepsSockets(clients, Reaped(dead))
<1>1. \A k \in Index \ dead : Reaped(dead)[k] = clients[k]
  BY DEF Reaped
<1>2. \A k \in dead : Reaped(dead)[k] \in Client /\ ~Reaped(dead)[k].active
  BY ActiveIsClient DEF Reaped, Client
<1>3. Reaped(dead) \in Table
  BY <1>1, <1>2 DEF Reaped, Table
<1>. QED
  BY <1>1, <1>2, <1>3 DEF Active, Writers, KeepsSockets

LEMMA UnregisteredOnly ==
  ASSUME clients \in Table, NEW gone \in SUBSET Active(clients)
  PROVE  /\ Unregistered(gone) \in Table
         /\ Active(Unregistered(gone)) = Active(clients) \ gone
         /\ Writers(Unregistered(gone)) = Writers(clients) \ gone
         /\ KeepsSockets(clients, Unregistered(gone))
<1>1. \A k \in Index \ gone : Unregistered(gone)[k] = clients[k]
  BY DEF Unregistered
<1>2. \A k \in gone :
         Unregistered(gone)[k] \in Client /\ ~Unregistered(gone)[k].active
  BY ActiveIsClient DEF Unregistered, Client
<1>3. Unregistered(gone) \in Table
  BY <1>1, <1>2 DEF Unregistered, Table
<1>. QED
  BY <1>1, <1>2, <1>3 DEF Active, Writers, KeepsSockets

LEMMA PromotionTyped ==
  ASSUME NEW table \in Table
  PROVE  Promotion(table) \in RoleMessage \cup {NoMessage}
<1>1. CASE Active(table) = {}
  BY <1>1 DEF Promotion
<1>2. CASE Active(table) # {}
  <2>1. Lowest(Active(table)) \in Active(table)
    BY <1>2, LowestIsThere DEF Active, Index
  <2>2. table[Lowest(Active(table))] \in Client
    BY <2>1, ActiveIsClient
  <2>. QED
    BY <1>2, <2>2 DEF Promotion, RoleMessage, Client
<1>. QED
  BY <1>1, <1>2

-------------------------------------------------------------------------------
(* What the properties ask of a table *)

OneWriterIn(table) ==
    Active(table) # {} => \E w \in Index : Writers(table) = {w}

NoDoubleIn(table) ==
    \A j, k \in Active(table) : table[j].sockfd = table[k].sockfd => j = k

Good(table) == table \in Table /\ OneWriterIn(table) /\ NoDoubleIn(table)

KeepsWriters(old, new) ==
    \A k \in Writers(old) :
        \/ k \in Writers(new) /\ new[k].sockfd = old[k].sockfd
        \/ k \notin Active(new)

(* Clients leave; the table stays good, with a promotion if and only if it  *)
(* lost its writer.                                                         *)
LEMMA Leaving ==
  ASSUME Good(clients), NEW gone \in SUBSET Active(clients), NEW new \in Table,
         Active(new) = Active(clients) \ gone,
         Writers(new) = Writers(clients) \ gone,
         KeepsSockets(clients, new)
  PROVE  /\ Writers(new) # {} \/ Active(new) = {} =>
               Good(new) /\ KeepsWriters(clients, new)
         /\ Writers(new) = {} =>
               Good(Promote(new)) /\ KeepsWriters(clients, Promote(new))
<1>1. NoDoubleIn(new)
  BY DEF Good, NoDoubleIn, KeepsSockets
<1>2. ASSUME Writers(new) # {} \/ Active(new) = {}
      PROVE  Good(new) /\ KeepsWriters(clients, new)
  <2>1. OneWriterIn(new)
    BY <1>2 DEF Good, OneWriterIn, Writers
  <2>2. KeepsWriters(clients, new)
    BY DEF KeepsWriters, KeepsSockets, Writers
  <2>. QED
    BY <1>1, <2>1, <2>2 DEF Good
<1>3. ASSUME Writers(new) = {}
      PROVE  Good(Promote(new)) /\ KeepsWriters(clients, Promote(new))
  <2>1. /\ Promote(new) \in Table
        /\ Active(Promote(new)) = Active(new)
        /\ KeepsSockets(new, Promote(new))
        /\ Active(new) # {} => \E w \in Index : Writers(Promote(new)) = {w}
    BY <1>3, PromoteOne
  <2>2. NoDoubleIn(Promote(new))
    BY <1>1, <2>1 DEF NoDoubleIn, KeepsSockets
  <2>3. OneWriterIn(Promote(new))
    BY <2>1 DEF OneWriterIn
  <2>4. KeepsWriters(clients, Promote(new))
    BY <1>3, <2>1 DEF KeepsWriters, Writers
  <2>. QED
    BY <2>1, <2>2, <2>3, <2>4 DEF Good
<1>. QED
  BY <1>2, <1>3

(* What a step may do to the table. *)
TableStep == Good(clients') /\ KeepsWriters(clients, clients')

LEMMA SameTable == Good(clients) /\ clients' = clients => TableStep
BY DEF TableStep, KeepsWriters, Writers

LEMMA BroadcastTable ==
  ASSUME Good(clients), NEW task \in Task, BroadcastText(task)
  PROVE  TableStep
<1>1. PICK dead \in SUBSET Active(clients) :
          clients' = IF ~AnyWriter(Reaped(dead)) THEN Promote(Reaped(dead))
                     ELSE Reaped(dead)
  BY DEF BroadcastText
<1>2. /\ Reaped(dead) \in Table
      /\ Active(Reaped(dead)) = Active(clients) \ dead
      /\ Writers(Reaped(dead)) = Writers(clients) \ dead
      /\ KeepsSockets(clients, Reaped(dead))
  BY ReapedOnly DEF Good
<1>. QED
  BY <1>1, <1>2, Leaving DEF AnyWriter, TableStep

LEMMA CloseTable ==
  ASSUME Good(clients), NEW fd \in Fd, SessionClose(fd)
  PROVE  TableStep
<1> DEFINE gone == IF published THEN find_slot(fd) ELSE {}
           new == Unregistered(gone)
<1>1. gone \in SUBSET Active(clients)
  BY DEF find_slot
<1>2. clients' = IF \E k \in gone : clients[k].is_writer THEN Promote(new) ELSE new
  BY DEF SessionClose
<1> HIDE DEF gone
<1>3. /\ new \in Table
      /\ Active(new) = Active(clients) \ gone
      /\ Writers(new) = Writers(clients) \ gone
      /\ KeepsSockets(clients, new)
  BY <1>1, UnregisteredOnly DEF Good
<1> HIDE DEF new
<1>4. CASE \E k \in gone : clients[k].is_writer
  <2>1. Writers(new) = {}
    BY <1>1, <1>3, <1>4 DEF Good, OneWriterIn, Writers
  <2>. QED
    BY <1>1, <1>2, <1>3, <1>4, <2>1, Leaving DEF TableStep
<1>5. CASE ~ \E k \in gone : clients[k].is_writer
  <2>1. Writers(new) = Writers(clients)
    BY <1>1, <1>3, <1>5 DEF Writers
  <2>2. Writers(new) # {} \/ Active(new) = {}
    BY <1>3, <2>1 DEF Good, OneWriterIn
  <2>. QED
    BY <1>1, <1>2, <1>3, <1>5, <2>2, Leaving DEF TableStep
<1>. QED
  BY <1>4, <1>5

LEMMA RegisterTable ==
  ASSUME Good(clients), NEW fd \in Fd, Register(fd)
  PROVE  TableStep
<1>1. CASE ~Admits(fd)
  BY <1>1, SameTable DEF Register
<1>2. CASE Admits(fd)
  <2> DEFINE f == Lowest(FreeSlots)
             entry == [sockfd |-> fd, is_writer |-> ~AnyWriter(clients),
                       active |-> TRUE]
  <2>1. f \in Index /\ f \notin Active(clients)
    BY <1>2, LowestIsThere DEF Admits, FreeSlots, Index
  <2>2. clients' = [clients EXCEPT ![f] = entry]
    BY <1>2 DEF Register
  <2>3. entry \in Client
    BY DEF Client, AnyWriter
  <2> HIDE DEF f
  <2>4. clients' \in Table
    BY <2>1, <2>2, <2>3 DEF Good, Table
  <2>5. /\ clients'[f] = entry
        /\ \A k \in Index : k # f => clients'[k] = clients[k]
    BY <2>1, <2>2 DEF Good, Table
  <2>6. Active(clients') = Active(clients) \cup {f}
    BY <2>1, <2>5 DEF Active
  <2>7. Writers(clients') = IF AnyWriter(clients) THEN Writers(clients) ELSE {f}
    <3>e. clients'[f].is_writer = ~AnyWriter(clients)
      BY <2>5
    <3>1. f \in Writers(clients') <=> ~AnyWriter(clients)
      BY <3>e, <2>6 DEF Writers
    <3>2. \A k \in Index : k # f =>
              (k \in Writers(clients') <=> k \in Writers(clients))
      BY <2>5, <2>6 DEF Writers
    <3>3. f \notin Writers(clients) /\ Writers(clients) \subseteq Index
          /\ Writers(clients') \subseteq Index
      BY <2>1 DEF Writers, Active
    <3>. QED
      BY <3>1, <3>2, <3>3 DEF AnyWriter
  <2>8. OneWriterIn(clients')
    BY <2>1, <2>7 DEF Good, OneWriterIn, AnyWriter, Writers
  <2>9. NoDoubleIn(clients')
    <3>1. \A k \in Active(clients) : clients[k].sockfd # fd /\ k \in Index /\ k # f
      BY <1>2, <2>1 DEF Admits, find_slot, Active
    <3>. QED
      BY <2>5, <2>6, <3>1 DEF Good, NoDoubleIn
  <2>10. KeepsWriters(clients, clients')
    BY <2>1, <2>5, <2>7 DEF KeepsWriters, AnyWriter, Writers, Active
  <2>. QED
    BY <2>4, <2>8, <2>9, <2>10 DEF TableStep, Good
<1>. QED
  BY <1>1, <1>2

LEMMA TableStepHolds ==
  ASSUME Good(clients), [Next]_vars
  PROVE  TableStep
<1>1. ASSUME NEW fd \in Fd, Register(fd)
      PROVE  TableStep
  BY <1>1, RegisterTable
<1>2. ASSUME NEW fd \in Fd, SessionClose(fd)
      PROVE  TableStep
  BY <1>2, CloseTable
<1>3. ASSUME NEW task \in Task, BroadcastText(task)
      PROVE  TableStep
  BY <1>3, BroadcastTable
<1>. QED
  BY <1>1, <1>2, <1>3, SameTable
     DEF Next, vars, Publish, ReceiveFrame, SendRole, LoseRole, BroadcastEvent,
         Greet, FrameNotMade, ConfigPosted, DispatchFrame, FrameDone, CloseSocket,
         Task

-------------------------------------------------------------------------------
(* The theorems *)

(* Whatever the tasks are in the middle of, the properties of the table are *)
(* inductive together.                                                      *)
LEMMA GoodInit == Init => Good(clients)
BY DEF Init, Good, Table, OneWriterIn, NoDoubleIn, Active, Free

THEOREM TableIsGood == Spec => []Good(clients)
<1>1. Good(clients) /\ [Next]_vars => Good(clients)'
  BY TableStepHolds DEF TableStep
<1>. QED
  BY GoodInit, <1>1, PTL DEF Spec

(* There is exactly one writer whenever there is a client. *)
THEOREM OneWriter == Spec => []ExactlyOneWriter
<1>1. Good(clients) => ExactlyOneWriter
  BY DEF Good, OneWriterIn, ExactlyOneWriter
<1>. QED
  BY <1>1, TableIsGood, PTL

(* No socket is in the table twice. *)
THEOREM SocketsOnce == Spec => []NoDoubleEntry
<1>1. Good(clients) => NoDoubleEntry
  BY DEF Good, NoDoubleIn, NoDoubleEntry
<1>. QED
  BY <1>1, TableIsGood, PTL

(* A writer is the writer until it leaves the table. *)
THEOREM WriterStays == Spec => WriterKeepsRole
<1>1. Good(clients) /\ [Next]_vars =>
        [\A k \in Writers(clients) :
            \/ k \in Writers(clients') /\ clients'[k].sockfd = clients[k].sockfd
            \/ k \notin Active(clients')]_vars
  BY TableStepHolds DEF TableStep, KeepsWriters
<1>. QED
  BY <1>1, TableIsGood, PTL DEF Spec, WriterKeepsRole

LEMMA OutboxOfBroadcast ==
  ASSUME TypeOK, NEW task \in Task, BroadcastText(task)
  PROVE  outbox' \in [Task -> RoleMessage \cup {NoMessage}]
<1>1. PICK dead \in SUBSET Active(clients) :
          \/ outbox' = [outbox EXCEPT ![task] = Promotion(Reaped(dead))]
          \/ outbox' = outbox
  BY DEF BroadcastText
<1>2. Promotion(Reaped(dead)) \in RoleMessage \cup {NoMessage}
  BY ReapedOnly, PromotionTyped DEF TypeOK
<1>. QED
  BY <1>1, <1>2 DEF TypeOK

LEMMA OutboxOfClose ==
  ASSUME TypeOK, NEW fd \in Fd, SessionClose(fd)
  PROVE  outbox' \in [Task -> RoleMessage \cup {NoMessage}]
<1> DEFINE gone == IF published THEN find_slot(fd) ELSE {}
<1>1. \/ outbox' = [outbox EXCEPT ![Httpd] = Promotion(Unregistered(gone))]
      \/ outbox' = outbox
  BY DEF SessionClose
<1>2. gone \in SUBSET Active(clients)
  BY DEF find_slot
<1> HIDE DEF gone
<1>3. Promotion(Unregistered(gone)) \in RoleMessage \cup {NoMessage}
  BY <1>2, UnregisteredOnly, PromotionTyped DEF TypeOK
<1>. QED
  BY <1>1, <1>3 DEF TypeOK

LEMMA TypeStep == TypeOK /\ Good(clients) /\ [Next]_vars => TypeOK'
<1> SUFFICES ASSUME TypeOK, Good(clients), [Next]_vars
             PROVE  TypeOK'
    OBVIOUS
<1>1. clients' \in Table
  BY TableStepHolds DEF TableStep, Good
<1> USE DEF TypeOK
<1>2. CASE Publish
  BY <1>1, <1>2 DEF Publish
<1>3. ASSUME NEW fd \in Fd, Register(fd)
      PROVE  TypeOK'
  <2>1. [sockfd |-> fd, writer |-> ~AnyWriter(clients)] \in RoleMessage
    BY DEF RoleMessage, AnyWriter
  <2>2. outbox' \in [Task -> RoleMessage \cup {NoMessage}]
    BY <1>3, <2>1 DEF Register
  <2>. QED
    BY <1>1, <1>3, <2>2 DEF Register
<1>4. ASSUME NEW fd \in Fd, ReceiveFrame(fd)
      PROVE  TypeOK'
  BY <1>1, <1>4 DEF ReceiveFrame
<1>5. ASSUME NEW fd \in Fd, SessionClose(fd)
      PROVE  TypeOK'
  BY <1>1, <1>5, OutboxOfClose DEF SessionClose
<1>6. ASSUME NEW task \in Task, SendRole(task)
      PROVE  TypeOK'
  BY <1>1, <1>6 DEF SendRole
<1>7. ASSUME NEW task \in Task, LoseRole(task)
      PROVE  TypeOK'
  BY <1>1, <1>7 DEF LoseRole
<1>8. ASSUME NEW task \in Broadcaster, BroadcastEvent(task)
      PROVE  TypeOK'
  BY <1>1, <1>8, OutboxOfBroadcast DEF BroadcastEvent, Task
<1>9. CASE Greet
  BY <1>1, <1>9, OutboxOfBroadcast DEF Greet, FrameNotMade, Task
<1>10. CASE ConfigPosted
  BY <1>1, <1>10, OutboxOfBroadcast DEF ConfigPosted, Task
<1>11. CASE DispatchFrame
  BY <1>1, <1>11, OutboxOfBroadcast DEF DispatchFrame, Task
<1>12. CASE FrameDone
  BY <1>1, <1>12 DEF FrameDone
<1>13. CASE CloseSocket
  BY <1>1, <1>13 DEF CloseSocket
<1>14. CASE UNCHANGED vars
  BY <1>14 DEF vars
<1>. QED
  BY <1>2, <1>3, <1>4, <1>5, <1>6, <1>7, <1>8, <1>9, <1>10, <1>11, <1>12, <1>13,
     <1>14 DEF Next

(* Every variable always has its type: the role messages in particular are  *)
(* for sockets of clients.                                                  *)
THEOREM TypeCorrect == Spec => []TypeOK
<1>1. Init => TypeOK
  BY GoodInit DEF Init, TypeOK, Good, Idle, NoMessage
<1>. QED
  BY <1>1, TypeStep, TableIsGood, PTL DEF Spec
===============================================================================
