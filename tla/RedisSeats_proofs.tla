-------------------------- MODULE RedisSeats_proofs --------------------------
(***************************************************************************)
(* The seats of a room in Redis, for any number of instances, handlers and  *)
(* players.  First the types, whatever fails; then that a connected seat is *)
(* one whose player has a socket, or whose close is still to be handled, as *)
(* long as nothing fails.                                                  *)
(*                                                                         *)
(* The lock serves whom it likes, so a close may come before the join of its *)
(* own socket.  What then keeps the join from seating a player who is gone  *)
(* is the reservation id: the close frees the seat, the next reservation    *)
(* bears an id no handler under way knows, and the join compares the id it  *)
(* was admitted with to the seat's.                                        *)
(*                                                                         *)
(* Last, whatever fails: the room's row in the database implements          *)
(* RoomLifecycle.                                                          *)
(***************************************************************************)
EXTENDS RedisRooms_proofs, FiniteSetTheorems

(* Where a handler has read a record that it is about to write back. *)
Reads == {"markConnected", "updateReady", "markDisconnected"}

(* A handler has a seat in hand: it has read one, or was admitted to one. *)
Holds(kind, pc) == pc \in Reads \cup {"connect"} \/ (kind = "connect" /\ pc = "wait")

(* Where a handler goes on to with nothing in hand. *)
Later == Places \ (Reads \cup {"wait", "connect"})

Crew ==
    /\ task \in [Tasks -> Task \cup {Idle}]
    /\ \A h \in Tasks : task[h] # Idle /\ Holds(task[h].kind, task[h].pc) => task[h].got # NoSeat
    /\ lapsed \subseteq Working

Store ==
    /\ status \in {"none", "recruiting", "closing", "closed"}
    /\ members \in [Players -> Seat \cup {NoSeat}]
    /\ lock \in Tasks \cup {Free}
    /\ job \in BOOLEAN
    /\ closing \subseteq Instances
    /\ room \in {"absent", "recruiting", "closed"}
    /\ sockets \subseteq Instances \X Players
    /\ spent \in [Sorts -> 0..MaxFailures]

Typed == Crew /\ Store

-----------------------------------------------------------------------------
(* Handlers keep their type. *)

LEMMA SlotTyped ==
  ASSUME Crew, NEW h \in Tasks, NEW c \in Task \cup {Idle}, task' = [task EXCEPT ![h] = c],
         c # Idle /\ Holds(c.kind, c.pc) => c.got # NoSeat,
         lapsed' \subseteq lapsed, h \in lapsed' => c # Idle /\ c.pc # "wait"
  PROVE  Crew' /\ Others(h) /\ task'[h] = c
<1>1. Others(h) /\ task'[h] = c /\ task' \in [Tasks -> Task \cup {Idle}]
  BY DEF Crew, Others
<1>2. lapsed' \subseteq Working'
  BY <1>1 DEF Crew, Working, Others
<1> QED
  BY <1>1, <1>2 DEF Crew, Others

(* What is left of slot h by an operator: the handler it held, gone on. *)
GoesOn(h, kind, pc, got) ==
    /\ Crew' /\ Others(h) /\ task'[h] \in Task /\ task'[h] # Idle
    /\ task'[h].kind = kind /\ task'[h].pc = pc /\ task'[h].got = got
    /\ task'[h].at = task[h].at /\ task'[h].player = task[h].player

LEMMA GoesOnTyped ==
  ASSUME Crew, NEW h \in Tasks, task[h] # Idle,
         NEW kind \in Kinds, NEW pc \in Places, NEW got \in Seat \cup {NoSeat},
         task' = [task EXCEPT ![h] = [task[h] EXCEPT !.kind = kind, !.pc = pc, !.got = got]],
         Holds(kind, pc) => got # NoSeat,
         lapsed' \subseteq lapsed, pc = "wait" => h \notin lapsed'
  PROVE  GoesOn(h, kind, pc, got)
<1>1. task[h] \in Task
  BY DEF Crew
<1> DEFINE d == [task[h] EXCEPT !.kind = kind, !.pc = pc, !.got = got]
<1>2. /\ d \in Task /\ d # Idle
      /\ d.kind = kind /\ d.pc = pc /\ d.got = got /\ d.at = task[h].at /\ d.player = task[h].player
  BY <1>1, RedisAssumption DEF Task
<1>3. task' = [task EXCEPT ![h] = d]
  OBVIOUS
<1> HIDE DEF d
<1>4. Crew' /\ Others(h) /\ task'[h] = d
  BY <1>2, <1>3, SlotTyped
<1> QED
  BY <1>2, <1>4 DEF GoesOn

LEMMA GotoTyped ==
  ASSUME Crew, NEW h \in Tasks, task[h] # Idle, NEW pc \in Later, Goto(h, pc)
  PROVE  GoesOn(h, task[h].kind, pc, NoSeat)
<1>1. task[h] \in Task
  BY DEF Crew
<1>2. task' = [task EXCEPT ![h] = [task[h] EXCEPT !.kind = task[h].kind, !.pc = pc, !.got = NoSeat]]
  BY <1>1 DEF Goto, Crew, Task
<1>3. task[h].kind \in Kinds
  BY <1>1 DEF Task
<1> QED
  BY <1>2, <1>3, GoesOnTyped DEF Goto, Later, Holds

LEMMA ReadMemberTyped ==
  ASSUME Crew, NEW h \in Tasks, task[h] # Idle, NEW pc \in Reads, ReadMember(h, pc),
         members[task[h].player] \in Seat
  PROVE  GoesOn(h, task[h].kind, pc, members[task[h].player])
<1>1. task[h] \in Task /\ pc \in Places /\ pc # "wait" /\ members[task[h].player] # NoSeat
  BY RedisAssumption DEF Crew, Reads, Places
<1> DEFINE m == members[task[h].player]
<1>2. task' = [task EXCEPT ![h] = [task[h] EXCEPT !.kind = task[h].kind, !.pc = pc, !.got = m]]
  BY <1>1 DEF ReadMember, Crew, Task
<1>3. task[h].kind \in Kinds /\ m \in Seat \cup {NoSeat}
  BY <1>1 DEF Task
<1> HIDE DEF m
<1>4. GoesOn(h, task[h].kind, pc, m)
  BY <1>1, <1>2, <1>3, GoesOnTyped DEF ReadMember, m
<1> QED
  BY <1>4 DEF m

LEMMA AcquireTyped ==
  ASSUME Crew, NEW h \in Tasks, Acquire(h)
  PROVE  GoesOn(h, task[h].kind, task[h].kind, task[h].got)
<1>1. task[h] \in Task
  BY DEF Crew, Acquire
<1> DEFINE k == task[h].kind
           g == task[h].got
<1>2. task' = [task EXCEPT ![h] = [task[h] EXCEPT !.kind = k, !.pc = k, !.got = g]]
  BY <1>1 DEF Acquire, Crew, Task
<1>3. k \in Kinds /\ k \in Places /\ k \notin Reads \cup {"wait"} /\ g \in Seat \cup {NoSeat}
  BY <1>1 DEF Task, Kinds, Places, Reads
<1>5. Holds(k, k) => g # NoSeat
  BY <1>1, <1>3 DEF Acquire, Crew, Holds
<1> HIDE DEF k, g
<1>4. GoesOn(h, k, k, g)
  BY <1>2, <1>3, <1>5, GoesOnTyped DEF Acquire
<1> QED
  BY <1>4 DEF k, g

LEMMA ThenTyped ==
  ASSUME Crew, NEW h \in Tasks, task[h] # Idle, NEW kind \in Kinds \ {"connect"}, Then(h, kind)
  PROVE  GoesOn(h, kind, "wait", NoSeat)
<1>1. task' = [task EXCEPT ![h] = [task[h] EXCEPT !.kind = kind, !.pc = "wait", !.got = NoSeat]]
  BY DEF Then, Crew
<1> QED
  BY <1>1, GoesOnTyped DEF Then, Release, Places, Reads, Holds

LEMMA FinishTyped ==
  ASSUME Crew, NEW h \in Tasks, Finish(h)
  PROVE  Crew' /\ Others(h) /\ task'[h] = Idle
BY SlotTyped DEF Finish, Release

LEMMA FailTyped ==
  ASSUME Crew, NEW h \in Tasks, task[h] # Idle, Fail(h)
  PROVE  /\ Crew' /\ Others(h)
         /\ task'[h] = Idle \/ (task'[h].kind = "forceClose" /\ task'[h].got = NoSeat)
         /\ task'[h] # Idle => task[h].kind \in {"initialize", "reserve"}
<1>1. CASE Finish(h)
  BY <1>1, FinishTyped
<1>2. CASE task[h].kind \in {"initialize", "reserve"} /\ Then(h, "forceClose")
  BY <1>2, ThenTyped DEF GoesOn, Kinds
<1> QED
  BY <1>1, <1>2 DEF Fail

LEMMA DiesTyped ==
  ASSUME Typed, NEW i, Dies(i)
  PROVE  Crew' /\ closing' \subseteq Instances /\ sockets' \subseteq Instances \X Players
<1>1. task' \in [Tasks -> Task \cup {Idle}]
  BY DEF Dies, Typed, Crew
<1>2. \A h \in Tasks : task'[h] \in {task[h], Idle} /\ (task[h] # Idle /\ task[h].at = i <=> task'[h] # task[h])
  BY DEF Dies
<1>3. lapsed' \subseteq Working'
  BY <1>2 DEF Dies, Typed, Crew, Working
<1> QED
  BY <1>1, <1>2, <1>3 DEF Typed, Crew, Store, Dies

LEMMA BeginTyped ==
  ASSUME Typed, NEW h \in Tasks, task[h] = Idle, NEW kind \in Kinds, NEW i \in Instances,
         NEW p \in Players, Begin(h, kind, i, p), UNCHANGED lapsed,
         kind = "connect" => members[p] # NoSeat
  PROVE  /\ Crew' /\ Others(h) /\ task'[h] # Idle
         /\ task'[h].kind = kind /\ task'[h].pc = "wait" /\ task'[h].player = p /\ task'[h].at = i
         /\ task'[h].got = IF kind = "connect" THEN members[p] ELSE NoSeat
<1> DEFINE g == IF kind = "connect" THEN members[p] ELSE NoSeat
           c == [kind |-> kind, at |-> i, player |-> p, pc |-> "wait", got |-> g]
<1>1. g \in Seat \cup {NoSeat}
  BY DEF Typed, Store
<1>2. task' = [task EXCEPT ![h] = c]
  BY DEF Begin
<1>3. c.kind = kind /\ c.pc = "wait" /\ c.player = p /\ c.at = i /\ c.got = g
  OBVIOUS
<1> HIDE DEF g
<1>4. c \in Task
  BY <1>1 DEF Task, Places
<1> HIDE DEF c
<1>5. c # Idle /\ h \notin lapsed'
  BY <1>4, RedisAssumption DEF Typed, Crew, Working
<1>6. Crew' /\ Others(h) /\ task'[h] = c
  BY <1>2, <1>3, <1>4, <1>5, SlotTyped DEF Typed, Reads, Holds, g
<1> QED
  BY <1>3, <1>5, <1>6 DEF g

-----------------------------------------------------------------------------
(* A reservation id that no handler under way knows is always left. *)

Known(p) == {h \in Tasks : task[h] # Idle /\ task[h].player = p /\ task[h].got # NoSeat}

LEMMA TicketIsNew ==
  ASSUME Crew, NEW p
  PROVE  /\ NewTicket(p) \in Tickets
         /\ \A h \in Known(p) : task[h].got.ticket # NewTicket(p)
<1> DEFINE held == Known(p)
           f == [h \in held |-> task[h].got.ticket]
           T == {task[h].got.ticket : h \in held}
           n == Cardinality(Tasks)
<1>1. n \in Nat /\ IsFiniteSet(held) /\ Cardinality(held) <= n /\ Cardinality(held) \in Nat
  BY FS_CardinalityType, FS_Subset, RedisAssumption DEF Known
<1>2. f \in Surjection(held, T)
  BY DEF Surjection
<1>3. IsFiniteSet(T) /\ Cardinality(T) <= n /\ Cardinality(T) \in Nat
  BY <1>1, <1>2, FS_Surjection, FS_CardinalityType
<1>4. IsFiniteSet(Tickets) /\ Cardinality(Tickets) = n + 1
  BY <1>1, FS_Interval DEF Tickets
<1>5. Tickets \ T # {}
  <2> SUFFICES ASSUME Tickets \ T = {} PROVE FALSE
    OBVIOUS
  <2>1. Tickets \in SUBSET T
    OBVIOUS
  <2> HIDE DEF T, n
  <2> QED
    BY <1>1, <1>3, <1>4, <2>1, FS_Subset
<1>6. NewTicket(p) = CHOOSE t \in Tickets \ T : TRUE
  BY DEF NewTicket, Known
<1> HIDE DEF T
<1>7. NewTicket(p) \in Tickets \ T
  BY <1>5, <1>6
<1> QED
  BY <1>7 DEF T

LEMMA SpendTyped ==
  ASSUME Store, NEW sort \in Sorts, spent' = [spent EXCEPT ![sort] = @ + 1], Total < MaxFailures
  PROVE  spent' \in [Sorts -> 0..MaxFailures]
<1>1. \A o \in Sorts : spent[o] \in Nat
  BY DEF Store
<1>2. spent[sort] <= Total
  BY <1>1 DEF Total, Sorts
<1> QED
  BY <1>1, <1>2, RedisAssumption DEF Store, Total, Sorts

(* The failure, if any, that a step spends. *)
Spends == Sound \/ \E sort \in Sorts : Spend(sort)

LEMMA SpendsTyped ==
  ASSUME Store, Spends
  PROVE  spent' \in [Sorts -> 0..MaxFailures]
BY SpendTyped DEF Spends, Sound, Spend, Store

LEMMA SpendingKinds == (Sound \/ Faulty \/ Lossy \/ ScheduleOrLose) => Spends
BY SortNames DEF Spends, Faulty, Lossy, ScheduleOrLose, Schedule

-----------------------------------------------------------------------------
(* What is stored keeps its type. *)

LEMMA HandlerFacts ==
  ASSUME Typed, NEW h \in Tasks, NEW pc, At(h, pc)
  PROVE  /\ task[h] # Idle /\ task[h] \in Task /\ task[h].pc = pc
         /\ task[h].kind \in Kinds /\ task[h].player \in Players /\ task[h].at \in Instances
         /\ pc \in Reads \cup {"connect"} => task[h].got \in Seat
BY DEF At, Typed, Crew, Task, Holds

LEMMA LockTyped ==
  ASSUME Store, NEW h, Release(h) \/ lock' = lock \/ lock' = Free
  PROVE  lock' \in Tasks \cup {Free}
BY DEF Release, Unlocked, Store

LEMMA SeatRecord ==
  ASSUME NEW t \in Tickets, NEW c \in BOOLEAN, NEW a \in BOOLEAN
  PROVE  [ticket |-> t, connected |-> c, stale |-> a] \in Seat
BY DEF Seat

LEMMA WriteBackTyped ==
  ASSUME Typed, NEW h \in Tasks, NEW pc \in Reads, At(h, pc),
         NEW c \in BOOLEAN, NEW a \in BOOLEAN, WriteBack(h, c, a)
  PROVE  members' \in [Players -> Seat \cup {NoSeat}]
<1>1. task[h].got.ticket \in Tickets
  BY HandlerFacts DEF Seat
<1>2. [ticket |-> task[h].got.ticket, connected |-> c, stale |-> a] \in Seat
  BY <1>1, SeatRecord
<1> QED
  BY <1>2 DEF WriteBack, Typed, Store

LEMMA GotFlags ==
  ASSUME Typed, NEW h \in Tasks, NEW pc \in Reads, At(h, pc)
  PROVE  task[h].got.connected \in BOOLEAN /\ task[h].got.stale \in BOOLEAN
BY HandlerFacts DEF Seat

-----------------------------------------------------------------------------
(* Every step keeps the types.  What is left to show of each is what it does   *)
(* to its slot, the members and the two statuses.                             *)

LEMMA TypedStep ==
  ASSUME Typed, Crew', lock' \in Tasks \cup {Free},
         status' \in {status, "none", "recruiting", "closing", "closed"},
         members' \in [Players -> Seat \cup {NoSeat}],
         job' \in BOOLEAN, closing' \subseteq Instances,
         room' \in {room, "recruiting", "closed"},
         sockets' \subseteq Instances \X Players, Spends
  PROVE  Typed'
<1>1. spent' \in [Sorts -> 0..MaxFailures]
  BY SpendsTyped DEF Typed
<1> QED
  BY <1>1 DEF Typed, Store

LEMMA StoreFacts ==
  Typed => /\ Crew /\ Store
           /\ lock \in Tasks \cup {Free} /\ status \in {"none", "recruiting", "closing", "closed"}
           /\ members \in [Players -> Seat \cup {NoSeat}] /\ job \in BOOLEAN
           /\ closing \subseteq Instances /\ sockets \subseteq Instances \X Players
           /\ room \in {"absent", "recruiting", "closed"}
BY DEF Typed, Store

LEMMA StartsTyped ==
  ASSUME Typed, NEW h \in Tasks, NEW i \in Instances, Start(h, i) \/ ClaimAlarm(h, i)
  PROVE  Typed'
<1> USE StoreFacts, SpendingKinds DEF Idles, redis, Kinds, Sound
<1>0. Host \in Players
  BY DEF Players
<1>1. CASE Create(h, i) \/ StartForceClose(h, i)
  <2>1. Crew'
    BY <1>0, <1>1, BeginTyped DEF Create, StartForceClose
  <2> QED
    BY <1>1, <2>1, TypedStep DEF Create, StartForceClose
<1>2. CASE ClaimAlarm(h, i)
  <2>1. Crew'
    BY <1>0, <1>2, BeginTyped DEF ClaimAlarm
  <2> QED
    BY <1>2, <2>1, TypedStep DEF ClaimAlarm
<1>3. ASSUME NEW p \in Players, StartReserve(h, i, p) \/ StartMessage(h, i, p) PROVE Typed'
  <2>1. Crew'
    BY <1>3, BeginTyped DEF StartReserve, StartMessage
  <2> QED
    BY <1>3, <2>1, TypedStep DEF StartReserve, StartMessage
<1>4. ASSUME NEW p \in Players, StartConnect(h, i, p) PROVE Typed'
  <2>1. Crew'
    BY <1>4, BeginTyped DEF StartConnect
  <2>2. sockets' \subseteq Instances \X Players
    BY <1>4 DEF StartConnect
  <2> QED
    BY <1>4, <2>1, <2>2, TypedStep DEF StartConnect
<1> QED
  BY <1>1, <1>2, <1>3, <1>4 DEF Start

LEMMA CreationTyped ==
  ASSUME Typed, NEW h \in Tasks,
         InsertMeta(h) \/ CreateRoom(h) \/ FirstAlarm(h) \/ InsertMember(h) \/ ReserveSeat(h)
  PROVE  Typed'
<1> USE StoreFacts, SpendingKinds, HandlerFacts DEF Sound
<1>0. "createRoom" \in Later /\ "firstAlarm" \in Later
      /\ "reserveSeat" \in Later /\ "reserve" \in Kinds \ {"connect"}
  BY DEF Later, Places, Reads, Kinds
<1>1. CASE InsertMeta(h)
  <2>1. Crew' /\ lock' = lock
    BY <1>0, <1>1, GotoTyped DEF InsertMeta, Goto, GoesOn
  <2> QED
    BY <1>1, <2>1, TypedStep DEF InsertMeta
<1>2. CASE CreateRoom(h)
  <2>1. Crew' /\ (Release(h) \/ lock' = lock) /\ job' \in BOOLEAN
    BY <1>0, <1>2, GotoTyped, FailTyped DEF CreateRoom, Goto, GoesOn, Fail, Then, Finish
  <2> QED
    BY <1>2, <2>1, LockTyped, TypedStep DEF CreateRoom
<1>3. CASE FirstAlarm(h)
  <2>1. Crew' /\ Release(h) /\ job' \in BOOLEAN
    BY <1>0, <1>3, ThenTyped DEF FirstAlarm, Then, GoesOn, ScheduleOrLose, Schedule
  <2> QED
    BY <1>3, <2>1, LockTyped, TypedStep DEF FirstAlarm
<1>4. CASE InsertMember(h)
  <2>1. Crew' /\ (Release(h) \/ lock' = lock) /\ job' \in BOOLEAN
    BY <1>0, <1>4, GotoTyped, FailTyped, FinishTyped DEF InsertMember, Goto, GoesOn, Fail, Then, Finish
  <2>2. [ticket |-> NewTicket(task[h].player), connected |-> FALSE, stale |-> FALSE] \in Seat
    BY TicketIsNew, SeatRecord
  <2>3. members' \in [Players -> Seat \cup {NoSeat}]
    BY <1>4, <2>2 DEF InsertMember
  <2> QED
    BY <1>4, <2>1, <2>3, LockTyped, TypedStep DEF InsertMember
<1>5. CASE ReserveSeat(h)
  <2>1. Crew' /\ Release(h) /\ job' \in BOOLEAN /\ Spends
    BY <1>5, FailTyped, FinishTyped DEF ReserveSeat, Fail, Then, Finish, ScheduleOrLose, Schedule
  <2>2. members' \in [Players -> Seat \cup {NoSeat}]
    BY <1>5 DEF ReserveSeat
  <2> QED
    BY <1>5, <2>1, <2>2, LockTyped, TypedStep DEF ReserveSeat
<1> QED
  BY <1>1, <1>2, <1>3, <1>4, <1>5

(* A handler that reads a member record, or has nothing to do. *)
LEMMA ReadTyped ==
  ASSUME Typed, NEW h \in Tasks, task[h] # Idle, NEW pc \in Reads,
         (ReadMember(h, pc) /\ members[task[h].player] \in Seat) \/ Finish(h),
         UNCHANGED <<redis, closing, room, sockets, spent>>
  PROVE  Typed'
<1>1. Crew' /\ (Release(h) \/ lock' = lock)
  BY StoreFacts, ReadMemberTyped, FinishTyped DEF GoesOn, ReadMember, Finish
<1> QED
  BY <1>1, StoreFacts, LockTyped, SpendingKinds, TypedStep DEF redis, Sound

LEMMA SeatTyped ==
  ASSUME Typed, NEW h \in Tasks,
         \/ Revalidate(h) \/ MarkConnected(h) \/ PersistConnected(h)
         \/ ReadyRead(h) \/ UpdateReady(h)
         \/ Leave(h) \/ LeaveSeat(h) \/ RemoveMember(h)
  PROVE  Typed'
<1> USE StoreFacts, SpendingKinds, HandlerFacts DEF Sound
<1>0. /\ "markConnected" \in Reads /\ "updateReady" \in Reads /\ "markDisconnected" \in Reads
      /\ "persistConnected" \in Later
      /\ "forceClose" \in Later /\ "removeMember" \in Later
  BY DEF Later, Places, Reads, Kinds
<1>1. CASE Revalidate(h)
  BY <1>0, <1>1, ReadTyped DEF Revalidate
<1>2. CASE ReadyRead(h)
  BY <1>0, <1>2, ReadTyped DEF ReadyRead
<1>3. CASE Leave(h)
  BY <1>0, <1>3, ReadTyped DEF Leave
<1>4. CASE MarkConnected(h)
  <2>1. Crew' /\ lock' = lock
    BY <1>0, <1>4, GotoTyped DEF MarkConnected, Goto, GoesOn
  <2>2. members' \in [Players -> Seat \cup {NoSeat}]
    <3>1. At(h, "markConnected") /\ WriteBack(h, TRUE, task[h].got.stale)
      BY <1>4 DEF MarkConnected
    <3>2. task[h].got.stale \in BOOLEAN
      BY <1>0, <3>1, GotFlags
    <3>3. [ticket |-> task[h].got.ticket, connected |-> TRUE, stale |-> task[h].got.stale] \in Seat
      BY <1>0, <1>4, <3>2 DEF MarkConnected, Seat
    <3> QED
      BY <3>1, <3>3 DEF WriteBack
  <2> QED
    BY <1>4, <2>1, <2>2, TypedStep DEF MarkConnected
<1>5. CASE PersistConnected(h)
  <2>1. members' \in [Players -> Seat \cup {NoSeat}] /\ job' \in BOOLEAN
    <3>1. \A m \in Seat : [m EXCEPT !.connected = FALSE, !.stale = TRUE] \in Seat
      BY DEF Seat
    <3>2. MarkDisconnected(task[h].player) \in [Players -> Seat \cup {NoSeat}]
      BY <3>1 DEF MarkDisconnected
    <3> QED
      BY <1>5, <3>2 DEF PersistConnected
  <2>2. CASE Sound /\ Finish(h) /\ UNCHANGED <<members, job, sockets, closing>>
    <3>1. Crew' /\ Release(h)
      BY <2>2, FinishTyped DEF Finish
    <3> QED
      BY <1>5, <2>2, <3>1, LockTyped, TypedStep DEF PersistConnected
  <2>3. CASE /\ "fault" \in Failures /\ Total < MaxFailures
             /\ spent' = [spent EXCEPT !["crash"] = @ + 1] /\ Dies(task[h].at) /\ UNCHANGED lock
    <3>1. Crew' /\ closing' \subseteq Instances /\ sockets' \subseteq Instances \X Players
      BY <2>3, DiesTyped
    <3>2. spent' \in [Sorts -> 0..MaxFailures]
      BY <2>3, SpendTyped, SortNames
    <3> QED
      BY <1>5, <2>1, <2>3, <3>1, <3>2 DEF PersistConnected, Typed, Store
  <2> QED
    BY <1>5, <2>2, <2>3 DEF PersistConnected
<1>6. CASE UpdateReady(h)
  <2>1. Crew' /\ Release(h)
    BY <1>6, FinishTyped DEF UpdateReady, Finish
  <2>2. members' \in [Players -> Seat \cup {NoSeat}]
    BY <1>0, <1>6, GotFlags, WriteBackTyped DEF UpdateReady
  <2> QED
    BY <1>6, <2>1, <2>2, LockTyped, TypedStep DEF UpdateReady
<1>7. CASE LeaveSeat(h)
  <2>1. Crew' /\ lock' = lock
    BY <1>0, <1>7, GotoTyped DEF LeaveSeat, Goto, GoesOn
  <2>2. members' \in [Players -> Seat \cup {NoSeat}]
    BY <1>0, <1>7, WriteBackTyped DEF LeaveSeat
  <2>3. job' \in BOOLEAN
    BY <1>7 DEF LeaveSeat, ScheduleOrLose, Schedule
  <2> QED
    BY <1>7, <2>1, <2>2, <2>3, TypedStep DEF LeaveSeat
<1>8. CASE RemoveMember(h)
  <2>1. Crew' /\ Release(h)
    BY <1>8, FinishTyped DEF RemoveMember, Finish
  <2>2. members' \in [Players -> Seat \cup {NoSeat}]
    BY <1>8 DEF RemoveMember
  <2> QED
    BY <1>8, <2>1, <2>2, LockTyped, TypedStep DEF RemoveMember
<1> QED
  BY <1>1, <1>2, <1>3, <1>4, <1>5, <1>6, <1>7, <1>8

LEMMA ClosingTyped ==
  ASSUME Typed, NEW h \in Tasks,
         \/ Shut(h) \/ ShutDurably(h) \/ ShutSockets(h)
         \/ Ring(h) \/ Sweep(h) \/ Recover(h)
  PROVE  Typed'
<1> USE StoreFacts, SpendingKinds, HandlerFacts DEF Sound
<1>0. {"closeRoom", "closed", "recover", "sweep", "forceClose"} \subseteq Later
  BY DEF Later, Places, Reads, Kinds
<1>1. CASE Shut(h)
  <2>1. Crew' /\ (Release(h) \/ lock' = lock)
    BY <1>0, <1>1, GotoTyped, FinishTyped DEF Shut, Goto, GoesOn, Finish
  <2> QED
    BY <1>1, <2>1, LockTyped, TypedStep DEF Shut
<1>2. CASE ShutDurably(h)
  <2>1. Crew' /\ (Release(h) \/ lock' = lock)
    BY <1>0, <1>2, GotoTyped, FinishTyped DEF ShutDurably, Goto, GoesOn, Finish
  <2> QED
    BY <1>2, <2>1, LockTyped, TypedStep DEF ShutDurably
<1>3. CASE ShutSockets(h)
  <2>1. Crew' /\ Release(h)
    BY <1>3, FinishTyped DEF ShutSockets, Finish
  <2>2. members' \in [Players -> Seat \cup {NoSeat}]
    <3>1. \A m \in Seat : [m EXCEPT !.connected = FALSE] \in Seat
      BY DEF Seat
    <3> QED
      BY <1>3, <3>1 DEF ShutSockets
  <2>3. closing' \subseteq Instances /\ sockets' \subseteq Instances \X Players
    BY <1>3 DEF ShutSockets
  <2> QED
    BY <1>3, <2>1, <2>2, <2>3, LockTyped, TypedStep DEF ShutSockets
<1>4. CASE Ring(h)
  <2>1. Crew' /\ (Release(h) \/ lock' = lock)
    BY <1>0, <1>4, GotoTyped, FinishTyped DEF Ring, Goto, GoesOn, Finish
  <2> QED
    BY <1>4, <2>1, LockTyped, TypedStep DEF Ring, redis
<1>5. CASE Sweep(h)
  <2>1. members' \in [Players -> Seat \cup {NoSeat}]
    BY <1>5 DEF Sweep
  <2>2. Crew' /\ Release(h) /\ job' \in BOOLEAN /\ Spends
    BY <1>5, FinishTyped, FailTyped DEF Sweep, Finish, Fail, Then, ScheduleOrLose, Schedule
  <2> QED
    BY <1>5, <2>1, <2>2, LockTyped, TypedStep DEF Sweep
<1>6. CASE Recover(h)
  <2>1. Crew' /\ Release(h) /\ job' \in BOOLEAN
    BY <1>6, FinishTyped, FailTyped DEF Recover, Finish, Fail, Then
  <2> QED
    BY <1>6, <2>1, LockTyped, TypedStep DEF Recover
<1> QED
  BY <1>1, <1>2, <1>3, <1>4, <1>5, <1>6

LEMMA BackgroundTyped ==
  ASSUME Typed, \/ LeaseExpires \/ Outage \/ Expire
                \/ (\E h \in Tasks : Acquire(h) \/ GiveUp(h))
                \/ (\E h \in Tasks, s \in sockets : SocketCloses(h, s[1], s[2]))
                \/ (\E i \in Instances : DeliverClose(i) \/ Crash(i))
                \/ (\E p \in Players : ReservationAges(p))
                \/ UNCHANGED vars
  PROVE  Typed'
<1> USE StoreFacts, SpendingKinds DEF redis, Sound
<1>1. CASE LeaseExpires
  <2>1. Crew' /\ Spends
    BY <1>1, SortNames DEF LeaseExpires, Crew, Working, Spends
  <2> QED
    BY <1>1, <2>1, TypedStep DEF LeaseExpires
<1>2. CASE Outage
  <2>1. Crew' /\ Spends
    BY <1>2, SortNames DEF Outage, Crew, Working, Spends
  <2> QED
    BY <1>2, <2>1, TypedStep DEF Outage
<1>3. CASE Expire
  <2>1. Crew'
    BY <1>3 DEF Expire, Crew, Working
  <2> QED
    BY <1>3, <2>1, TypedStep DEF Expire
<1>4. ASSUME NEW h \in Tasks, Acquire(h) PROVE Typed'
  <2>1. Crew'
    BY <1>4, AcquireTyped DEF GoesOn
  <2> QED
    BY <1>4, <2>1, TypedStep DEF Acquire
<1>5. ASSUME NEW h \in Tasks, GiveUp(h) PROVE Typed'
  <2>1. CASE Dies(task[h].at) /\ UNCHANGED <<lock, job>>
    <3>1. Crew' /\ closing' \subseteq Instances /\ sockets' \subseteq Instances \X Players
      BY <2>1, DiesTyped
    <3> QED
      BY <1>5, <2>1, <3>1, TypedStep DEF GiveUp
  <2>2. CASE Fail(h) /\ UNCHANGED <<closing, sockets>>
    <3>1. Crew' /\ Release(h) /\ job' \in BOOLEAN
      BY <1>5, <2>2, FailTyped DEF GiveUp, At, Fail, Then, Finish
    <3> QED
      BY <1>5, <2>2, <3>1, LockTyped, TypedStep DEF GiveUp
  <2> QED
    BY <1>5, <2>1, <2>2 DEF GiveUp
<1>6. ASSUME NEW h \in Tasks, NEW s \in sockets, SocketCloses(h, s[1], s[2]) PROVE Typed'
  <2>1. s[1] \in Instances /\ s[2] \in Players /\ "close" \in Kinds
    BY DEF Kinds
  <2>2. Crew'
    BY <1>6, <2>1, BeginTyped DEF SocketCloses, Idles
  <2> QED
    BY <1>6, <2>2, TypedStep DEF SocketCloses
<1>7. ASSUME NEW i \in Instances, DeliverClose(i) PROVE Typed'
  <2>1. Crew' /\ sockets' \subseteq Instances \X Players
    BY <1>7 DEF DeliverClose, Crew, Working
  <2> QED
    BY <1>7, <2>1, TypedStep DEF DeliverClose
<1>8. ASSUME NEW i \in Instances, Crash(i) PROVE Typed'
  <2>1. Crew' /\ closing' \subseteq Instances /\ sockets' \subseteq Instances \X Players
    BY <1>8, DiesTyped DEF Crash
  <2>2. Spends
    BY <1>8, SortNames DEF Crash, Spends
  <2> QED
    BY <1>8, <2>1, <2>2, TypedStep DEF Crash
<1>9. ASSUME NEW p \in Players, ReservationAges(p) PROVE Typed'
  <2>1. [members[p] EXCEPT !.stale = TRUE] \in Seat
    BY <1>9 DEF ReservationAges, Seat
  <2>2. members' \in [Players -> Seat \cup {NoSeat}] /\ Crew'
    BY <1>9, <2>1 DEF ReservationAges, Crew, Working
  <2> QED
    BY <1>9, <2>2, TypedStep DEF ReservationAges
<1>10. CASE UNCHANGED vars
  BY <1>10 DEF vars, Typed, Crew, Store, Working
<1> QED
  BY <1>1, <1>2, <1>3, <1>4, <1>5, <1>6, <1>7, <1>8, <1>9, <1>10

LEMMA TypedInvariant == Spec => []Typed
<1>1. Init => Typed
  <2> SUFFICES ASSUME Init PROVE Typed
    OBVIOUS
  <2>1. Crew /\ spent \in [Sorts -> 0..MaxFailures]
    BY RedisAssumption DEF Init, Crew, Working
  <2> QED
    BY <2>1 DEF Init, Typed, Store
<1>2. Typed /\ [Next]_vars => Typed'
  <2> SUFFICES ASSUME Typed, [Next]_vars PROVE Typed'
    OBVIOUS
  <2>1. ASSUME NEW h \in Tasks, Step(h) PROVE Typed'
    BY <2>1, CreationTyped, SeatTyped, ClosingTyped DEF Step
  <2> QED
    BY <2>1, StartsTyped, BackgroundTyped DEF Next
<1> QED
  BY <1>1, <1>2, PTL DEF Spec

(* Through every failure, lost lease, crash and outage each hash, key and        *)
(* handler holds what its readers expect: a record that is written back was read *)
(* from a seat that existed, and the ids of reservations never run out.          *)
THEOREM RedisTypeCorrect == Spec => []TypeOK
<1>1. Typed => TypeOK
  BY DEF Typed, Crew, Store, TypeOK
<1> QED
  BY <1>1, TypedInvariant, PTL

-----------------------------------------------------------------------------
(* The seats while nothing fails. *)

Covered(p) == (\E i \in Instances : <<i, p>> \in sockets) \/ CloseDue(p)

Joining(h) == Is(h, "connect") /\ task[h].got # NoSeat

(* The seat is the one the handler has read; only its minute may have passed. *)
SameSeat(h) ==
    LET p == task[h].player
    IN  /\ status = "recruiting" /\ members[p] # NoSeat
        /\ members[p].ticket = task[h].got.ticket
        /\ members[p].connected = task[h].got.connected

SeatsHeld == \A h \in Tasks : task[h] # Idle /\ task[h].pc \in Reads => SameSeat(h)

(* A join that will pass its second check joins somebody who is still there,
   or whose close will find the seat. *)
JoinsCovered ==
    \A h \in Tasks : LET p == task[h].player IN
        /\ Joining(h) /\ status = "recruiting"
        /\ members[p] # NoSeat /\ members[p].ticket = task[h].got.ticket
        => Covered(p)

Connected(p) == members[p] # NoSeat /\ members[p].connected

NoGhosts == \A p \in Players : Connected(p) => Covered(p)

(* A room that was closed has nobody connected, and is never open again. *)
ClosedIsEmpty ==
    /\ status = "closed" => \A p \in Players : ~Connected(p)
    /\ closing # {} => room = "closed" /\ \A p \in Players : ~Connected(p)
    /\ status = "none" => \A p \in Players : members[p] = NoSeat

Ghostless == SeatsHeld /\ JoinsCovered /\ NoGhosts /\ ClosedIsEmpty

SeatInv == RoomInv /\ Typed /\ (Total = 0 => Ghostless)

-----------------------------------------------------------------------------
(* What a step may do to a seat and to its cover. *)

Gone(p) == members'[p] = NoSeat \/ (~members'[p].connected /\ status' # "recruiting")

SeatKept(p) ==
    members'[p] # NoSeat =>
        \/ /\ members[p] # NoSeat /\ members'[p].ticket = members[p].ticket
           /\ members'[p].connected => members[p].connected \/ Covered(p)
        \/ /\ ~members'[p].connected
           /\ \A h \in Known(p)' : task'[h].got.ticket # members'[p].ticket

SeatsKept ==
    /\ \A p \in Players : SeatKept(p) /\ (Covered(p) => Covered(p)' \/ Gone(p))
    /\ status' = "recruiting" => status = "recruiting" \/ \A p \in Players : members'[p] = NoSeat

GoesOnJoining(h) ==
    /\ Joining(h) /\ task'[h].player = task[h].player
    /\ task'[h].got.ticket = task[h].got.ticket

LEMMA CoverKeeps ==
  ASSUME Typed', JoinsCovered, NoGhosts, SeatsKept,
         \A h \in Tasks : Joining(h)' => GoesOnJoining(h) \/ Covered(task[h].player)'
  PROVE  JoinsCovered' /\ NoGhosts'
<1>1. NoGhosts'
  <2> SUFFICES ASSUME NEW p \in Players, Connected(p)' PROVE Covered(p)'
    BY DEF NoGhosts
  <2>1. Covered(p)
    BY DEF SeatsKept, SeatKept, Connected, NoGhosts
  <2> QED
    BY <2>1 DEF SeatsKept, Gone, Connected
<1>2. JoinsCovered'
  <2> SUFFICES ASSUME NEW h \in Tasks, Joining(h)', status' = "recruiting",
                      members'[task'[h].player] # NoSeat,
                      members'[task'[h].player].ticket = task'[h].got.ticket
               PROVE  Covered(task[h].player)'
    BY DEF JoinsCovered
  <2>1. CASE GoesOnJoining(h)
    <3>1. PICK p \in Players : p = task'[h].player
      BY DEF Typed, Crew, Task, Joining, Is
    <3>2. task[h].player = p /\ status = "recruiting"
      BY <2>1, <3>1 DEF GoesOnJoining, SeatsKept
    <3>3. h \in Known(p)'
      BY <3>1 DEF Known, Joining, Is
    <3>4. members[p] # NoSeat /\ members'[p].ticket = members[p].ticket
      BY <3>1, <3>3 DEF SeatsKept, SeatKept
    <3>5. Covered(p)
      BY <2>1, <3>1, <3>2, <3>4 DEF GoesOnJoining, JoinsCovered
    <3>6. Covered(p)'
      BY <3>1, <3>5 DEF SeatsKept, Gone
    <3> QED
      BY <3>1, <3>6 DEF Covered, CloseDue
  <2> QED
    BY <2>1
<1> QED
  BY <1>1, <1>2

(* While nothing has failed a step that spends a failure is none. *)
LEMMA NothingSpent ==
  ASSUME Typed, NEW sort \in Sorts, spent' = [spent EXCEPT ![sort] = @ + 1]
  PROVE  Total' # 0
BY DEF Typed, Store, Total, Sorts

LEMMA CleanStep ==
  ASSUME Typed, Total' = 0, Spends
  PROVE  Sound /\ Total = 0 /\ ~Lossy /\ ~Faulty
<1>1. \A sort \in Sorts : ~Spend(sort)
  BY NothingSpent DEF Spend
<1> QED
  BY <1>1, SortNames DEF Spends, Sound, Total, Lossy, Faulty

LEMMA CleanFacts ==
  ASSUME SeatInv, Total = 0
  PROVE  /\ Ghostless /\ Calm /\ LockInv /\ Programs /\ Typed /\ Crew
         /\ lapsed = {} /\ ~Damaged
BY DEF SeatInv, RoomInv, Calm, Damaged, Total, Typed, Store, Sorts

LEMMA ClosedIsClosed ==
  ASSUME SeatInv, Total = 0, room = "closed"
  PROVE  status # "recruiting"
<1>1. LockInv /\ Calm /\ StatusFits
  BY CleanFacts DEF Calm
<1>2. CASE Working = {}
  BY <1>1, <1>2 DEF StatusFits, Agree
<1>3. ASSUME NEW h \in Working PROVE status # "recruiting"
  BY <1>1 DEF StatusFits, Fits, Between, Agree
<1> QED
  BY <1>2, <1>3

-----------------------------------------------------------------------------
(* Steps of one handler. *)

LEMMA HandlerCovers ==
  ASSUME SeatInv, Total = 0, Typed', NEW h \in Tasks, Others(h), sockets \subseteq sockets',
         Is(h, "close") => \/ Is(h, "close")' /\ task'[h].player = task[h].player
                           \/ Gone(task[h].player),
         Joining(h)' => GoesOnJoining(h) \/ Covered(task[h].player)',
         \A p \in Players : SeatKept(p),
         status' = "recruiting" => status = "recruiting" \/ \A p \in Players : members'[p] = NoSeat
  PROVE  JoinsCovered' /\ NoGhosts'
<1>1. ASSUME NEW p \in Players, Covered(p) PROVE Covered(p)' \/ Gone(p)
  <2>1. CASE \E i \in Instances : <<i, p>> \in sockets
    BY <2>1 DEF Covered
  <2>2. ASSUME NEW o \in Tasks, Is(o, "close"), task[o].player = p PROVE Covered(p)' \/ Gone(p)
    <3>1. CASE o # h
      BY <2>2, <3>1 DEF Others, Is, Covered, CloseDue
    <3>2. CASE o = h /\ Is(h, "close")' /\ task'[h].player = task[h].player
      BY <2>2, <3>2 DEF Is, Covered, CloseDue
    <3>3. CASE o = h /\ Gone(task[h].player)
      BY <2>2, <3>3
    <3> QED
      BY <2>2, <3>1, <3>2, <3>3
  <2> QED
    BY <1>1, <2>1, <2>2 DEF Covered, CloseDue, Is
<1>2. SeatsKept
  BY <1>1 DEF SeatsKept
<1>3. \A o \in Tasks : Joining(o)' => GoesOnJoining(o) \/ Covered(task[o].player)'
  BY DEF Others, Joining, Is, GoesOnJoining
<1>4. JoinsCovered /\ NoGhosts
  BY CleanFacts DEF Ghostless
<1> QED
  BY <1>2, <1>3, <1>4, CoverKeeps

LEMMA HeldByWorker ==
  ASSUME SeatInv, Total = 0, NEW h \in Working, Others(h),
         task'[h] # Idle /\ task'[h].pc \in Reads => SameSeat(h)'
  PROVE  SeatsHeld'
<1> SUFFICES ASSUME NEW o \in Tasks, o # h, task'[o] # Idle, task'[o].pc \in Reads PROVE FALSE
  BY DEF SeatsHeld
<1>1. o \in Working
  BY DEF Others, Working, Reads
<1> QED
  BY <1>1, CleanFacts, OneWorker

LEMMA HeldByOthers ==
  ASSUME SeatInv, Total = 0, NEW h \in Tasks, Others(h), UNCHANGED <<status, members>>,
         task'[h] # Idle => task'[h].pc \notin Reads
  PROVE  SeatsHeld'
<1> SUFFICES ASSUME NEW o \in Tasks, o # h, task'[o] # Idle, task'[o].pc \in Reads PROVE SameSeat(o)'
  BY DEF SeatsHeld
<1>1. SameSeat(o) /\ task'[o] = task[o]
  BY CleanFacts DEF Others, Ghostless, SeatsHeld
<1> QED
  BY <1>1 DEF SameSeat

LEMMA EmptyKept ==
  ASSUME SeatInv, Total = 0, UNCHANGED <<status, closing>>, room' = room \/ room' = "closed",
         \A p \in Players : /\ Connected(p)' => Connected(p)
                            /\ members[p] = NoSeat => members'[p] = NoSeat
  PROVE  ClosedIsEmpty'
BY CleanFacts DEF Ghostless, ClosedIsEmpty

(* In an open room nothing is left of a close. *)
LEMMA OpenHasNoClose ==
  ASSUME SeatInv, Total = 0, NEW h \in Working, task[h].pc \notin Between, status = "recruiting"
  PROVE  closing = {} /\ room = "recruiting"
BY CleanFacts, WorkerAgrees DEF Ghostless, ClosedIsEmpty, Agree

LEMMA OpenKept ==
  ASSUME SeatInv, Total = 0, NEW h \in Working, task[h].pc \notin Between, status = "recruiting",
         UNCHANGED <<status, closing>>
  PROVE  ClosedIsEmpty'
BY OpenHasNoClose DEF ClosedIsEmpty

LEMMA SameSeats ==
  ASSUME UNCHANGED members
  PROVE  \A p \in Players : SeatKept(p)
BY DEF SeatKept

(* A handler at work that leaves the seats and the statuses as they are. *)
LEMMA IdleWork ==
  ASSUME SeatInv, Total = 0, Typed', NEW h \in Working, Others(h),
         task'[h] = Idle \/ task'[h].got = NoSeat,
         Is(h, "close") => \/ Is(h, "close")' /\ task'[h].player = task[h].player
                           \/ Gone(task[h].player),
         task'[h] # Idle => task'[h].pc \notin Reads,
         UNCHANGED <<status, members, closing, sockets>>, room' = room \/ room' = "closed"
  PROVE  Ghostless'
<1>1. h \in Tasks
  BY DEF Working
<1>2. SeatsHeld'
  BY <1>1, HeldByOthers
<1>3. JoinsCovered' /\ NoGhosts'
  BY <1>1, SameSeats, HandlerCovers DEF Joining, Is
<1>4. ClosedIsEmpty'
  BY EmptyKept DEF Connected
<1> QED
  BY <1>2, <1>3, <1>4 DEF Ghostless

(* A slot that gets a handler, or one that takes the lock. *)
LEMMA BystanderSeats ==
  ASSUME SeatInv, Total = 0, Typed', NEW h \in Tasks, Others(h), sockets \subseteq sockets',
         Is(h, "close") => Is(h, "close")' /\ task'[h].player = task[h].player,
         Joining(h)' => GoesOnJoining(h) \/ Covered(task[h].player)',
         task'[h] # Idle => task'[h].pc \notin Reads,
         UNCHANGED <<status, room, members, closing>>
  PROVE  Ghostless'
<1>1. SeatsHeld'
  BY HeldByOthers
<1>2. JoinsCovered' /\ NoGhosts'
  BY SameSeats, HandlerCovers
<1>3. ClosedIsEmpty'
  BY EmptyKept DEF Connected
<1> QED
  BY <1>1, <1>2, <1>3 DEF Ghostless

LEMMA StartsSeats ==
  ASSUME SeatInv, Total = 0, Typed', NEW h \in Tasks, NEW i \in Instances,
         Start(h, i) \/ ClaimAlarm(h, i)
  PROVE  Ghostless'
<1> USE DEF Idles, redis, Kinds, Reads
<1>0. Host \in Players /\ Typed
  BY DEF Players, SeatInv
<1>1. ASSUME NEW kind \in Kinds, NEW p \in Players, task[h] = Idle, Begin(h, kind, i, p), UNCHANGED lapsed,
             kind = "connect" => members[p] # NoSeat,
             kind = "connect" => <<i, p>> \in sockets',
             sockets \subseteq sockets', UNCHANGED <<status, room, members, closing>>
      PROVE  Ghostless'
  <2>1. /\ Others(h) /\ task'[h] # Idle
        /\ task'[h].kind = kind /\ task'[h].pc = "wait" /\ task'[h].player = p
        /\ kind # "connect" => task'[h].got = NoSeat
    BY <1>0, <1>1, BeginTyped
  <2>2. Joining(h)' => Covered(task[h].player)'
    BY <1>1, <2>1 DEF Joining, Is, Covered
  <2> QED
    BY <1>1, <2>1, <2>2, BystanderSeats DEF Is
<1>2. CASE Create(h, i) \/ StartForceClose(h, i) \/ ClaimAlarm(h, i)
  BY <1>0, <1>1, <1>2 DEF Create, StartForceClose, ClaimAlarm
<1>3. ASSUME NEW p \in Players, StartReserve(h, i, p) \/ StartMessage(h, i, p) \/ StartConnect(h, i, p)
      PROVE  Ghostless'
  BY <1>0, <1>1, <1>3 DEF StartReserve, StartMessage, StartConnect
<1> QED
  BY <1>2, <1>3 DEF Start

LEMMA SocketClosesSeats ==
  ASSUME SeatInv, Total = 0, Typed', NEW h \in Tasks, NEW s \in sockets, SocketCloses(h, s[1], s[2])
  PROVE  Ghostless'
<1>1. s[1] \in Instances /\ s[2] \in Players /\ Typed /\ s = <<s[1], s[2]>>
  BY DEF SeatInv, Typed, Store
<1>2. /\ Others(h) /\ task[h] = Idle /\ task'[h] # Idle
      /\ task'[h].kind = "close" /\ task'[h].pc = "wait" /\ task'[h].player = s[2]
      /\ sockets' = sockets \ {s} /\ UNCHANGED <<status, room, members, closing>>
  BY <1>1, BeginTyped DEF SocketCloses, Idles, redis, Kinds
<1>3. ASSUME NEW p \in Players, Covered(p) PROVE Covered(p)'
  <2>1. CASE p = s[2]
    BY <1>2, <2>1 DEF Covered, CloseDue
  <2>2. CASE p # s[2]
    <3>1. ASSUME NEW i \in Instances, <<i, p>> \in sockets PROVE <<i, p>> \in sockets'
      BY <1>1, <1>2, <2>2, <3>1
    <3> QED
      BY <1>2, <1>3, <3>1 DEF Covered, CloseDue, Others
  <2> QED
    BY <2>1, <2>2
<1>4. SeatsKept
  BY <1>2, <1>3, SameSeats DEF SeatsKept
<1>5. \A o \in Tasks : Joining(o)' => GoesOnJoining(o)
  BY <1>2 DEF Joining, Is, GoesOnJoining, Others
<1>6. JoinsCovered' /\ NoGhosts'
  BY <1>4, <1>5, CleanFacts, CoverKeeps DEF Ghostless
<1>7. SeatsHeld' /\ ClosedIsEmpty'
  BY <1>2, HeldByOthers, EmptyKept DEF Connected, Reads
<1> QED
  BY <1>6, <1>7 DEF Ghostless

LEMMA AcquireSeats ==
  ASSUME SeatInv, Total = 0, Typed', NEW h \in Tasks, Acquire(h)
  PROVE  Ghostless'
<1>1. GoesOn(h, task[h].kind, task[h].kind, task[h].got)
  BY CleanFacts, AcquireTyped
<1>2. task[h].kind \notin Reads
  BY CleanFacts DEF Acquire, Crew, Task, Kinds, Reads
<1>3. Joining(h)' => GoesOnJoining(h)
  BY <1>1 DEF Acquire, GoesOn, Joining, Is, GoesOnJoining
<1> QED
  BY <1>1, <1>2, <1>3, BystanderSeats DEF Acquire, GoesOn, Is, redis

-----------------------------------------------------------------------------
(* The handlers at work. *)

LEMMA WorkerFacts ==
  ASSUME SeatInv, Total = 0, NEW h \in Tasks, NEW pc, pc # "wait", At(h, pc)
  PROVE  /\ h \in Working /\ task[h] # Idle /\ task[h].pc = pc /\ task[h] \in Task
         /\ task[h].kind \in Kinds /\ task[h].player \in Players /\ Pcs(task[h])
         /\ pc \in Reads \cup {"connect"} => task[h].got \in Seat
         /\ pc \in Reads => SameSeat(h)
         /\ pc \notin Between => Agree
         /\ Typed /\ Crew /\ Ghostless /\ RoomInv
<1>1. Typed /\ Crew /\ Ghostless /\ Programs /\ Calm /\ RoomInv
  BY CleanFacts DEF SeatInv
<1>2. h \in Working /\ task[h] # Idle /\ task[h].pc = pc
  BY DEF At, Working
<1> QED
  BY <1>1, <1>2, HandlerFacts, WorkerAgrees DEF Ghostless, SeatsHeld, Programs, Program

LEMMA FinishIdle ==
  ASSUME SeatInv, Total = 0, Typed', NEW h \in Tasks, NEW pc, pc # "wait", At(h, pc), Finish(h),
         Is(h, "close") => Gone(task[h].player),
         UNCHANGED <<status, members, closing, sockets>>, room' = room \/ room' = "closed"
  PROVE  Ghostless'
<1>1. Others(h) /\ task'[h] = Idle /\ h \in Working
  BY WorkerFacts, FinishTyped
<1> QED
  BY <1>1, IdleWork

LEMMA GotoIdle ==
  ASSUME SeatInv, Total = 0, Typed', NEW h \in Tasks, NEW pc, pc # "wait", At(h, pc),
         NEW next \in Later, Goto(h, next),
         UNCHANGED <<status, members, closing, sockets>>, room' = room \/ room' = "closed"
  PROVE  Ghostless'
<1>1. GoesOn(h, task[h].kind, next, NoSeat) /\ h \in Working
  BY WorkerFacts, GotoTyped
<1> QED
  BY <1>1, IdleWork DEF GoesOn, Is, Later

(* A room that is not open has nobody for whom a close could be due. *)
LEMMA NotOpenGone ==
  ASSUME SeatInv, Total = 0, Agree, status # "recruiting", UNCHANGED <<status, members>>
  PROVE  \A p \in Players : Gone(p)
<1>1. status \in {"none", "closed"} /\ ClosedIsEmpty
  BY CleanFacts DEF Agree, Typed, Store, Ghostless
<1> QED
  BY <1>1 DEF ClosedIsEmpty, Connected, Gone

LEMMA CreationSeats ==
  ASSUME SeatInv, Total = 0, Total' = 0, Typed', NEW h \in Tasks,
         InsertMeta(h) \/ CreateRoom(h) \/ FirstAlarm(h) \/ ReserveSeat(h)
  PROVE  Ghostless'
<1> USE SpendingKinds
<1>0. /\ {"createRoom", "firstAlarm", "reserveSeat"} \subseteq Later
      /\ "reserve" \in Kinds \ {"connect"} /\ Typed
  BY DEF Later, Places, Reads, Kinds, SeatInv
<1>1. CASE InsertMeta(h)
  <2>1. At(h, "initialize") /\ Goto(h, "createRoom") /\ status' = "recruiting"
        /\ UNCHANGED <<members, closing, room, sockets>>
    BY <1>1 DEF InsertMeta
  <2>2. h \in Working /\ task[h] # Idle /\ task[h].kind = "initialize" /\ Calm /\ Ghostless /\ Crew
    BY <2>1, WorkerFacts, CleanFacts DEF Pcs, Kinds
  <2>3. status = "none" /\ room = "absent"
    BY <2>1, <2>2 DEF Calm, OneCreation, Is, At
  <2>4. GoesOn(h, "initialize", "createRoom", NoSeat)
    BY <1>0, <2>1, <2>2, GotoTyped
  <2>5. \A p \in Players : members'[p] = NoSeat
    BY <2>1, <2>2, <2>3 DEF Ghostless, ClosedIsEmpty
  <2>6. SeatsHeld'
    BY <2>2, <2>4, HeldByWorker DEF GoesOn, Reads
  <2>7. JoinsCovered' /\ NoGhosts'
    BY <2>1, <2>2, <2>4, <2>5, SameSeats, HandlerCovers DEF GoesOn, Joining, Is
  <2>8. ClosedIsEmpty'
    BY <2>1, <2>2, <2>3 DEF Ghostless, ClosedIsEmpty
  <2> QED
    BY <2>6, <2>7, <2>8 DEF Ghostless
<1>2. CASE CreateRoom(h)
  <2>1. At(h, "createRoom") /\ Goto(h, "firstAlarm") /\ room' = "recruiting"
        /\ UNCHANGED <<status, members, closing, sockets>>
    BY <1>0, <1>2, CleanStep DEF CreateRoom
  <2>2. h \in Working /\ task[h] # Idle /\ task[h].pc = "createRoom" /\ task[h].kind = "initialize"
        /\ Calm /\ Ghostless /\ Crew
    BY <2>1, WorkerFacts, CleanFacts DEF Pcs, Kinds
  <2>3. status = "recruiting" /\ room = "absent"
    BY <2>2 DEF Calm, StatusFits, Fits
  <2>4. GoesOn(h, "initialize", "firstAlarm", NoSeat)
    BY <1>0, <2>1, <2>2, GotoTyped
  <2>6. SeatsHeld'
    BY <2>2, <2>4, HeldByWorker DEF GoesOn, Reads
  <2>7. JoinsCovered' /\ NoGhosts'
    BY <2>1, <2>2, <2>4, SameSeats, HandlerCovers DEF GoesOn, Joining, Is
  <2>8. ClosedIsEmpty'
    BY <2>1, <2>2, <2>3 DEF Ghostless, ClosedIsEmpty
  <2> QED
    BY <2>6, <2>7, <2>8 DEF Ghostless
<1>3. CASE FirstAlarm(h)
  <2>1. At(h, "firstAlarm") /\ Then(h, "reserve") /\ UNCHANGED <<status, members, closing, sockets, room>>
    BY <1>3 DEF FirstAlarm
  <2>2. h \in Working /\ task[h] # Idle /\ task[h].kind = "initialize" /\ Crew
    BY <2>1, WorkerFacts DEF Pcs, Kinds
  <2>3. GoesOn(h, "reserve", "wait", NoSeat)
    BY <1>0, <2>1, <2>2, ThenTyped
  <2> QED
    BY <2>1, <2>2, <2>3, IdleWork DEF GoesOn, Is, Reads
<1>4. CASE ReserveSeat(h)
  <2>1. At(h, "reserveSeat") /\ Finish(h) /\ UNCHANGED <<status, members, closing, sockets, room>>
    BY <1>0, <1>4, CleanStep DEF ReserveSeat
  <2>2. ~Is(h, "close")
    BY <2>1, WorkerFacts DEF Pcs, Is
  <2> QED
    BY <2>1, <2>2, FinishIdle
<1> QED
  BY <1>1, <1>2, <1>3, <1>4

(* A new reservation bears an id that no join under way was admitted with. *)
LEMMA InsertMemberSeats ==
  ASSUME SeatInv, Total = 0, Typed', NEW h \in Tasks, InsertMember(h)
  PROVE  Ghostless'
<1> DEFINE p == task[h].player
           t == NewTicket(p)
<1>0. "reserveSeat" \in Later
  BY DEF Later, Places, Reads
<1>1. At(h, "reserve") /\ UNCHANGED <<status, closing, room, sockets>>
  BY DEF InsertMember
<1>2. /\ h \in Working /\ task[h] # Idle /\ task[h].pc = "reserve" /\ task[h].kind = "reserve"
      /\ p \in Players /\ Crew /\ Typed
  BY <1>1, WorkerFacts DEF Pcs, Kinds
<1>3. /\ Others(h) /\ (task'[h] # Idle => task'[h].got = NoSeat /\ task'[h].pc \notin Reads)
  <2>1. CASE Fail(h)
    BY <1>2, <2>1, FailTyped, ThenTyped, FinishTyped DEF Fail, GoesOn, Reads, Kinds
  <2>2. CASE Goto(h, "reserveSeat")
    BY <1>0, <1>2, <2>2, GotoTyped DEF GoesOn, Reads
  <2>3. CASE Finish(h)
    BY <1>2, <2>3, FinishTyped
  <2> QED
    BY <2>1, <2>2, <2>3 DEF InsertMember
<1>4. CASE UNCHANGED members
  BY <1>1, <1>2, <1>3, <1>4, IdleWork DEF Is
<1>5. CASE /\ status = "recruiting"
           /\ members' = [members EXCEPT ![p] = [ticket |-> t, connected |-> FALSE, stale |-> FALSE]]
  <2>1. \A o \in Known(p) : task[o].got.ticket # t
    BY <1>2, TicketIsNew
  <2>3. ASSUME NEW q \in Players PROVE SeatKept(q)
    <3>1. CASE q # p
      BY <1>2, <1>5, <3>1 DEF SeatKept, Typed, Store
    <3>2. CASE q = p
      <4>1. members'[q].ticket = t /\ ~members'[q].connected
        BY <1>2, <1>5, <3>2 DEF Typed, Store
      <4>2. \A o \in Known(q)' : o \in Known(p) /\ task'[o] = task[o]
        BY <1>3, <3>2 DEF Known, Others
      <4> HIDE DEF t
      <4> QED
        BY <2>1, <4>1, <4>2 DEF SeatKept
    <3> QED
      BY <3>1, <3>2
  <2>4. SeatsHeld'
    BY <1>2, <1>3, HeldByWorker
  <2>5. JoinsCovered' /\ NoGhosts'
    BY <1>1, <1>2, <1>3, <2>3, HandlerCovers DEF Joining, Is
  <2>6. ClosedIsEmpty'
    BY <1>1, <1>2, <1>5, OpenKept DEF Between
  <2> QED
    BY <2>4, <2>5, <2>6 DEF Ghostless
<1> QED
  BY <1>4, <1>5 DEF InsertMember
(* A handler at work that leaves the statuses and the sockets as they are, in an
   open room. *)
LEMMA SeatWork ==
  ASSUME SeatInv, Total = 0, Typed', NEW h \in Working, task[h].pc \notin Between,
         status = "recruiting", Others(h),
         task'[h] # Idle /\ task'[h].pc \in Reads => SameSeat(h)',
         Is(h, "close") => \/ Is(h, "close")' /\ task'[h].player = task[h].player
                           \/ Gone(task[h].player),
         Joining(h)' => GoesOnJoining(h) \/ Covered(task[h].player)',
         \A p \in Players : SeatKept(p),
         UNCHANGED <<status, closing, sockets>>
  PROVE  Ghostless'
<1>1. h \in Tasks
  BY DEF Working
<1> QED
  BY <1>1, HeldByWorker, HandlerCovers, OpenKept DEF Ghostless

(* A handler reads the seat it is about. *)
LEMMA ReadSeats ==
  ASSUME SeatInv, Total = 0, Typed', NEW h \in Working, task[h].pc \notin Between,
         NEW pc \in Reads, ReadMember(h, pc), status = "recruiting",
         members[task[h].player] # NoSeat,
         Is(h, "connect") => Joining(h) /\ members[task[h].player].ticket = task[h].got.ticket,
         UNCHANGED <<redis, closing, room, sockets, spent>>
  PROVE  Ghostless'
<1> DEFINE p == task[h].player
<1>1. task[h] \in Task /\ task[h] # Idle /\ h \in Tasks /\ Crew /\ p \in Players
  BY CleanFacts DEF Crew, Working, Task
<1>2. members[p] \in Seat
  BY <1>1, CleanFacts DEF Typed, Store
<1>3. GoesOn(h, task[h].kind, pc, members[p])
  BY <1>1, <1>2, ReadMemberTyped
<1>4. SameSeat(h)'
  BY <1>2, <1>3 DEF GoesOn, SameSeat, redis
<1>5. Joining(h)' => GoesOnJoining(h)
  BY <1>1, <1>3 DEF GoesOn, Joining, Is, GoesOnJoining
<1>6. Is(h, "close") => Is(h, "close")' /\ task'[h].player = task[h].player
  BY <1>3 DEF GoesOn, Is
<1>7. \A q \in Players : SeatKept(q)
  BY SameSeats DEF redis
<1> QED
  BY <1>3, <1>4, <1>5, <1>6, <1>7, SeatWork DEF GoesOn, redis

LEMMA ReadingSeats ==
  ASSUME SeatInv, Total = 0, Typed', NEW h \in Tasks, Revalidate(h) \/ ReadyRead(h) \/ Leave(h)
  PROVE  Ghostless'
<1> USE DEF Between, Reads, redis
<1>1. CASE Revalidate(h)
  <2>1. At(h, "connect")
    BY <1>1 DEF Revalidate
  <2>2. h \in Working /\ task[h].pc = "connect" /\ ~Is(h, "close") /\ task[h].got # NoSeat
        /\ (Is(h, "connect") => Joining(h))
    BY <2>1, WorkerFacts, RedisAssumption DEF Pcs, Is, Joining
  <2>3. CASE Finish(h)
    BY <1>1, <2>1, <2>2, <2>3, FinishIdle DEF Revalidate
  <2> QED
    BY <1>1, <2>2, <2>3, ReadSeats DEF Revalidate
<1>2. CASE ReadyRead(h)
  <2>1. At(h, "message")
    BY <1>2 DEF ReadyRead
  <2>2. h \in Working /\ task[h].pc = "message" /\ ~Is(h, "close") /\ ~Is(h, "connect")
    BY <2>1, WorkerFacts DEF Pcs, Is
  <2>3. CASE Finish(h)
    BY <1>2, <2>1, <2>2, <2>3, FinishIdle DEF ReadyRead
  <2> QED
    BY <1>2, <2>2, <2>3, ReadSeats DEF ReadyRead
<1>3. CASE Leave(h)
  <2>1. At(h, "close")
    BY <1>3 DEF Leave
  <2>2. h \in Working /\ task[h].pc = "close" /\ ~Is(h, "connect") /\ Agree
        /\ task[h].player \in Players
    BY <2>1, WorkerFacts DEF Pcs, Is
  <2>3. CASE Finish(h)
    <3>1. Gone(task[h].player)
      <4>1. CASE status # "recruiting"
        BY <1>3, <2>2, <4>1, NotOpenGone DEF Leave
      <4>2. CASE members[task[h].player] = NoSeat
        BY <1>3, <4>2 DEF Leave, Gone
      <4>3. CASE status = "recruiting" /\ members[task[h].player] # NoSeat
        <5>1. ReadMember(h, "markDisconnected") /\ task[h] # Idle /\ task[h] \in Task
          BY <1>3, <2>1, <4>3, WorkerFacts DEF Leave
        <5>2. task'[h] # Idle
          BY <1>3, <2>1, <2>2, <5>1, ReadMemberTyped, CleanFacts, <4>3 DEF GoesOn, Typed, Store
        <5> QED
          BY <2>1, <2>3, <5>2, WorkerFacts, FinishTyped
      <4> QED
        BY <4>1, <4>2, <4>3
    <3> QED
      BY <1>3, <2>1, <3>1, <2>3, FinishIdle DEF Leave
  <2> QED
    BY <1>3, <2>2, <2>3, ReadSeats DEF Leave
<1> QED
  BY <1>1, <1>2, <1>3
(* What is written back is the seat that was read. *)
LEMMA WrittenBack ==
  ASSUME SeatInv, Total = 0, NEW h \in Tasks, NEW pc \in Reads, At(h, pc), pc # "wait",
         NEW c \in BOOLEAN, NEW a, WriteBack(h, c, a),
         Covered(task[h].player) \/ c = FALSE \/ c = task[h].got.connected
  PROVE  /\ status = "recruiting" /\ h \in Working /\ task[h].pc = pc /\ pc \notin Between
         /\ task[h].player \in Players
         /\ members'[task[h].player].connected = c
         /\ \A q \in Players : SeatKept(q)
<1> DEFINE p == task[h].player
<1>1. /\ SameSeat(h) /\ h \in Working /\ task[h].pc = pc /\ p \in Players /\ Typed
  BY WorkerFacts
<1>2. pc \notin Between
  BY DEF Reads, Between
<1>3. members'[p] = [ticket |-> task[h].got.ticket, connected |-> c, stale |-> a]
      /\ \A q \in Players \ {p} : members'[q] = members[q]
  BY <1>1 DEF WriteBack, Typed, Store
<1>4. SeatKept(p)
  BY <1>1, <1>3 DEF SameSeat, SeatKept
<1>5. \A q \in Players \ {p} : SeatKept(q)
  BY <1>3 DEF SeatKept
<1> QED
  BY <1>1, <1>2, <1>3, <1>4, <1>5 DEF SameSeat

LEMMA WritingSeats ==
  ASSUME SeatInv, Total = 0, Typed', NEW h \in Tasks,
         MarkConnected(h) \/ UpdateReady(h) \/ LeaveSeat(h)
  PROVE  Ghostless'
<1>0. {"persistConnected", "forceClose", "removeMember"} \subseteq Later
      /\ {"markConnected", "updateReady", "markDisconnected"} \subseteq Reads
      /\ \A pc \in Later : pc \notin Reads
  BY DEF Later, Places, Reads, Kinds
<1>1. CASE MarkConnected(h)
  <2>1. At(h, "markConnected") /\ WriteBack(h, TRUE, task[h].got.stale) /\ Goto(h, "persistConnected")
        /\ UNCHANGED <<status, closing, sockets>>
    BY <1>1 DEF MarkConnected
  <2>2. task[h].kind = "connect" /\ task[h] # Idle /\ task[h].got # NoSeat /\ SameSeat(h) /\ Crew
        /\ JoinsCovered
    BY <1>0, <2>1, WorkerFacts, RedisAssumption DEF Pcs, Kinds, Ghostless
  <2>3. Covered(task[h].player)
    BY <2>2 DEF JoinsCovered, Joining, Is, SameSeat
  <2>4. /\ status = "recruiting" /\ h \in Working /\ task[h].pc \notin Between
        /\ \A q \in Players : SeatKept(q)
    BY <1>0, <2>1, <2>3, WrittenBack
  <2>5. GoesOn(h, "connect", "persistConnected", NoSeat)
    BY <1>0, <2>1, <2>2, GotoTyped
  <2>6. ~Is(h, "close") /\ ~Joining(h)' /\ Others(h) /\ task'[h].pc \notin Reads
    BY <1>0, <2>2, <2>5 DEF GoesOn, Is, Joining
  <2> QED
    BY <2>1, <2>4, <2>6, SeatWork
<1>2. CASE UpdateReady(h)
  <2>1. At(h, "updateReady") /\ WriteBack(h, task[h].got.connected, task[h].got.stale) /\ Finish(h)
        /\ UNCHANGED <<status, closing, sockets>>
    BY <1>2 DEF UpdateReady
  <2>2. task[h].kind = "message" /\ task[h] # Idle /\ Crew
    BY <1>0, <2>1, WorkerFacts DEF Pcs, Kinds
  <2> DEFINE c == task[h].got.connected
  <2>6. c \in BOOLEAN /\ WriteBack(h, c, task[h].got.stale) /\ c = task[h].got.connected
    BY <1>0, <2>1, GotFlags, CleanFacts
  <2> HIDE DEF c
  <2>3. /\ status = "recruiting" /\ h \in Working /\ task[h].pc \notin Between
        /\ \A q \in Players : SeatKept(q)
    BY <1>0, <2>1, <2>6, WrittenBack
  <2>4. task'[h] = Idle /\ Others(h)
    BY <2>1, <2>2, FinishTyped
  <2>5. ~Is(h, "close") /\ ~Joining(h)'
    BY <2>2, <2>4 DEF Is, Joining
  <2> QED
    BY <2>1, <2>3, <2>4, <2>5, SeatWork
<1>3. CASE LeaveSeat(h)
  <2>1. At(h, "markDisconnected") /\ WriteBack(h, FALSE, TRUE)
        /\ (Goto(h, "forceClose") \/ Goto(h, "removeMember"))
        /\ UNCHANGED <<status, closing, sockets>>
    BY <1>3 DEF LeaveSeat
  <2>2. task[h].kind = "close" /\ task[h] # Idle /\ Crew
    BY <1>0, <2>1, WorkerFacts DEF Pcs, Kinds
  <2>3. /\ status = "recruiting" /\ h \in Working /\ task[h].pc \notin Between
        /\ \A q \in Players : SeatKept(q)
    BY <1>0, <2>1, WrittenBack
  <2>4. GoesOn(h, "close", "forceClose", NoSeat) \/ GoesOn(h, "close", "removeMember", NoSeat)
    BY <1>0, <2>1, <2>2, GotoTyped
  <2>5. /\ Is(h, "close")' /\ task'[h].player = task[h].player /\ ~Joining(h)' /\ Others(h)
        /\ task'[h].pc \notin Reads
    BY <1>0, <2>4 DEF GoesOn, Is, Joining
  <2> QED
    BY <2>1, <2>3, <2>5, SeatWork
<1> QED
  BY <1>1, <1>2, <1>3

LEMMA LastWriteSeats ==
  ASSUME SeatInv, Total = 0, Total' = 0, Typed', NEW h \in Tasks,
         PersistConnected(h) \/ RemoveMember(h)
  PROVE  Ghostless'
<1> USE SpendingKinds
<1>1. CASE PersistConnected(h)
  <2>1. At(h, "persistConnected") /\ UNCHANGED <<status, room>>
    BY <1>1 DEF PersistConnected
  <2>2. ~Is(h, "close") /\ Typed
    BY <2>1, WorkerFacts DEF Pcs, Is
  <2>3. Finish(h) /\ UNCHANGED <<members, sockets, closing>>
    BY <1>1, <2>2, SortNames, NothingSpent DEF PersistConnected
  <2> QED
    BY <2>1, <2>2, <2>3, FinishIdle
<1>2. CASE RemoveMember(h)
  <2>1. At(h, "removeMember") /\ Finish(h) /\ UNCHANGED <<status, closing, sockets, room>>
    BY <1>2 DEF RemoveMember
  <2>2. h \in Working /\ task[h].pc = "removeMember" /\ Typed /\ task[h].player \in Players /\ Agree
        /\ ~Is(h, "connect")
    BY <2>1, WorkerFacts DEF Pcs, Is, Between
  <2>3. members' = [members EXCEPT ![task[h].player] = NoSeat]
    BY <1>2, <2>2, CleanStep DEF RemoveMember
  <2>4. members'[task[h].player] = NoSeat
        /\ \A q \in Players \ {task[h].player} : members'[q] = members[q]
    BY <2>2, <2>3 DEF Typed, Store
  <2>5. task'[h] = Idle /\ Others(h) /\ h \in Tasks
    BY <2>1, <2>2, FinishTyped DEF Typed
  <2>6. SeatsHeld'
    BY <2>2, <2>5, HeldByWorker
  <2>7. JoinsCovered' /\ NoGhosts'
    <3>1. \A q \in Players : SeatKept(q)
      BY <2>4 DEF SeatKept
    <3>2. Gone(task[h].player) /\ ~Joining(h)'
      BY <2>4, <2>5 DEF Gone, Joining, Is
    <3> QED
      BY <2>1, <2>5, <3>1, <3>2, HandlerCovers
  <2>8. ClosedIsEmpty'
    BY <2>1, <2>2, <2>4, EmptyKept DEF Connected
  <2> QED
    BY <2>6, <2>7, <2>8 DEF Ghostless
<1> QED
  BY <1>1, <1>2
LEMMA ClosingSeats ==
  ASSUME SeatInv, Total = 0, Total' = 0, Typed', NEW h \in Tasks,
         Shut(h) \/ ShutDurably(h) \/ ShutSockets(h)
  PROVE  Ghostless'
<1> USE SpendingKinds
<1>0. {"closeRoom", "closed"} \subseteq Later /\ \A pc \in Later : pc \notin Reads
  BY DEF Later, Places, Reads, Kinds
<1>1. CASE Shut(h)
  <2>1. At(h, "forceClose") /\ UNCHANGED <<members, closing, room, sockets>>
    BY <1>1 DEF Shut
  <2>2. h \in Working /\ task[h] # Idle /\ task[h].pc = "forceClose" /\ Agree /\ Typed /\ Crew /\ Ghostless
        /\ ~Is(h, "connect")
    BY <2>1, WorkerFacts DEF Between, Pcs, Is
  <2>3. CASE status # "recruiting"
    <3>1. Finish(h) /\ UNCHANGED status
      BY <1>1, <2>3 DEF Shut
    <3>2. Is(h, "close") => Gone(task[h].player)
      BY <2>1, <2>2, <2>3, <3>1, NotOpenGone DEF Typed, Crew, Task
    <3> QED
      BY <2>1, <3>1, <3>2, FinishIdle
  <2>4. CASE status = "recruiting"
    <3>1. status' = "closing" /\ Goto(h, "closeRoom")
      BY <1>1, <2>4 DEF Shut
    <3>2. GoesOn(h, task[h].kind, "closeRoom", NoSeat)
      BY <1>0, <2>2, <3>1, GotoTyped
    <3>3. SeatsHeld'
      BY <1>0, <2>2, <3>2, HeldByWorker DEF GoesOn
    <3>4. JoinsCovered' /\ NoGhosts'
      BY <2>1, <2>2, <3>1, <3>2, SameSeats, HandlerCovers DEF GoesOn, Joining, Is
    <3>5. closing = {}
      BY <2>2, <2>4, OpenHasNoClose DEF Between
    <3>6. ClosedIsEmpty'
      BY <2>1, <3>1, <3>5 DEF ClosedIsEmpty
    <3> QED
      BY <3>3, <3>4, <3>6 DEF Ghostless
  <2> QED
    BY <2>3, <2>4
<1>2. CASE ShutDurably(h)
  <2>1. At(h, "closeRoom") /\ Goto(h, "closed") /\ room' = "closed"
        /\ UNCHANGED <<status, members, closing, sockets>>
    BY <1>2, CleanStep, CleanFacts DEF ShutDurably
  <2> QED
    BY <1>0, <2>1, GotoIdle
<1>3. CASE ShutSockets(h)
  <2>1. /\ At(h, "closed") /\ Finish(h) /\ status' = "closed" /\ room' = room
        /\ members' = [p \in Players |-> IF members[p] = NoSeat THEN NoSeat
                                         ELSE [members[p] EXCEPT !.connected = FALSE]]
    BY <1>3 DEF ShutSockets
  <2>2. h \in Working /\ task[h].pc = "closed" /\ Typed /\ Crew /\ room = "closed"
    BY <2>1, WorkerFacts, CleanFacts DEF Calm, StatusFits, Fits
  <2>3. \A p \in Players : members[p] # NoSeat => members[p] \in Seat /\ [members[p] EXCEPT !.connected = FALSE] \in Seat
    BY <2>2 DEF Typed, Store, Seat
  <2>4. \A p \in Players : ~Connected(p)'
    BY <2>1, <2>3 DEF Connected, Seat
  <2>5. NoGhosts' /\ JoinsCovered' /\ ClosedIsEmpty'
    BY <2>1, <2>2, <2>4 DEF NoGhosts, JoinsCovered, ClosedIsEmpty, Connected
  <2>6. task'[h] = Idle /\ Others(h)
    BY <2>1, <2>2, FinishTyped
  <2>7. SeatsHeld'
    BY <2>2, <2>6, HeldByWorker
  <2> QED
    BY <2>5, <2>7 DEF Ghostless
<1> QED
  BY <1>1, <1>2, <1>3

LEMMA AlarmSeats ==
  ASSUME SeatInv, Total = 0, Total' = 0, Typed', NEW h \in Tasks,
         Ring(h) \/ Sweep(h) \/ Recover(h)
  PROVE  Ghostless'
<1> USE SpendingKinds DEF redis
<1>0. {"recover", "sweep", "forceClose"} \subseteq Later
  BY DEF Later, Places, Reads, Kinds
<1>1. CASE Ring(h)
  <2>1. At(h, "alarm") /\ UNCHANGED <<redis, closing, room, sockets>>
        /\ (Goto(h, "recover") \/ Finish(h) \/ Goto(h, "sweep") \/ Goto(h, "forceClose"))
    BY <1>1 DEF Ring
  <2>2. ~Is(h, "close")
    BY <2>1, WorkerFacts DEF Pcs, Is
  <2> QED
    BY <1>0, <2>1, <2>2, FinishIdle, GotoIdle
<1>2. CASE Sweep(h)
  <2>1. At(h, "sweep") /\ UNCHANGED <<status, closing, room, sockets>>
    BY <1>2 DEF Sweep
  <2>2. h \in Working /\ task[h].pc = "sweep" /\ Typed /\ ~Is(h, "close") /\ Crew
    BY <2>1, WorkerFacts DEF Pcs, Is
  <2>3. PICK freed \in SUBSET Stale :
           /\ members' = [p \in Players |-> IF p \in freed THEN NoSeat ELSE members[p]]
           /\ ScheduleOrLose /\ Finish(h)
    BY <1>2, <2>2, CleanStep DEF Sweep
  <2>4. task'[h] = Idle /\ Others(h) /\ ~Joining(h)'
    BY <2>2, <2>3, FinishTyped DEF Joining, Is
  <2>5. \A p \in Players : members'[p] \in {members[p], NoSeat}
    BY <2>3
  <2>6. SeatsHeld'
    BY <2>2, <2>4, HeldByWorker
  <2>7. JoinsCovered' /\ NoGhosts'
    <3>1. \A q \in Players : SeatKept(q)
      BY <2>5 DEF SeatKept
    <3> QED
      BY <2>1, <2>2, <2>4, <3>1, HandlerCovers
  <2>8. ClosedIsEmpty'
    BY <2>1, <2>5, EmptyKept DEF Connected
  <2> QED
    BY <2>6, <2>7, <2>8 DEF Ghostless
<1>3. CASE Recover(h)
  <2>1. At(h, "recover") /\ UNCHANGED <<status, members, closing, sockets>>
    BY <1>3 DEF Recover
  <2>2. ~Is(h, "close") /\ Typed
    BY <2>1, WorkerFacts DEF Pcs, Is
  <2>3. Finish(h) /\ room' \in {room, "closed"}
    BY <1>3, <2>2, CleanStep, CleanFacts DEF Recover
  <2> QED
    BY <2>1, <2>2, <2>3, FinishIdle
<1> QED
  BY <1>1, <1>2, <1>3

-----------------------------------------------------------------------------
(* Steps of nobody's. *)

LEMMA DeliverySeats ==
  ASSUME SeatInv, Total = 0, NEW i \in Instances, DeliverClose(i)
  PROVE  Ghostless'
<1>1. /\ closing # {} /\ closing' \subseteq closing /\ task' = task
      /\ UNCHANGED <<status, members, room>>
  BY DEF DeliverClose, redis
<1>2. room = "closed" /\ (\A p \in Players : ~Connected(p)) /\ SeatsHeld /\ ClosedIsEmpty
  BY <1>1, CleanFacts DEF Ghostless, ClosedIsEmpty
<1>3. status' # "recruiting"
  BY <1>1, <1>2, ClosedIsClosed
<1>4. SeatsHeld'
  BY <1>1, <1>2 DEF SeatsHeld, SameSeat
<1>5. NoGhosts' /\ JoinsCovered' /\ ClosedIsEmpty'
  BY <1>1, <1>2, <1>3 DEF NoGhosts, JoinsCovered, ClosedIsEmpty, Connected
<1> QED
  BY <1>4, <1>5 DEF Ghostless

LEMMA AgeingSeats ==
  ASSUME SeatInv, Total = 0, NEW p \in Players, ReservationAges(p)
  PROVE  Ghostless'
<1>1. members[p] \in Seat /\ Ghostless /\ Typed
  BY CleanFacts DEF ReservationAges, Typed, Store
<1>2. /\ UNCHANGED <<status, closing, room, sockets, task>>
      /\ \A q \in Players : /\ members'[q] # NoSeat <=> members[q] # NoSeat
                            /\ members[q] # NoSeat => /\ members'[q].ticket = members[q].ticket
                                                      /\ members'[q].connected = members[q].connected
  <2>1. [members[p] EXCEPT !.stale = TRUE] \in Seat
    BY <1>1 DEF Seat
  <2>2. /\ [members[p] EXCEPT !.stale = TRUE].ticket = members[p].ticket
        /\ [members[p] EXCEPT !.stale = TRUE].connected = members[p].connected
    BY <1>1 DEF Seat
  <2>3. members' = [members EXCEPT ![p] = [members[p] EXCEPT !.stale = TRUE]]
    BY <1>1 DEF ReservationAges, Typed, Store
  <2> QED
    BY <1>1, <2>1, <2>2, <2>3, RedisAssumption DEF ReservationAges, Typed, Store
<1>3. \A h \in Tasks : task[h] # Idle => task[h].player \in Players
  BY <1>1 DEF Typed, Crew, Task
<1>4. SeatsHeld' /\ JoinsCovered'
  BY <1>1, <1>2, <1>3 DEF Ghostless, SeatsHeld, SameSeat, JoinsCovered, Joining, Is, Covered, CloseDue
<1>5. NoGhosts' /\ ClosedIsEmpty'
  BY <1>1, <1>2 DEF Ghostless, NoGhosts, ClosedIsEmpty, Connected, Covered, CloseDue
<1> QED
  BY <1>4, <1>5 DEF Ghostless

LEMMA QuietSeats ==
  ASSUME Ghostless, UNCHANGED <<status, members, closing, room, sockets, task>>
  PROVE  Ghostless'
BY DEF Ghostless, SeatsHeld, SameSeat, JoinsCovered, Joining, Is, Covered, CloseDue,
       NoGhosts, ClosedIsEmpty, Connected

LEMMA BackgroundSeats ==
  ASSUME SeatInv, Total = 0, Total' = 0,
         \/ LeaseExpires \/ Outage \/ Expire \/ UNCHANGED vars
         \/ \E h \in Tasks : GiveUp(h)
         \/ \E i \in Instances : Crash(i)
  PROVE  Ghostless'
<1> USE CleanFacts
<1>1. \A sort \in Sorts : ~Spend(sort)
  BY NothingSpent DEF Spend
<1>2. CASE LeaseExpires
  BY <1>2, QuietSeats DEF LeaseExpires, redis
<1>3. CASE Outage \/ (\E h \in Tasks : GiveUp(h)) \/ (\E i \in Instances : Crash(i))
  BY <1>1, <1>3, SortNames DEF Outage, GiveUp, Crash, Lossy
<1>4. CASE Expire
  <2>1. /\ status' = "none" /\ task' = task /\ closing' = closing /\ room' = room
        /\ (\A h \in Tasks : task[h] = Idle) /\ \A p \in Players : members'[p] = NoSeat
    BY <1>4 DEF Expire
  <2> QED
    BY <2>1 DEF Ghostless, SeatsHeld, JoinsCovered, Joining, Is, NoGhosts, ClosedIsEmpty, Connected
<1>5. CASE UNCHANGED vars
  BY <1>5, QuietSeats DEF vars
<1> QED
  BY <1>2, <1>3, <1>4, <1>5

-----------------------------------------------------------------------------
(* A step spends one failure or none: a failure that has happened stays counted. *)
SpendsOne == Spends \/ spent' = [spent EXCEPT !["crash"] = @ + 1]

LEMMA StepSpends ==
  ASSUME NEW h \in Tasks, Step(h)
  PROVE  SpendsOne
<1> USE SpendingKinds DEF SpendsOne, Sound
<1>1. CASE InsertMeta(h) \/ CreateRoom(h) \/ FirstAlarm(h) \/ InsertMember(h) \/ ReserveSeat(h)
  BY <1>1 DEF InsertMeta, CreateRoom, FirstAlarm, InsertMember, ReserveSeat
<1>2. CASE Revalidate(h) \/ MarkConnected(h) \/ PersistConnected(h) \/ ReadyRead(h) \/ UpdateReady(h)
  BY <1>2 DEF Revalidate, MarkConnected, PersistConnected, ReadyRead, UpdateReady
<1>3. CASE Leave(h) \/ LeaveSeat(h) \/ RemoveMember(h)
  BY <1>3 DEF Leave, LeaveSeat, RemoveMember
<1>4. CASE Shut(h) \/ ShutDurably(h) \/ ShutSockets(h) \/ Ring(h) \/ Recover(h)
  BY <1>4 DEF Shut, ShutDurably, ShutSockets, Ring, Recover
<1>5. CASE Sweep(h)
  BY <1>5 DEF Sweep
<1> QED
  BY <1>1, <1>2, <1>3, <1>4, <1>5 DEF Step

LEMMA NextSpends ==
  ASSUME [Next]_vars
  PROVE  SpendsOne
<1> USE SpendingKinds, SortNames DEF SpendsOne, Sound
<1>1. ASSUME NEW h \in Tasks, Acquire(h) \/ GiveUp(h) PROVE SpendsOne
  BY <1>1 DEF Acquire, GiveUp
<1>2. ASSUME NEW h \in Tasks, NEW i \in Instances, Start(h, i) \/ ClaimAlarm(h, i) PROVE SpendsOne
  BY <1>2 DEF Start, Create, StartForceClose, StartReserve, StartConnect, StartMessage, ClaimAlarm
<1>3. ASSUME NEW h \in Tasks, NEW s \in sockets, SocketCloses(h, s[1], s[2]) PROVE SpendsOne
  BY <1>3 DEF SocketCloses
<1>4. CASE \/ \E i \in Instances : DeliverClose(i) \/ Crash(i)
           \/ \E p \in Players : ReservationAges(p)
           \/ LeaseExpires \/ Outage \/ Expire \/ UNCHANGED vars
  BY <1>4 DEF DeliverClose, Crash, ReservationAges, LeaseExpires, Outage, Expire, vars, Spends
<1> QED
  BY <1>1, <1>2, <1>3, <1>4, StepSpends DEF Next

LEMMA CountOnlyGrows ==
  ASSUME Typed, [Next]_vars, Total' = 0
  PROVE  Total = 0
<1>1. SpendsOne
  BY NextSpends
<1>2. \A sort \in Sorts : spent' # [spent EXCEPT ![sort] = @ + 1]
  BY NothingSpent
<1>3. spent' = spent
  BY <1>1, <1>2, SortNames DEF SpendsOne, Spends, Spend, Sound
<1> QED
  BY <1>3 DEF Total

LEMMA SeatStep ==
  ASSUME SeatInv, Typed', [Next]_vars, Total' = 0
  PROVE  Ghostless'
<1>0. Total = 0
  BY CountOnlyGrows DEF SeatInv
<1> USE <1>0
<1>1. ASSUME NEW h \in Tasks, Step(h) PROVE Ghostless'
  <2>1. CASE \/ InsertMeta(h) \/ CreateRoom(h) \/ FirstAlarm(h) \/ ReserveSeat(h)
             \/ InsertMember(h)
    BY <2>1, CreationSeats, InsertMemberSeats
  <2>2. CASE Revalidate(h) \/ ReadyRead(h) \/ Leave(h)
    BY <2>2, ReadingSeats
  <2>3. CASE MarkConnected(h) \/ UpdateReady(h) \/ LeaveSeat(h)
    BY <2>3, WritingSeats
  <2>4. CASE PersistConnected(h) \/ RemoveMember(h)
    BY <2>4, LastWriteSeats
  <2>5. CASE Shut(h) \/ ShutDurably(h) \/ ShutSockets(h)
    BY <2>5, ClosingSeats
  <2>6. CASE Ring(h) \/ Sweep(h) \/ Recover(h)
    BY <2>6, AlarmSeats
  <2> QED
    BY <1>1, <2>1, <2>2, <2>3, <2>4, <2>5, <2>6 DEF Step
<1>2. ASSUME NEW h \in Tasks, NEW i \in Instances, Start(h, i) \/ ClaimAlarm(h, i) PROVE Ghostless'
  BY <1>2, StartsSeats
<1>3. ASSUME NEW h \in Tasks, NEW s \in sockets, SocketCloses(h, s[1], s[2]) PROVE Ghostless'
  BY <1>3, SocketClosesSeats
<1>4. ASSUME NEW h \in Tasks, Acquire(h) PROVE Ghostless'
  BY <1>4, AcquireSeats
<1>5. ASSUME NEW i \in Instances, DeliverClose(i) PROVE Ghostless'
  BY <1>5, DeliverySeats
<1>6. ASSUME NEW p \in Players, ReservationAges(p) PROVE Ghostless'
  BY <1>6, AgeingSeats
<1>7. CASE \/ LeaseExpires \/ Outage \/ Expire \/ UNCHANGED vars
           \/ \E h \in Tasks : GiveUp(h)
           \/ \E i \in Instances : Crash(i)
  BY <1>7, BackgroundSeats
<1> QED
  BY <1>1, <1>2, <1>3, <1>4, <1>5, <1>6, <1>7 DEF Next

(* The seats' invariant, from those of the room and of the types. *)
LEMMA SeatInvariant == Spec => []SeatInv
<1> DEFINE Seats == Total = 0 => Ghostless
<1>1. Init => Seats
  BY DEF Init, Ghostless, SeatsHeld, JoinsCovered, Joining, Is, NoGhosts, ClosedIsEmpty, Connected
<1>2. RoomInv /\ Typed /\ Typed' /\ Seats /\ [Next]_vars => Seats'
  BY SeatStep DEF SeatInv
<1>3. SeatInv <=> RoomInv /\ Typed /\ Seats
  BY DEF SeatInv
<1> HIDE DEF Seats
<1> QED
  BY <1>1, <1>2, <1>3, RoomInvariant, TypedInvariant, PTL DEF Spec

(* onClose and completePlayerConnection: whatever order the lock serves the    *)
(* handlers of all instances in, as long as nothing failed, a connected seat   *)
(* has a socket of its player's on some instance, or the close event that will *)
(* free it is still to be handled.                                            *)
THEOREM ConnectedSeatsAreLive == Spec => []NoGhostSeat
<1>1. SeatInv => NoGhostSeat
  BY DEF SeatInv, Ghostless, NoGhosts, Connected, Covered, NoGhostSeat
<1> QED
  BY <1>1, SeatInvariant, PTL

-----------------------------------------------------------------------------
(* The room in the database, whatever fails. *)

NoPlays == [n \in {} |-> n]

Lifecycle == INSTANCE RoomLifecycle
    WITH status <- room, history <- NoPlays, Plays <- {}, Seats <- Players, Nobody <- NoSeat

(* A creation that has not written the room's row, and the close that follows
   one that failed. *)
Making(c) == c.kind = "initialize" /\ c.pc \in {"wait", "initialize", "createRoom"}
Undoing(c) == c.kind = "forceClose" /\ c.pc \in {"wait", "forceClose"}

(* Where a handler still has the row to write, if only by what it stands at. *)
Unmade(c) == c.pc \in {"initialize", "createRoom"} \/ (c.kind = "initialize" /\ c.pc = "wait")

(* Before the row is there nobody can know the room but its creation: only that
   is under way, and what is live is what it has written. *)
Stands(c) ==
    \/ Making(c) /\ (c.pc # "createRoom" => status = "none")
    \/ Undoing(c) /\ status = "none"

Unborn ==
    /\ ~job /\ sockets = {} /\ \A p \in Players : members[p] = NoSeat
    /\ \A h, o \in Tasks : task[h] # Idle /\ task[o] # Idle => h = o
    /\ \A h \in Tasks : task[h] # Idle => Stands(task[h])

(* Once it is there no creation is. *)
Born == \A h \in Tasks : task[h] # Idle => ~Unmade(task[h])

Life == IF room = "absent" THEN Unborn ELSE Born

LEMMA AloneUnborn ==
  ASSUME Unborn, NEW h \in Tasks, task[h] # Idle, Others(h),
         task'[h] # Idle => Stands(task[h])',
         ~job', sockets' = {}, members' = members
  PROVE  Unborn'
<1>1. \A o \in Tasks : task'[o] # Idle => o = h
  BY DEF Unborn, Others
<1> QED
  BY <1>1 DEF Unborn

LEMMA OneBorn ==
  ASSUME Born, NEW h \in Tasks, Others(h), task'[h] # Idle => ~Unmade(task'[h])
  PROVE  Born'
BY DEF Born, Others

(* A failed creation is undone, any other handler that fails is over. *)
LEMMA FailLife ==
  ASSUME Crew, NEW h \in Tasks, task[h] # Idle, Fail(h)
  PROVE  /\ Others(h)
         /\ task'[h] # Idle => task'[h].kind = "forceClose" /\ task'[h].pc = "wait"
         /\ job' = (job \/ task[h].kind = "alarm")
<1>1. CASE Finish(h)
  BY <1>1, FinishTyped DEF Fail
<1>2. CASE Then(h, "forceClose")
  BY <1>2, ThenTyped DEF Fail, GoesOn, Kinds
<1> QED
  BY <1>1, <1>2 DEF Fail

(* An instance's end, or that of all of them. *)
LEMMA DiesLife ==
  ASSUME Life, room' = room, NEW gone, status' = status \/ \A h \in Tasks : task'[h] = Idle,
         task' = [h \in Tasks |-> IF h \in gone THEN Idle ELSE task[h]],
         room = "absent" => ~job' /\ sockets' \subseteq sockets /\ \A p \in Players : members'[p] = NoSeat
  PROVE  Life'
<1>1. \A h \in Tasks : task'[h] # Idle => task'[h] = task[h] /\ task[h] # Idle
  OBVIOUS
<1>2. CASE room = "absent"
  BY <1>1, <1>2 DEF Life, Unborn, Stands
<1>3. CASE room # "absent"
  BY <1>1, <1>3 DEF Life, Born
<1> QED
  BY <1>2, <1>3

LEMMA CreationLife ==
  ASSUME Typed, Life, NEW h \in Tasks,
         Acquire(h) \/ InsertMeta(h) \/ CreateRoom(h) \/ FirstAlarm(h)
  PROVE  Life'
<1> USE StoreFacts
<1>1. CASE Acquire(h)
  <2>1. GoesOn(h, task[h].kind, task[h].kind, task[h].got) /\ task[h] \in Task /\ task[h].pc = "wait"
    BY <1>1, AcquireTyped DEF Acquire, Crew
  <2>2. task[h].kind \in Kinds /\ task[h] # Idle /\ room' = room
    BY <1>1, <2>1 DEF Acquire, Task
  <2>3. CASE room = "absent"
    <3>1. Stands(task[h])'
      BY <1>1, <2>1, <2>2, <2>3 DEF Life, Unborn, Stands, Making, Undoing, GoesOn, Acquire, redis
    <3> QED
      BY <1>1, <2>1, <2>2, <2>3, <3>1, AloneUnborn DEF Life, Unborn, GoesOn, Acquire, redis
  <2>4. CASE room # "absent"
    BY <2>1, <2>2, <2>4, OneBorn DEF Life, Born, Unmade, GoesOn, Kinds
  <2> QED
    BY <2>3, <2>4
<1>2. CASE InsertMeta(h)
  <2>1. task[h] # Idle /\ task[h].pc = "initialize" /\ room' = room
    BY <1>2 DEF InsertMeta, At
  <2>2. room = "absent" /\ Unborn /\ task[h].kind = "initialize"
    BY <2>1 DEF Life, Born, Unborn, Unmade, Stands, Making, Undoing
  <2>3. GoesOn(h, "initialize", "createRoom", NoSeat)
    BY <1>2, <2>1, <2>2, GotoTyped DEF InsertMeta, Later, Places, Reads
  <2> QED
    BY <1>2, <2>1, <2>2, <2>3, AloneUnborn DEF InsertMeta, GoesOn, Stands, Making, Life, Unborn
<1>3. CASE CreateRoom(h)
  <2>1. task[h] # Idle /\ task[h].pc = "createRoom"
    BY <1>3 DEF CreateRoom, At
  <2>2. room = "absent" /\ Unborn /\ task[h].kind = "initialize"
    BY <2>1 DEF Life, Born, Unborn, Unmade, Stands, Making, Undoing
  <2>3. CASE room' = "recruiting" /\ Goto(h, "firstAlarm")
    <3>1. GoesOn(h, "initialize", "firstAlarm", NoSeat)
      BY <2>1, <2>2, <2>3, GotoTyped DEF Later, Places, Reads
    <3> QED
      BY <2>1, <2>2, <2>3, <3>1 DEF Life, Born, Unborn, Unmade, GoesOn, Others
  <2>4. CASE status' = "none" /\ Fail(h) /\ room' = room
    <3>1. task'[h] # Idle => Stands(task[h])'
      BY <2>1, <2>4, FailLife DEF Stands, Undoing
    <3> QED
      BY <1>3, <2>1, <2>2, <2>4, <3>1, FailLife, AloneUnborn DEF CreateRoom, Life, Unborn
  <2> QED
    BY <1>3, <2>3, <2>4 DEF CreateRoom
<1>4. CASE FirstAlarm(h)
  <2>1. task[h] # Idle /\ task[h].pc = "firstAlarm" /\ room' = room
    BY <1>4 DEF FirstAlarm, At
  <2>2. room # "absent" /\ Born
    BY <2>1 DEF Life, Unborn, Stands, Making, Undoing
  <2>3. GoesOn(h, "reserve", "wait", NoSeat)
    BY <1>4, <2>1, ThenTyped DEF FirstAlarm, Kinds
  <2> QED
    BY <2>1, <2>2, <2>3, OneBorn DEF Life, Unmade, GoesOn
<1> QED
  BY <1>1, <1>2, <1>3, <1>4

(* Any other handler at work finds the room there. *)
LEMMA WorkLife ==
  ASSUME Typed, Life, NEW h \in Tasks, task[h] # Idle,
         task[h].pc \notin {"wait", "initialize", "createRoom", "forceClose"},
         room' \in {room, "recruiting", "closed"}, Others(h), task'[h] # Idle => ~Unmade(task'[h])
  PROVE  Life' /\ room # "absent"
<1>1. room # "absent" /\ Born
  BY DEF Life, Unborn, Stands, Making, Undoing
<1> QED
  BY <1>1, OneBorn DEF Life

LEMMA SeatLife ==
  ASSUME Typed, Life, NEW h \in Tasks,
         \/ InsertMember(h) \/ ReserveSeat(h)
         \/ Revalidate(h) \/ MarkConnected(h) \/ ReadyRead(h) \/ UpdateReady(h)
         \/ Leave(h) \/ LeaveSeat(h) \/ RemoveMember(h)
  PROVE  Life' /\ room' = room
<1> USE StoreFacts
<1>1. /\ task[h] # Idle /\ task[h] \in Task /\ room' = room
      /\ task[h].pc \in {"reserve", "reserveSeat", "connect", "markConnected", "message", "updateReady",
                         "close", "markDisconnected", "removeMember"}
  BY DEF InsertMember, ReserveSeat, Revalidate, MarkConnected, ReadyRead, UpdateReady, Leave,
         LeaveSeat, RemoveMember, At, Crew, redis
<1>2. \/ Finish(h) \/ Fail(h)
      \/ \E pc \in {"reserveSeat", "persistConnected", "forceClose", "removeMember"} : Goto(h, pc)
      \/ \E pc \in Reads : ReadMember(h, pc) /\ members[task[h].player] # NoSeat
  BY DEF InsertMember, ReserveSeat, Revalidate, MarkConnected, ReadyRead, UpdateReady, Leave,
         LeaveSeat, RemoveMember, Reads
<1>3. CASE Finish(h)
  BY <1>1, <1>3, FinishTyped, WorkLife
<1>4. CASE Fail(h)
  BY <1>1, <1>4, FailLife, WorkLife DEF Unmade
<1>5. ASSUME NEW pc \in {"reserveSeat", "persistConnected", "forceClose", "removeMember"}, Goto(h, pc)
      PROVE  Life'
  BY <1>1, <1>5, GotoTyped, WorkLife DEF Unmade, GoesOn, Later, Places, Kinds, Reads
<1>6. ASSUME NEW pc \in Reads, ReadMember(h, pc), members[task[h].player] # NoSeat
      PROVE  Life'
  <2>1. members[task[h].player] \in Seat
    BY <1>1, <1>6 DEF Task
  <2> QED
    BY <1>1, <1>6, <2>1, ReadMemberTyped, WorkLife DEF Unmade, GoesOn, Reads
<1> QED
  BY <1>1, <1>2, <1>3, <1>4, <1>5, <1>6

LEMMA JoinLife ==
  ASSUME Typed, Life, NEW h \in Tasks, PersistConnected(h)
  PROVE  Life' /\ room' = room
<1> USE StoreFacts
<1>1. task[h] # Idle /\ task[h].pc = "persistConnected" /\ room' = room
  BY DEF PersistConnected, At
<1>2. room # "absent"
  BY <1>1 DEF Life, Unborn, Stands, Making, Undoing
<1>3. CASE Finish(h)
  BY <1>1, <1>3, FinishTyped, WorkLife
<1>4. CASE Dies(task[h].at) /\ status' = status
  BY <1>1, <1>2, <1>4, DiesLife DEF Dies
<1> QED
  BY <1>1, <1>3, <1>4 DEF PersistConnected

(* closeRoom: no room is closed in the database before it is there. *)
LEMMA CloseLife ==
  ASSUME Typed, Life, NEW h \in Tasks,
         \/ Shut(h) \/ ShutDurably(h) \/ ShutSockets(h)
         \/ Ring(h) \/ Sweep(h) \/ Recover(h)
  PROVE  Life' /\ (room' # room => room # "absent" /\ room' = "closed")
<1> USE StoreFacts
<1>1. CASE Shut(h)
  <2>1. task[h] # Idle /\ task[h].pc = "forceClose" /\ room' = room
    BY <1>1 DEF Shut, At
  <2>2. CASE room = "absent"
    <3>1. Finish(h) /\ status' = status
      BY <1>1, <2>1, <2>2 DEF Life, Unborn, Stands, Making, Undoing, Shut
    <3> QED
      BY <1>1, <2>1, <2>2, <3>1, FinishTyped, AloneUnborn DEF Life, Unborn, Shut
  <2>3. CASE room # "absent"
    <3>1. Finish(h) \/ Goto(h, "closeRoom")
      BY <1>1 DEF Shut
    <3>2. Others(h) /\ (task'[h] # Idle => task'[h].pc = "closeRoom")
      BY <2>1, <3>1, FinishTyped, GotoTyped DEF GoesOn, Later, Places, Kinds, Reads
    <3> QED
      BY <2>1, <2>3, <3>2, OneBorn DEF Life, Unmade
  <2> QED
    BY <2>1, <2>2, <2>3
<1>2. ASSUME \/ ShutDurably(h) \/ ShutSockets(h) \/ Ring(h) \/ Sweep(h) \/ Recover(h)
      PROVE  Life' /\ (room' # room => room # "absent" /\ room' = "closed")
  <2>1. /\ task[h] # Idle /\ room' \in {room, "closed"}
        /\ task[h].pc \in {"closeRoom", "closed", "alarm", "sweep", "recover"}
    BY <1>2 DEF ShutDurably, ShutSockets, Ring, Sweep, Recover, At
  <2>2. \/ Finish(h) \/ Fail(h)
        \/ \E pc \in {"closed", "recover", "sweep", "forceClose"} : Goto(h, pc)
    BY <1>2 DEF ShutDurably, ShutSockets, Ring, Sweep, Recover
  <2>3. CASE Finish(h)
    BY <2>1, <2>3, FinishTyped, WorkLife
  <2>4. CASE Fail(h)
    BY <2>1, <2>4, FailLife, WorkLife DEF Unmade
  <2>5. ASSUME NEW pc \in {"closed", "recover", "sweep", "forceClose"}, Goto(h, pc)
        PROVE  Life' /\ (room' # room => room # "absent" /\ room' = "closed")
    BY <2>1, <2>5, GotoTyped, WorkLife DEF Unmade, GoesOn, Later, Places, Kinds, Reads
  <2> QED
    BY <2>2, <2>3, <2>4, <2>5
<1> QED
  BY <1>1, <1>2

(* A new handler finds the room there, or is its creation and alone. *)
LEMMA StartLife ==
  ASSUME Typed, Life, NEW h \in Tasks,
         \/ \E i \in Instances : Start(h, i) \/ ClaimAlarm(h, i)
         \/ \E s \in sockets : SocketCloses(h, s[1], s[2])
  PROVE  Life' /\ room' = room
<1> USE StoreFacts DEF Idles, redis
<1>0. Host \in Players /\ sockets \subseteq Instances \X Players
  BY DEF Players
<1>1. ASSUME NEW i \in Instances, Create(h, i) PROVE Life' /\ room' = room
  <2>1. Others(h) /\ task'[h].kind = "initialize" /\ task'[h].pc = "wait"
    BY <1>0, <1>1, BeginTyped DEF Create, Kinds
  <2>2. room = "absent" /\ Unborn /\ room' = room /\ status' = "none"
    BY <1>1 DEF Create, Life
  <2>3. \A o \in Tasks : o # h => task'[o] = Idle
    BY <1>1, <2>1 DEF Create, Others
  <2> QED
    BY <1>1, <2>1, <2>2, <2>3 DEF Create, Life, Unborn, Stands, Making
<1>2. ASSUME NEW i \in Instances, NEW p \in Players, NEW kind \in Kinds \ {"initialize"},
             Begin(h, kind, i, p), Idles(h), UNCHANGED lapsed, room' = room, room # "absent",
             kind = "connect" => members[p] # NoSeat
      PROVE  Life' /\ room' = room
  <2>1. Others(h) /\ task'[h].kind = kind /\ task'[h].pc = "wait"
    BY <1>2, BeginTyped
  <2> QED
    BY <1>2, <2>1, OneBorn DEF Life, Unmade
<1>3. ASSUME NEW i \in Instances, StartForceClose(h, i) PROVE Life' /\ room' = room
  BY <1>0, <1>2, <1>3 DEF StartForceClose, Kinds
<1>4. ASSUME NEW i \in Instances, NEW p \in Players, StartReserve(h, i, p) PROVE Life' /\ room' = room
  BY <1>2, <1>4 DEF StartReserve, Kinds
<1>5. ASSUME NEW i \in Instances, NEW p \in Players, StartConnect(h, i, p) PROVE Life' /\ room' = room
  <2>1. room # "absent"
    BY <1>5 DEF StartConnect, Life, Unborn
  <2> QED
    BY <1>2, <1>5, <2>1 DEF StartConnect, Kinds
<1>6. ASSUME NEW i \in Instances, NEW p \in Players, StartMessage(h, i, p) PROVE Life' /\ room' = room
  <2>1. room # "absent"
    BY <1>6 DEF StartMessage, Life, Unborn
  <2> QED
    BY <1>2, <1>6, <2>1 DEF StartMessage, Kinds
<1>7. ASSUME NEW i \in Instances, ClaimAlarm(h, i) PROVE Life' /\ room' = room
  <2>1. room # "absent"
    BY <1>7 DEF ClaimAlarm, Life, Unborn
  <2> QED
    BY <1>0, <1>2, <1>7, <2>1 DEF ClaimAlarm, Kinds
<1>8. ASSUME NEW s \in sockets, SocketCloses(h, s[1], s[2]) PROVE Life' /\ room' = room
  <2>1. room # "absent" /\ s[1] \in Instances /\ s[2] \in Players
    BY <1>0, <1>8 DEF Life, Unborn
  <2> QED
    BY <1>2, <1>8, <2>1 DEF SocketCloses, Kinds
<1> QED
  BY <1>1, <1>3, <1>4, <1>5, <1>6, <1>7, <1>8 DEF Start

LEMMA BackgroundLife ==
  ASSUME Typed, Life,
         \/ \E h \in Tasks : GiveUp(h)
         \/ \E i \in Instances : DeliverClose(i) \/ Crash(i)
         \/ \E p \in Players : ReservationAges(p)
         \/ LeaseExpires \/ Outage \/ Expire \/ UNCHANGED vars
  PROVE  Life' /\ room' = room
<1> USE StoreFacts DEF redis
<1>1. ASSUME NEW h \in Tasks, GiveUp(h) PROVE Life' /\ room' = room
  <2>1. task[h] # Idle /\ task[h].pc = "wait" /\ room' = room /\ status' = status /\ members' = members
    BY <1>1 DEF GiveUp, At
  <2>2. CASE task[h].kind = "connect"
    <3>1. room # "absent"
      BY <2>1, <2>2 DEF Life, Unborn, Stands, Making, Undoing
    <3> QED
      BY <1>1, <2>1, <2>2, <3>1, DiesLife DEF GiveUp, Dies
  <2>3. CASE task[h].kind # "connect"
    <3>1. Fail(h) /\ sockets' = sockets
      BY <1>1, <2>3 DEF GiveUp
    <3>2. CASE room = "absent"
      <4>1. status = "none" /\ task[h].kind # "alarm" /\ Unborn
        BY <2>1, <3>2 DEF Life, Unborn, Stands, Making, Undoing
      <4>2. task'[h] # Idle => Stands(task[h])'
        BY <2>1, <3>1, <4>1, FailLife DEF Stands, Undoing
      <4> QED
        BY <2>1, <3>1, <3>2, <4>1, <4>2, FailLife, AloneUnborn DEF Life, Unborn
    <3>3. CASE room # "absent"
      BY <2>1, <3>1, <3>3, FailLife, OneBorn DEF Life, Unmade
    <3> QED
      BY <3>2, <3>3
  <2> QED
    BY <2>2, <2>3
<1>2. ASSUME NEW i \in Instances, Crash(i) PROVE Life' /\ room' = room
  BY <1>2, DiesLife DEF Crash, Dies, Life, Unborn
<1>3. CASE Outage
  <2>1. task' = [h \in Tasks |-> IF h \in Tasks THEN Idle ELSE task[h]]
    BY <1>3 DEF Outage
  <2> QED
    BY <1>3, <2>1, DiesLife DEF Outage, Life, Unborn
<1>4. CASE Expire
  BY <1>4 DEF Expire, Life, Unborn, Born
<1>5. CASE LeaseExpires \/ UNCHANGED vars
  BY <1>5 DEF LeaseExpires, vars, Life, Unborn, Born, Stands
<1>6. ASSUME NEW i \in Instances, DeliverClose(i) PROVE Life' /\ room' = room
  BY <1>6 DEF DeliverClose, Life, Unborn, Born, Stands
<1>7. ASSUME NEW p \in Players, ReservationAges(p) PROVE Life' /\ room' = room
  BY <1>7 DEF ReservationAges, Life, Unborn, Born
<1> QED
  BY <1>1, <1>2, <1>3, <1>4, <1>5, <1>6, <1>7

(* What a step does to the room in the database. *)
LEMMA LifeStep ==
  ASSUME Typed, Life, [Next]_vars
  PROVE  /\ Life'
         /\ \/ room' = room
            \/ room = "absent" /\ room' = "recruiting"
            \/ room # "absent" /\ room' = "closed"
<1>1. ASSUME NEW h \in Tasks, Acquire(h) \/ InsertMeta(h) \/ CreateRoom(h) \/ FirstAlarm(h)
      PROVE  Life' /\ (room' = room \/ (room = "absent" /\ room' = "recruiting"))
  <2>1. room' = room \/ (At(h, "createRoom") /\ room' = "recruiting")
    BY <1>1 DEF Acquire, InsertMeta, CreateRoom, FirstAlarm
  <2>2. At(h, "createRoom") => room = "absent"
    BY DEF At, Life, Born, Unmade
  <2> QED
    BY <1>1, <2>1, <2>2, CreationLife
<1>2. ASSUME NEW h \in Tasks,
             \/ InsertMember(h) \/ ReserveSeat(h) \/ Revalidate(h) \/ MarkConnected(h)
             \/ ReadyRead(h) \/ UpdateReady(h) \/ Leave(h) \/ LeaveSeat(h) \/ RemoveMember(h)
             \/ PersistConnected(h)
      PROVE  Life' /\ room' = room
  BY <1>2, SeatLife, JoinLife
<1>3. ASSUME NEW h \in Tasks,
             Shut(h) \/ ShutDurably(h) \/ ShutSockets(h) \/ Ring(h) \/ Sweep(h) \/ Recover(h)
      PROVE  Life' /\ (room' # room => room # "absent" /\ room' = "closed")
  BY <1>3, CloseLife
<1>4. ASSUME NEW h \in Tasks,
             \/ \E i \in Instances : Start(h, i) \/ ClaimAlarm(h, i)
             \/ \E s \in sockets : SocketCloses(h, s[1], s[2])
      PROVE  Life' /\ room' = room
  BY <1>4, StartLife
<1>5. CASE \/ \E h \in Tasks : GiveUp(h)
           \/ \E i \in Instances : DeliverClose(i) \/ Crash(i)
           \/ \E p \in Players : ReservationAges(p)
           \/ LeaseExpires \/ Outage \/ Expire \/ UNCHANGED vars
  BY <1>5, BackgroundLife
<1> QED
  BY <1>1, <1>2, <1>3, <1>4, <1>5 DEF Next, Step

(* What the database shows of a room is a life of RoomLifecycle without plays:  *)
(* it opens once and closes for good, whatever writes fail, leases run out,     *)
(* commands are lost or instances die (RedisRoomService, closeRoom,             *)
(* recoverExpiredRoom).                                                        *)
THEOREM RedisImplementsLifecycle == Spec => Lifecycle!Spec
<1>1. Init => Life
  BY DEF Init, Life, Unborn
<1>2. Typed /\ Life /\ [Next]_vars => Life'
  BY LifeStep
<1>3. Init => Lifecycle!Init
  BY DEF Init, Lifecycle!Init, NoPlays
<1>4. Typed /\ Life /\ [Next]_vars => [Lifecycle!Next]_(Lifecycle!lifecycle)
  <2> SUFFICES ASSUME Typed, Life, [Next]_vars, room' # room PROVE Lifecycle!Next
    BY DEF Lifecycle!lifecycle, NoPlays
  <2>1. CASE room = "absent" /\ room' = "recruiting"
    BY <2>1 DEF Lifecycle!Next, Lifecycle!Opens, NoPlays
  <2>2. CASE room # "absent" /\ room' = "closed"
    <3>1. room \in {"recruiting", "playing"}
      BY <2>2, StoreFacts
    <3>2. Lifecycle!OpenPlaySettles
      BY DEF Lifecycle!OpenPlaySettles, NoPlays
    <3> QED
      BY <2>2, <3>1, <3>2 DEF Lifecycle!Next, Lifecycle!Closes
  <2> QED
    BY <2>1, <2>2, LifeStep
<1> QED
  BY <1>1, <1>2, <1>3, <1>4, TypedInvariant, PTL DEF Spec, Lifecycle!Spec
===============================================================================
