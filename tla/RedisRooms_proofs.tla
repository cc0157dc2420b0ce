-------------------------- MODULE RedisRooms_proofs --------------------------
(***************************************************************************)
(* What the Redis lock guarantees, for any number of instances, handlers    *)
(* and failures: among the handlers at work at most one has not outlived    *)
(* its lease, and it is the one whose token the key holds.  And what        *)
(* follows for the room, as long as nothing but database calls has failed:  *)
(* no handler outlives its lease, so the live and the durable status only   *)
(* differ between two writes of the one at work, and the open room keeps    *)
(* its alarm.                                                              *)
(***************************************************************************)
EXTENDS RedisRooms, TLAPS

(* A slot holds no handler or a handler's record. *)
Handler(c) ==
    c \in [kind : {c.kind}, at : {c.at}, player : {c.player}, pc : {c.pc}, got : {c.got}]

Slots ==
    /\ task = [h \in Tasks |-> task[h]]
    /\ \A h \in Tasks : task[h] # Idle => Handler(task[h])

Locked == lock \in Tasks \cup {Free}

LockInv == Slots /\ Locked /\ LeaseHolderOwnsLock

-----------------------------------------------------------------------------
(* What a step may do to the handlers, the lock and the lapsed ones. *)

Held == lock' = lock /\ lapsed' = lapsed

(* One handler changes and stays at work or away from it, and so does the lock. *)
Moves(h) ==
    /\ Held /\ h \in Working
    /\ \E c : task' = [task EXCEPT ![h] = c] /\ (c # Idle => Handler(c))

(* A slot gets a handler that waits, or loses one. *)
Waits(h) ==
    /\ Held
    /\ \E c : /\ task' = [task EXCEPT ![h] = c]
              /\ c # Idle => Handler(c) /\ c.pc = "wait"

Takes(h) ==
    /\ lock = Free /\ lock' = h /\ lapsed' = lapsed
    /\ \E c : task' = [task EXCEPT ![h] = c] /\ (c # Idle => Handler(c))

(* A handler leaves its work. *)
Leaves(h) ==
    /\ Release(h)
    /\ \E c : /\ task' = [task EXCEPT ![h] = c]
              /\ c # Idle => Handler(c) /\ c.pc = "wait"

(* Handlers die, together with what is remembered of them. *)
Die(gone) ==
    /\ task' = [h \in Tasks |-> IF h \in gone THEN Idle ELSE task[h]]
    /\ (lapsed \cap Working) \ gone \subseteq lapsed'
    /\ lock' \in {lock, Free}
    /\ lock' = Free => lock = Free \/ Working \subseteq gone

(* A lease runs out. *)
RunsOut ==
    /\ lock' = Free /\ task' = task
    /\ lapsed' = IF lock \in Working THEN lapsed \cup {lock} ELSE lapsed

LockStep ==
    \/ UNCHANGED <<task, lock, lapsed>>
    \/ RunsOut
    \/ \E gone \in SUBSET Tasks : Die(gone)
    \/ \E h \in Tasks : Moves(h) \/ Waits(h) \/ Takes(h) \/ Leaves(h)

-----------------------------------------------------------------------------
LEMMA HandlerChanges ==
  ASSUME Slots, NEW h \in Tasks, task[h] # Idle, NEW pc, NEW got
  PROVE  /\ Handler([task[h] EXCEPT !.pc = pc, !.got = got])
         /\ Handler([task[h] EXCEPT !.pc = pc])
<1> DEFINE C == {pc, task[h].pc}
           G == {got, task[h].got}
           Records == [kind : {task[h].kind}, at : {task[h].at}, player : {task[h].player},
                       pc : C, got : G]
<1>1. task[h] \in Records
  BY DEF Slots, Handler
<1>2. \A r \in Records : Handler(r)
  BY DEF Handler
<1>3. [task[h] EXCEPT !.pc = pc, !.got = got] \in Records
  BY <1>1
<1>4. [task[h] EXCEPT !.pc = pc] \in Records
  BY <1>1
<1> QED
  BY <1>2, <1>3, <1>4

LEMMA SlotChanges ==
  ASSUME Slots, NEW h \in Tasks, NEW c, c # Idle => Handler(c),
         task' = [task EXCEPT ![h] = c]
  PROVE  Slots' /\ task'[h] = c /\ \A o \in Tasks \ {h} : task'[o] = task[o]
<1>1. task'[h] = c /\ \A o \in Tasks \ {h} : task'[o] = task[o]
  BY DEF Slots
<1>2. task' = [o \in Tasks |-> task'[o]]
  BY DEF Slots
<1> QED
  BY <1>1, <1>2 DEF Slots, Handler

LEMMA LockStepKeeps ==
  ASSUME LockInv, LockStep
  PROVE  LockInv'
<1> USE RedisAssumption DEF LockInv
<1>1. CASE UNCHANGED <<task, lock, lapsed>>
  BY <1>1 DEF Slots, Handler, Locked, LeaseHolderOwnsLock, Working
<1>2. CASE RunsOut
  BY <1>2 DEF RunsOut, Slots, Handler, Locked, LeaseHolderOwnsLock, Working
<1>3. ASSUME NEW gone \in SUBSET Tasks, Die(gone) PROVE LockInv'
  BY <1>3 DEF Die, Slots, Handler, Locked, LeaseHolderOwnsLock, Working
<1>4. ASSUME NEW h \in Tasks, Moves(h) PROVE LockInv'
  BY <1>4, SlotChanges DEF Moves, Held, Locked, LeaseHolderOwnsLock, Working
<1>5. ASSUME NEW h \in Tasks, Waits(h) PROVE LockInv'
  BY <1>5, SlotChanges DEF Waits, Held, Locked, LeaseHolderOwnsLock, Working
<1>6. ASSUME NEW h \in Tasks, Takes(h) PROVE LockInv'
  BY <1>6, SlotChanges DEF Takes, Locked, LeaseHolderOwnsLock, Working
<1>7. ASSUME NEW h \in Tasks, Leaves(h) PROVE LockInv'
  BY <1>7, SlotChanges DEF Leaves, Release, Unlocked, Locked, LeaseHolderOwnsLock, Working
<1> QED
  BY <1>1, <1>2, <1>3, <1>4, <1>5, <1>6, <1>7 DEF LockStep

-----------------------------------------------------------------------------
(* The ways in which an action touches the handlers and the lock. *)

LEMMA BeginWaits ==
  ASSUME Slots, NEW h \in Tasks, NEW kind, NEW i, NEW p, Begin(h, kind, i, p), Held
  PROVE  LockStep
<1> DEFINE c == [kind |-> kind, at |-> i, player |-> p, pc |-> "wait",
                 got |-> IF kind = "connect" THEN members[p] ELSE NoSeat]
<1>1. Handler(c) /\ c.pc = "wait"
  BY DEF Handler
<1>2. task' = [task EXCEPT ![h] = c]
  BY DEF Begin
<1>3. Waits(h)
  BY <1>1, <1>2 DEF Waits
<1> QED
  BY <1>3 DEF LockStep

LEMMA GotoMoves ==
  ASSUME Slots, NEW h \in Working, NEW pc, Goto(h, pc)
  PROVE  LockStep
<1>1. h \in Tasks /\ task[h] # Idle
  BY DEF Working
<1>2. task' = [task EXCEPT ![h] = [task[h] EXCEPT !.pc = pc, !.got = NoSeat]]
  BY <1>1 DEF Goto, Slots
<1>3. Handler([task[h] EXCEPT !.pc = pc, !.got = NoSeat])
  BY <1>1, HandlerChanges
<1>4. Moves(h)
  BY <1>2, <1>3 DEF Goto, Moves, Held
<1> QED
  BY <1>1, <1>4 DEF LockStep

LEMMA ReadMemberMoves ==
  ASSUME Slots, NEW h \in Working, NEW pc, ReadMember(h, pc)
  PROVE  LockStep
<1>1. h \in Tasks /\ task[h] # Idle
  BY DEF Working
<1>2. task' = [task EXCEPT ![h] = [task[h] EXCEPT !.pc = pc, !.got = members[task[h].player]]]
  BY <1>1 DEF ReadMember, Slots
<1>3. Handler([task[h] EXCEPT !.pc = pc, !.got = members[task[h].player]])
  BY <1>1, HandlerChanges
<1>4. Moves(h)
  BY <1>2, <1>3 DEF ReadMember, Moves, Held
<1> QED
  BY <1>1, <1>4 DEF LockStep

LEMMA FinishLeaves ==
  ASSUME NEW h \in Tasks, Finish(h)
  PROVE  LockStep
<1>1. Leaves(h)
  BY DEF Finish, Leaves
<1> QED
  BY <1>1 DEF LockStep

LEMMA ThenLeaves ==
  ASSUME Slots, NEW h \in Tasks, task[h] # Idle, NEW kind, Then(h, kind)
  PROVE  LockStep
<1>1. task' = [task EXCEPT ![h] = [task[h] EXCEPT !.kind = kind, !.pc = "wait", !.got = NoSeat]]
  BY DEF Then, Slots
<1> DEFINE c == [task[h] EXCEPT !.kind = kind, !.pc = "wait", !.got = NoSeat]
           Records == [kind : {kind}, at : {task[h].at}, player : {task[h].player},
                       pc : {"wait"}, got : {NoSeat}]
<1>2. c \in Records
  BY DEF Slots, Handler
<1>3. \A r \in Records : Handler(r) /\ r.pc = "wait"
  BY DEF Handler
<1> HIDE DEF Records
<1>4. Handler(c) /\ c.pc = "wait"
  BY <1>2, <1>3
<1> HIDE DEF c
<1>5. Leaves(h)
  BY <1>1, <1>4 DEF Then, Leaves, c
<1> QED
  BY <1>5 DEF LockStep

LEMMA FailLeaves ==
  ASSUME Slots, NEW h \in Tasks, task[h] # Idle, Fail(h)
  PROVE  LockStep
BY FinishLeaves, ThenLeaves DEF Fail

LEMMA DiesIsDeath ==
  ASSUME Slots, NEW i, Dies(i), lock' = lock
  PROVE  LockStep
<1> DEFINE gone == {h \in Tasks : task[h] # Idle /\ task[h].at = i}
<1>1. gone \in SUBSET Tasks
  OBVIOUS
<1>2. Die(gone)
  BY DEF Dies, Die
<1> QED
  BY <1>1, <1>2 DEF LockStep

LEMMA StillStep == UNCHANGED <<task, lock, lapsed>> => LockStep
  BY DEF LockStep

-----------------------------------------------------------------------------
(* Every action is one of these. *)

LEMMA AtWork ==
  ASSUME NEW h \in Tasks, NEW pc, pc # "wait", At(h, pc)
  PROVE  h \in Working /\ task[h] # Idle
BY DEF At, Working

LEMMA StartsAndStops ==
  ASSUME Slots, NEW h \in Tasks, NEW i \in Instances, Start(h, i) \/ ClaimAlarm(h, i)
  PROVE  LockStep
<1>1. CASE Create(h, i)
  BY <1>1, BeginWaits DEF Create, Held
<1>2. CASE StartForceClose(h, i)
  BY <1>2, BeginWaits DEF StartForceClose, Held
<1>3. CASE ClaimAlarm(h, i)
  BY <1>3, BeginWaits DEF ClaimAlarm, Held
<1>4. ASSUME NEW p \in Players, StartReserve(h, i, p) PROVE LockStep
  BY <1>4, BeginWaits DEF StartReserve, Held
<1>5. ASSUME NEW p \in Players, StartConnect(h, i, p) PROVE LockStep
  BY <1>5, BeginWaits DEF StartConnect, Held
<1>6. ASSUME NEW p \in Players, StartMessage(h, i, p) PROVE LockStep
  BY <1>6, BeginWaits DEF StartMessage, Held
<1> QED
  BY <1>1, <1>2, <1>3, <1>4, <1>5, <1>6 DEF Start

LEMMA CreationSteps ==
  ASSUME Slots, NEW h \in Tasks,
         InsertMeta(h) \/ CreateRoom(h) \/ FirstAlarm(h) \/ InsertMember(h) \/ ReserveSeat(h)
  PROVE  LockStep
<1>1. CASE InsertMeta(h)
  BY <1>1, AtWork, GotoMoves DEF InsertMeta
<1>2. CASE CreateRoom(h)
  BY <1>2, AtWork, GotoMoves, FailLeaves DEF CreateRoom
<1>3. CASE FirstAlarm(h)
  BY <1>3, AtWork, ThenLeaves DEF FirstAlarm
<1>4. CASE InsertMember(h)
  BY <1>4, AtWork, GotoMoves, FinishLeaves, FailLeaves DEF InsertMember
<1>5. CASE ReserveSeat(h)
  BY <1>5, AtWork, FinishLeaves, FailLeaves DEF ReserveSeat
<1> QED
  BY <1>1, <1>2, <1>3, <1>4, <1>5

LEMMA SeatSteps ==
  ASSUME Slots, NEW h \in Tasks,
         \/ Revalidate(h) \/ MarkConnected(h) \/ PersistConnected(h)
         \/ ReadyRead(h) \/ UpdateReady(h)
         \/ Leave(h) \/ LeaveSeat(h) \/ RemoveMember(h)
  PROVE  LockStep
<1>1. CASE Revalidate(h)
  BY <1>1, AtWork, ReadMemberMoves, FinishLeaves DEF Revalidate
<1>2. CASE MarkConnected(h)
  BY <1>2, AtWork, GotoMoves DEF MarkConnected
<1>3. CASE PersistConnected(h)
  BY <1>3, AtWork, FinishLeaves, DiesIsDeath DEF PersistConnected
<1>4. CASE ReadyRead(h)
  BY <1>4, AtWork, ReadMemberMoves, FinishLeaves DEF ReadyRead
<1>5. CASE UpdateReady(h)
  BY <1>5, AtWork, FinishLeaves DEF UpdateReady
<1>6. CASE Leave(h)
  BY <1>6, AtWork, ReadMemberMoves, FinishLeaves DEF Leave
<1>7. CASE LeaveSeat(h)
  BY <1>7, AtWork, GotoMoves DEF LeaveSeat
<1>8. CASE RemoveMember(h)
  BY <1>8, AtWork, FinishLeaves DEF RemoveMember
<1> QED
  BY <1>1, <1>2, <1>3, <1>4, <1>5, <1>6, <1>7, <1>8

LEMMA ClosingSteps ==
  ASSUME Slots, NEW h \in Tasks,
         \/ Shut(h) \/ ShutDurably(h) \/ ShutSockets(h)
         \/ Ring(h) \/ Sweep(h) \/ Recover(h)
  PROVE  LockStep
<1>1. CASE Shut(h)
  BY <1>1, AtWork, GotoMoves, FinishLeaves DEF Shut
<1>2. CASE ShutDurably(h)
  BY <1>2, AtWork, GotoMoves, FinishLeaves DEF ShutDurably
<1>3. CASE ShutSockets(h)
  BY <1>3, AtWork, FinishLeaves DEF ShutSockets
<1>4. CASE Ring(h)
  BY <1>4, AtWork, GotoMoves, FinishLeaves DEF Ring
<1>5. CASE Sweep(h)
  BY <1>5, AtWork, FinishLeaves, FailLeaves DEF Sweep
<1>6. CASE Recover(h)
  BY <1>6, AtWork, FinishLeaves, FailLeaves DEF Recover
<1> QED
  BY <1>1, <1>2, <1>3, <1>4, <1>5, <1>6

LEMMA LockSteps ==
  ASSUME LockInv, [Next]_vars
  PROVE  LockStep
<1> Slots
  BY DEF LockInv
<1>1. ASSUME NEW h \in Tasks, Acquire(h) PROVE LockStep
  <2>1. task' = [task EXCEPT ![h] = [task[h] EXCEPT !.pc = task[h].kind]]
    BY <1>1 DEF Acquire, Slots
  <2>2. Handler([task[h] EXCEPT !.pc = task[h].kind])
    BY <1>1, HandlerChanges DEF Acquire
  <2>3. Takes(h)
    BY <1>1, <2>1, <2>2 DEF Acquire, Takes
  <2> QED
    BY <2>3 DEF LockStep
<1>2. ASSUME NEW h \in Tasks, GiveUp(h) PROVE LockStep
  BY <1>2, FailLeaves, DiesIsDeath DEF GiveUp, At
<1>3. ASSUME NEW h \in Tasks, Step(h) PROVE LockStep
  BY <1>3, CreationSteps, SeatSteps, ClosingSteps DEF Step
<1>4. ASSUME NEW h \in Tasks, NEW s \in sockets, SocketCloses(h, s[1], s[2]) PROVE LockStep
  BY <1>4, BeginWaits DEF SocketCloses, Held
<1>5. ASSUME NEW i \in Instances, DeliverClose(i) PROVE LockStep
  BY <1>5, StillStep DEF DeliverClose
<1>6. ASSUME NEW i \in Instances, Crash(i) PROVE LockStep
  BY <1>6, DiesIsDeath DEF Crash
<1>7. ASSUME NEW p \in Players, ReservationAges(p) PROVE LockStep
  BY <1>7, StillStep DEF ReservationAges
<1>8. CASE LeaseExpires
  BY <1>8 DEF LeaseExpires, RunsOut, LockStep
<1>9. CASE Outage
  <2>1. Die(Tasks)
    BY <1>9 DEF Outage, Die, Working, LockInv, Locked
  <2> QED
    BY <2>1 DEF LockStep
<1>10. CASE Expire \/ UNCHANGED vars
  BY <1>10, StillStep DEF Expire, vars
<1> QED
  BY <1>1, <1>2, <1>3, <1>4, <1>5, <1>6, <1>7, <1>8, <1>9, <1>10, StartsAndStops DEF Next

-----------------------------------------------------------------------------
(* withLock keeps its promise: whatever expires, fails, crashes or gives up,   *)
(* a handler at work whose lease has not run out is the one whose token the    *)
(* key holds.                                                                  *)
THEOREM LeaseIsOwned == Spec => []LeaseHolderOwnsLock
<1>1. Init => LockInv
  BY DEF Init, LockInv, Slots, Locked, LeaseHolderOwnsLock, Working
<1>2. LockInv /\ [Next]_vars => LockInv'
  BY LockSteps, LockStepKeeps
<1>3. LockInv => LeaseHolderOwnsLock
  BY DEF LockInv
<1> QED
  BY <1>1, <1>2, <1>3, PTL DEF Spec

(* And so two such handlers are never at work together.                        *)
THEOREM OneHolderAtATime ==
  Spec => [](\A g, h \in Working \ lapsed : g = h)
<1>1. LeaseHolderOwnsLock => \A g, h \in Working \ lapsed : g = h
  BY DEF LeaseHolderOwnsLock
<1> QED
  BY <1>1, LeaseIsOwned, PTL

-----------------------------------------------------------------------------
(* Where a handler of a kind may stand. *)
Pcs(c) ==
    /\ c.kind = "initialize" => c.pc \in {"wait", "initialize", "createRoom", "firstAlarm"}
    /\ c.kind = "reserve" => c.pc \in {"wait", "reserve", "reserveSeat"}
    /\ c.kind = "connect" => c.pc \in {"wait", "connect", "markConnected", "persistConnected"}
    /\ c.kind = "message" => c.pc \in {"wait", "message", "updateReady"}
    /\ c.kind = "close" => c.pc \in {"wait", "close", "markDisconnected", "removeMember",
                                     "forceClose", "closeRoom", "closed"}
    /\ c.kind = "alarm" => c.pc \in {"wait", "alarm", "sweep", "recover",
                                     "forceClose", "closeRoom", "closed"}
    /\ c.kind = "forceClose" => c.pc \in {"wait", "forceClose", "closeRoom", "closed"}

Allowed(kind, pc) == \A c : c.kind = kind /\ c.pc = pc => Pcs(c)

(* The handlers that see to it that the open room has an alarm. *)
Watching == {"alarm", "initialize"}

Program(c) ==
    /\ c.kind \in Kinds /\ c.at \in Instances /\ c.player \in Players
    /\ Pcs(c)
    /\ c.kind \in Watching => c.got = NoSeat

Programs == \A h \in Tasks : task[h] # Idle => Program(task[h])

Counters == spent \in [Sorts -> Nat] /\ sockets \subseteq Instances \X Players

(* Live and durable status agree but between the writes of a creation and of a
   close. *)
Agree == status # "closing" /\ (status = "recruiting" <=> room = "recruiting")
Between == {"createRoom", "closeRoom", "closed"}

Fits(h) ==
    /\ task[h].pc = "createRoom" => status = "recruiting" /\ room = "absent"
    /\ task[h].pc = "closeRoom" => status = "closing" /\ room = "recruiting"
    /\ task[h].pc = "closed" => status = "closing" /\ room = "closed"
    /\ task[h].pc \notin Between => Agree
    /\ task[h].pc = "recover" => status # "recruiting"

StatusFits == (Working = {} => Agree) /\ \A h \in Working : Fits(h)

Is(h, kind) == task[h] # Idle /\ task[h].kind = kind

(* One creation at a time, of a room that does not exist. *)
OneCreation ==
    \A h \in Tasks : Is(h, "initialize") =>
        /\ task[h].pc \in {"wait", "initialize"} => status = "none" /\ room = "absent"
        /\ \A o \in Tasks \ {h} : ~Is(o, "initialize")

Watches(h) == task[h] # Idle /\ task[h].kind \in Watching
Watched == room = "recruiting" => job \/ \E h \in Tasks : Watches(h)

Calm == lapsed = {} /\ StatusFits /\ OneCreation /\ Watched

RoomInv == LockInv /\ Programs /\ Counters /\ (~Damaged => Calm)
Kept == Programs' /\ Counters' /\ (~Damaged' => Calm')

-----------------------------------------------------------------------------
(* What the operators of an action do to the slot of its handler. *)
Others(h) == \A o \in Tasks \ {h} : task'[o] = task[o]

(* The handler of slot h is now of this kind and at this pc. *)
Becomes(h, kind, pc) ==
    Others(h) /\ task'[h] # Idle /\ task'[h].kind = kind /\ task'[h].pc = pc

LEMMA ChangedSlot ==
  ASSUME Slots, NEW h \in Tasks, NEW c, task' = [task EXCEPT ![h] = c]
  PROVE  task'[h] = c /\ Others(h)
BY DEF Slots, Others

LEMMA BeginEffect ==
  ASSUME Slots, Programs, NEW h \in Tasks, NEW kind \in Kinds, NEW i \in Instances,
         NEW p \in Players, Begin(h, kind, i, p)
  PROVE  /\ Others(h)
         /\ Programs'
         /\ task'[h] # Idle => task'[h].pc = "wait" /\ task'[h].kind = kind
         /\ kind # "connect" => task'[h] # Idle
<1> DEFINE g == IF kind = "connect" THEN members[p] ELSE NoSeat
           c == [kind |-> kind, at |-> i, player |-> p, pc |-> "wait", got |-> g]
<1>1. task'[h] = c /\ Others(h)
  BY ChangedSlot DEF Begin
<1>2. Program(c)
  BY DEF Program, Pcs, Kinds, Watching
<1>3. kind # "connect" => c \in Task
  <2> SUFFICES ASSUME kind # "connect" PROVE c \in Task
    OBVIOUS
  <2>1. g \in Seat \cup {NoSeat}
    OBVIOUS
  <2> HIDE DEF g
  <2> QED
    BY <2>1 DEF Task, Places
<1>4. kind # "connect" => c # Idle
  BY <1>3, RedisAssumption
<1>5. Programs'
  BY <1>1, <1>2 DEF Programs, Others
<1> QED
  BY <1>1, <1>4, <1>5

(* The record of a handler that goes on without what it has read. *)
Renewed(h, kind, pc) == [task[h] EXCEPT !.kind = kind, !.pc = pc, !.got = NoSeat]

LEMMA RenewedRecord ==
  ASSUME Slots, Programs, NEW h \in Tasks, task[h] # Idle, NEW kind \in Kinds, NEW pc \in Places
  PROVE  /\ Renewed(h, kind, pc) # Idle
         /\ Renewed(h, kind, pc).kind = kind /\ Renewed(h, kind, pc).pc = pc
         /\ Renewed(h, kind, pc).got = NoSeat
         /\ Renewed(h, kind, pc).at = task[h].at /\ Renewed(h, kind, pc).player = task[h].player
<1> DEFINE Records == [kind : {kind}, at : {task[h].at}, player : {task[h].player},
                       pc : {pc}, got : {NoSeat}]
<1>1. task[h] \in [kind : {task[h].kind}, at : {task[h].at}, player : {task[h].player},
                   pc : {task[h].pc}, got : {task[h].got}]
  BY DEF Slots, Handler
<1>2. task[h].at \in Instances /\ task[h].player \in Players
  BY DEF Programs, Program
<1>3. Renewed(h, kind, pc) \in Records
  BY <1>1 DEF Renewed
<1>4. \A r \in Records : /\ r \in Task /\ r.kind = kind /\ r.pc = pc /\ r.got = NoSeat
                         /\ r.at = task[h].at /\ r.player = task[h].player
  BY <1>2 DEF Task
<1> QED
  BY <1>3, <1>4, RedisAssumption

LEMMA RenewedEffect ==
  ASSUME Slots, Programs, NEW h \in Tasks, task[h] # Idle, NEW kind \in Kinds, NEW pc \in Places,
         task' = [task EXCEPT ![h] = Renewed(h, kind, pc)],
         Allowed(kind, pc)
  PROVE  Becomes(h, kind, pc) /\ Programs'
<1>1. task'[h] = Renewed(h, kind, pc) /\ Others(h)
  BY ChangedSlot
<1>2. Program(task[h])
  BY DEF Programs
<1>3. Program(Renewed(h, kind, pc))
  BY <1>2, RenewedRecord DEF Program, Allowed
<1>4. Programs'
  BY <1>1, <1>3 DEF Programs, Others
<1> QED
  BY <1>1, <1>4, RenewedRecord DEF Becomes

LEMMA GotoEffect ==
  ASSUME Slots, Programs, NEW h \in Tasks, task[h] # Idle, NEW pc \in Places, Goto(h, pc),
         Allowed(task[h].kind, pc)
  PROVE  Becomes(h, task[h].kind, pc) /\ Programs'
<1> DEFINE k == task[h].kind
<1>1. k \in Kinds
  BY DEF Programs, Program
<1>2. Renewed(h, k, pc) = [task[h] EXCEPT !.pc = pc, !.got = NoSeat]
  BY DEF Renewed, Slots, Handler
<1>3. task' = [task EXCEPT ![h] = Renewed(h, k, pc)]
  BY <1>2 DEF Goto, Slots
<1>4. Allowed(k, pc)
  OBVIOUS
<1> HIDE DEF k
<1>5. Becomes(h, k, pc) /\ Programs'
  BY <1>1, <1>3, <1>4, RenewedEffect
<1> QED
  BY <1>5 DEF k

LEMMA ThenEffect ==
  ASSUME Slots, Programs, NEW h \in Tasks, task[h] # Idle, NEW kind \in Kinds, Then(h, kind)
  PROVE  Becomes(h, kind, "wait") /\ Programs'
<1>1. task' = [task EXCEPT ![h] = Renewed(h, kind, "wait")]
  BY DEF Then, Renewed, Slots
<1>2. Allowed(kind, "wait")
  BY DEF Allowed, Pcs
<1>3. "wait" \in Places
  BY DEF Places
<1> QED
  BY <1>1, <1>2, <1>3, RenewedEffect

LEMMA FinishEffect ==
  ASSUME Slots, Programs, NEW h \in Tasks, Finish(h)
  PROVE  Others(h) /\ task'[h] = Idle /\ Programs'
<1>1. Others(h) /\ task'[h] = Idle
  BY ChangedSlot DEF Finish
<1> QED
  BY <1>1 DEF Programs, Others

LEMMA FailEffect ==
  ASSUME Slots, Programs, NEW h \in Tasks, task[h] # Idle, Fail(h)
  PROVE  /\ Others(h) /\ Programs'
         /\ task'[h] # Idle => task'[h].kind = "forceClose" /\ task'[h].pc = "wait"
         /\ job' = (job \/ task[h].kind = "alarm")
BY FinishEffect, ThenEffect DEF Fail, Becomes, Kinds

(* A handler that keeps what it has read. *)
LEMMA KeptEffect ==
  ASSUME Slots, Programs, NEW h \in Tasks, task[h] # Idle, NEW pc, NEW got,
         task' = [task EXCEPT ![h].pc = pc, ![h].got = got],
         task[h].kind \notin Watching,
         Allowed(task[h].kind, pc)
  PROVE  /\ Others(h) /\ Programs'
         /\ task'[h].kind = task[h].kind /\ task'[h].pc = pc
<1> DEFINE c == [task[h] EXCEPT !.pc = pc, !.got = got]
           Records == [kind : {task[h].kind}, at : {task[h].at}, player : {task[h].player},
                       pc : {pc}, got : {got}]
<1>1. task'[h] = c /\ Others(h)
  BY ChangedSlot DEF Slots
<1>2. c \in Records
  BY DEF Slots, Handler
<1>3. /\ c.kind = task[h].kind /\ c.at = task[h].at
      /\ c.player = task[h].player /\ c.pc = pc
  BY <1>2
<1> HIDE DEF c
<1>4. Program(c)
  BY <1>3 DEF Programs, Program, Allowed
<1>5. Programs'
  BY <1>1, <1>4 DEF Programs, Others
<1> QED
  BY <1>1, <1>3, <1>5

LEMMA ReadMemberEffect ==
  ASSUME Slots, Programs, NEW h \in Tasks, task[h] # Idle, NEW pc, ReadMember(h, pc),
         task[h].kind \notin Watching,
         Allowed(task[h].kind, pc)
  PROVE  /\ Others(h) /\ Programs'
         /\ task'[h].kind = task[h].kind /\ task'[h].pc = pc
BY KeptEffect DEF ReadMember

LEMMA DiesEffect ==
  ASSUME Slots, Programs, NEW i, Dies(i)
  PROVE  Programs'
BY DEF Dies, Programs

LEMMA AcquireEffect ==
  ASSUME Slots, Programs, NEW h \in Tasks, Acquire(h)
  PROVE  /\ Others(h) /\ Programs'
         /\ task'[h].kind = task[h].kind /\ task'[h].pc = task[h].kind
         /\ task[h].kind \in Watching => task'[h] # Idle
<1> DEFINE k == task[h].kind
<1>1. task[h] # Idle /\ task' = [task EXCEPT ![h].pc = k]
  BY DEF Acquire
<1>2. k \in Kinds /\ k \in Places
  BY <1>1 DEF Programs, Program, Places
<1>3. Allowed(k, k)
  BY DEF Allowed, Pcs
<1>4. CASE k \in Watching
  <2>1. task[h].got = NoSeat
    BY <1>1, <1>4 DEF Programs, Program
  <2>2. task' = [task EXCEPT ![h] = Renewed(h, k, k)]
    <3>1. Renewed(h, k, k) = [task[h] EXCEPT !.pc = k]
      BY <1>1, <2>1 DEF Renewed, Slots, Handler
    <3> QED
      BY <1>1, <3>1 DEF Slots
  <2>3. Becomes(h, k, k) /\ Programs'
    <3> HIDE DEF k
    <3> QED
      BY <1>1, <1>2, <1>3, <2>2, RenewedEffect
  <2> QED
    BY <2>3 DEF Becomes
<1>5. CASE k \notin Watching
  <2>1. task' = [task EXCEPT ![h].pc = k, ![h].got = task[h].got]
    BY <1>1 DEF Slots, Handler
  <2> QED
    BY <1>1, <1>3, <1>5, <2>1, KeptEffect
<1> QED
  BY <1>4, <1>5

-----------------------------------------------------------------------------
(* Failures other than of database calls are remembered. *)
LEMMA SortNames ==
  "fault" \in Sorts /\ "overrun" \in Sorts /\ "loss" \in Sorts /\ "crash" \in Sorts
BY DEF Sorts

LEMMA DamageCounts ==
  Counters => (Damaged <=> spent["overrun"] > 0 \/ spent["loss"] > 0 \/ spent["crash"] > 0)
BY SortNames DEF Counters, Damaged, Total

LEMMA SpentSome ==
  ASSUME Counters, NEW sort \in Sorts, spent' = [spent EXCEPT ![sort] = @ + 1],
         sockets' \subseteq Instances \X Players
  PROVE  /\ Counters'
         /\ sort # "fault" => Damaged'
         /\ Damaged => Damaged'
<1>1. spent' \in [Sorts -> Nat] /\ (\A o \in Sorts : spent'[o] >= spent[o]) /\ spent'[sort] > 0
  BY DEF Counters
<1>2. Counters'
  BY <1>1 DEF Counters
<1>3. Damaged' <=> spent'["overrun"] > 0 \/ spent'["loss"] > 0 \/ spent'["crash"] > 0
  BY <1>2, SortNames DEF Counters, Damaged, Total
<1>4. sort # "fault" => Damaged'
  BY <1>1, <1>3 DEF Sorts
<1>5. Damaged => Damaged'
  BY <1>1, <1>3, DamageCounts, SortNames DEF Counters
<1> QED
  BY <1>2, <1>4, <1>5

(* A step that spends nothing, or fails at a database call. *)
LEMMA Spent ==
  ASSUME Counters, Sound \/ Faulty, sockets' \subseteq sockets
  PROVE  Counters' /\ (~Damaged' => ~Damaged)
<1>1. sockets' \subseteq Instances \X Players
  BY DEF Counters
<1>2. CASE Sound
  BY <1>1, <1>2 DEF Sound, Counters, Damaged, Total
<1>3. CASE Faulty
  BY <1>1, <1>3, SpentSome, SortNames DEF Faulty, Spend
<1> QED
  BY <1>2, <1>3

LEMMA Lost ==
  ASSUME Counters, Lossy \/ Spend("overrun") \/ Spend("crash"), sockets' \subseteq sockets
  PROVE  Counters' /\ Damaged'
<1>1. sockets' \subseteq Instances \X Players
  BY DEF Counters
<1> QED
  BY <1>1, SpentSome, SortNames DEF Lossy, Spend

-----------------------------------------------------------------------------
(* Steps in a calm room. *)
LEMMA WorkerAgrees ==
  ASSUME Calm, NEW h \in Working, task[h].pc \notin Between
  PROVE  Agree
BY DEF Calm, StatusFits, Fits

LEMMA OneWorker ==
  ASSUME LockInv, Calm, NEW h \in Working, NEW o \in Working
  PROVE  o = h
BY DEF LockInv, Calm, LeaseHolderOwnsLock

(* The alarm is queued, or whoever watched for it still does. *)
WatchKept(h) ==
    \/ job' \/ room' # "recruiting"
    \/ ~job /\ (Watches(h) => task'[h] # Idle /\ task'[h].kind \in Watching)

LEMMA WatchedKept ==
  ASSUME Watched, NEW h \in Tasks, Others(h), WatchKept(h), room' = "recruiting" => room = "recruiting"
  PROVE  Watched'
<1> SUFFICES ASSUME room' = "recruiting", ~job' PROVE \E o \in Tasks : Watches(o)'
  BY DEF Watched
<1>1. ~job /\ (Watches(h) => task'[h] # Idle /\ task'[h].kind \in Watching)
  BY DEF WatchKept
<1>2. PICK o \in Tasks : Watches(o)
  BY <1>1 DEF Watched
<1>3. CASE o = h
  BY <1>1, <1>2, <1>3 DEF Watches
<1>4. CASE o # h
  BY <1>2, <1>4 DEF Watches, Others
<1> QED
  BY <1>3, <1>4

(* A handler goes on, or ends, without touching the status. *)
LEMMA CalmStep ==
  ASSUME Calm, Agree, NEW h \in Tasks, Others(h), UNCHANGED <<status, room>>, lapsed' = {},
         task'[h] # Idle => task'[h].pc \notin Between /\ (task'[h].pc = "recover" => status # "recruiting"),
         task'[h] # Idle /\ task'[h].kind = "initialize" =>
             /\ Is(h, "initialize")
             /\ task'[h].pc \in {"wait", "initialize"} => status = "none" /\ room = "absent",
         WatchKept(h)
  PROVE  Calm'
<1>1. Agree'
  BY DEF Agree
<1>2. \A o \in Working' : task'[o].pc \notin Between /\ (task'[o].pc = "recover" => status # "recruiting")
  <2> SUFFICES ASSUME NEW o \in Working', o # h
               PROVE  task'[o].pc \notin Between /\ (task'[o].pc = "recover" => status # "recruiting")
    BY DEF Working
  <2>1. o \in Working /\ task'[o] = task[o]
    BY DEF Working, Others
  <2> QED
    BY <2>1 DEF Calm, StatusFits, Fits, Agree, Between
<1>3. StatusFits'
  BY <1>1, <1>2 DEF StatusFits, Fits, Between
<1>4. OneCreation'
  BY DEF Calm, OneCreation, Is, Others
<1>5. Watched'
  BY WatchedKept DEF Calm
<1> QED
  BY <1>3, <1>4, <1>5 DEF Calm

(* A slot that is not at work gets a handler that waits. *)
LEMMA BystanderStep ==
  ASSUME Calm, NEW h \in Tasks, h \notin Working, Others(h), UNCHANGED <<status, room>>, lapsed' = {},
         task'[h] # Idle => task'[h].pc = "wait",
         OneCreation', Watched'
  PROVE  Calm'
<1>1. Working' = Working /\ (\A o \in Working : task'[o] = task[o])
  BY DEF Working, Others
<1>2. Agree' = Agree
  BY DEF Agree
<1>3. StatusFits'
  BY <1>1, <1>2 DEF Calm, StatusFits, Fits
<1> QED
  BY <1>3 DEF Calm

(* The only handler at work changes the status. *)
LEMMA SoleStep ==
  ASSUME LockInv, Calm, NEW h \in Working, Others(h), lapsed' = {},
         h \in Working' => Fits(h)', h \notin Working' => Agree',
         OneCreation', Watched'
  PROVE  Calm'
<1>1. h \in Tasks /\ Working' \subseteq {h}
  BY OneWorker DEF Working, Others
<1>2. StatusFits'
  <2>1. CASE h \in Working'
    BY <1>1, <2>1 DEF StatusFits
  <2>2. CASE h \notin Working'
    BY <1>1, <2>2 DEF StatusFits
  <2> QED
    BY <2>1, <2>2
<1> QED
  BY <1>2 DEF Calm

LEMMA LapsedGone ==
  ASSUME Calm, NEW h, Release(h) \/ lapsed' = lapsed
  PROVE  lapsed' = {}
BY DEF Calm, Release

-----------------------------------------------------------------------------
(* New handlers. *)
LEMMA BeginKept ==
  ASSUME RoomInv, NEW h \in Tasks, task[h] = Idle, NEW kind \in Kinds, NEW i \in Instances,
         NEW p \in Players, Begin(h, kind, i, p), UNCHANGED <<status, room, lapsed, spent>>,
         sockets' \subseteq Instances \X Players,
         job' \/ ~job \/ kind = "alarm",
         kind = "initialize" => /\ status = "none" /\ room = "absent"
                                /\ \A o \in Tasks : ~Is(o, "initialize")
  PROVE  Kept
<1>1. Slots /\ Programs
  BY DEF RoomInv, LockInv
<1>2. /\ Others(h) /\ Programs'
      /\ task'[h] # Idle => task'[h].pc = "wait" /\ task'[h].kind = kind
      /\ kind # "connect" => task'[h] # Idle
  BY <1>1, BeginEffect
<1>3. Counters' /\ (~Damaged' => ~Damaged)
  BY DEF RoomInv, Counters, Damaged, Total
<1>4. ASSUME ~Damaged' PROVE Calm'
  <2>1. Calm /\ h \notin Working
    BY <1>3, <1>4 DEF RoomInv, Working
  <2>2. OneCreation'
    BY <1>2, <2>1 DEF Calm, OneCreation, Is, Others
  <2>4. Watched'
    <3> SUFFICES ASSUME room' = "recruiting", ~job' PROVE \E o \in Tasks : Watches(o)'
      BY DEF Watched
    <3>1. CASE kind = "alarm"
      BY <1>2, <3>1 DEF Watches, Watching
    <3>2. CASE kind # "alarm"
      <4>1. PICK o \in Tasks : Watches(o)
        BY <2>1, <3>2 DEF Calm, Watched
      <4> QED
        BY <1>2, <4>1 DEF Watches, Others
    <3> QED
      BY <3>1, <3>2
  <2> QED
    BY <1>2, <2>1, <2>2, <2>4, BystanderStep DEF Calm
<1> QED
  BY <1>2, <1>3, <1>4 DEF Kept

LEMMA StartsKept ==
  ASSUME RoomInv, NEW h \in Tasks, NEW i \in Instances, Start(h, i) \/ ClaimAlarm(h, i)
  PROVE  Kept
<1>0. Host \in Players /\ sockets \subseteq Instances \X Players
  BY DEF Players, RoomInv, Counters
<1> USE DEF Kinds, Idles, redis
<1>1. CASE Create(h, i)
  BY <1>0, <1>1, BeginKept DEF Create, Is
<1>2. CASE StartForceClose(h, i)
  BY <1>0, <1>2, BeginKept DEF StartForceClose
<1>3. CASE ClaimAlarm(h, i)
  BY <1>0, <1>3, BeginKept DEF ClaimAlarm
<1>4. ASSUME NEW p \in Players, StartReserve(h, i, p) PROVE Kept
  BY <1>0, <1>4, BeginKept DEF StartReserve
<1>5. ASSUME NEW p \in Players, StartConnect(h, i, p) PROVE Kept
  BY <1>0, <1>5, BeginKept DEF StartConnect
<1>6. ASSUME NEW p \in Players, StartMessage(h, i, p) PROVE Kept
  BY <1>0, <1>6, BeginKept DEF StartMessage
<1> QED
  BY <1>1, <1>2, <1>3, <1>4, <1>5, <1>6 DEF Start

LEMMA SocketClosesKept ==
  ASSUME RoomInv, NEW h \in Tasks, NEW s \in sockets, SocketCloses(h, s[1], s[2])
  PROVE  Kept
<1>1. s[1] \in Instances /\ s[2] \in Players /\ sockets' \subseteq Instances \X Players
  BY DEF RoomInv, Counters, SocketCloses
<1> QED
  BY <1>1, BeginKept DEF SocketCloses, Kinds, Idles, redis

LEMMA AcquireKept ==
  ASSUME RoomInv, NEW h \in Tasks, Acquire(h)
  PROVE  Kept
<1>1. /\ task[h] # Idle /\ task[h].pc = "wait" /\ lock = Free
      /\ UNCHANGED <<status, job, room, sockets, lapsed, spent>>
  BY DEF Acquire, redis
<1>2. /\ Others(h) /\ Programs'
      /\ task'[h].kind = task[h].kind /\ task'[h].pc = task[h].kind
      /\ task[h].kind \in Watching => task'[h] # Idle
  BY AcquireEffect DEF RoomInv, LockInv
<1>3. Counters' /\ (~Damaged' => ~Damaged)
  BY <1>1 DEF RoomInv, Counters, Damaged, Total
<1>4. ASSUME ~Damaged' PROVE Calm'
  <2>1. Calm
    BY <1>3, <1>4 DEF RoomInv
  <2>2. Working = {}
    BY <1>1, <2>1, RedisAssumption DEF RoomInv, LockInv, LeaseHolderOwnsLock, Calm, Working
  <2>3. Agree
    BY <2>1, <2>2 DEF Calm, StatusFits
  <2>4. task[h].kind \notin Between \cup {"recover"}
    BY <1>1 DEF RoomInv, Programs, Program, Kinds, Between
  <2>5. WatchKept(h)
    BY <1>1, <1>2 DEF WatchKept, Watches
  <2>6. task[h].kind = "initialize" => status = "none" /\ room = "absent"
    BY <1>1, <2>1 DEF Calm, OneCreation, Is
  <2>7. lapsed' = {}
    BY <1>1, <2>1 DEF Calm
  <2> QED
    BY <1>1, <1>2, <2>1, <2>3, <2>4, <2>5, <2>6, <2>7, CalmStep DEF Is
<1> QED
  BY <1>2, <1>3, <1>4 DEF Kept

LEMMA DiesKept ==
  ASSUME RoomInv, NEW i, Dies(i), NEW sort \in Sorts, sort # "fault",
         spent' = [spent EXCEPT ![sort] = @ + 1]
  PROVE  Kept
<1>1. Programs'
  BY DiesEffect DEF RoomInv, LockInv
<1>2. sockets' \subseteq Instances \X Players
  BY DEF Dies, RoomInv, Counters
<1> QED
  BY <1>1, <1>2, SpentSome DEF RoomInv, Kept

LEMMA GiveUpKept ==
  ASSUME RoomInv, NEW h \in Tasks, GiveUp(h)
  PROVE  Kept
<1>1. Lossy /\ task[h] # Idle
  BY DEF GiveUp, At
<1>2. CASE task[h].kind = "connect"
  BY <1>1, <1>2, DiesKept, SortNames DEF GiveUp, Lossy, Spend
<1>3. CASE task[h].kind # "connect"
  <2>1. Fail(h) /\ sockets' = sockets
    BY <1>3 DEF GiveUp
  <2>2. Programs'
    BY <1>1, <2>1, FailEffect DEF RoomInv, LockInv
  <2> QED
    BY <1>1, <2>1, <2>2, Lost DEF RoomInv, Kept
<1> QED
  BY <1>2, <1>3

-----------------------------------------------------------------------------
(* The handlers at work. *)
LEMMA AtPlace ==
  ASSUME RoomInv, NEW h \in Tasks, NEW pc, pc # "wait", At(h, pc)
  PROVE  /\ h \in Working /\ task[h] # Idle /\ task[h].pc = pc /\ Program(task[h])
         /\ Slots /\ Programs /\ Counters /\ LockInv
BY DEF At, Working, RoomInv, LockInv, Programs

(* Steps that leave the status alone: what is left to show of each is the kind
   of handler and what becomes of the alarm. *)
LEMMA WorkKept ==
  ASSUME RoomInv, NEW h \in Working, task[h].pc \notin Between,
         Others(h), Programs', Counters', ~Damaged' => ~Damaged,
         UNCHANGED <<status, room>>, Release(h) \/ lapsed' = lapsed,
         task'[h] # Idle => /\ task'[h].pc \notin Between
                            /\ task'[h].pc = "recover" => status # "recruiting"
                            /\ task'[h].kind # "initialize",
         ~Damaged' /\ Agree => WatchKept(h)
  PROVE  Kept
<1> SUFFICES ASSUME ~Damaged' PROVE Calm'
  BY DEF Kept
<1>1. Calm /\ h \in Tasks
  BY DEF RoomInv, Working
<1>2. Agree
  BY <1>1, WorkerAgrees
<1>3. lapsed' = {}
  BY <1>1, LapsedGone
<1> QED
  BY <1>1, <1>2, <1>3, CalmStep

LEMMA FirstAlarmKept ==
  ASSUME RoomInv, NEW h \in Tasks, FirstAlarm(h)
  PROVE  Kept
<1>1. At(h, "firstAlarm") /\ ScheduleOrLose /\ Then(h, "reserve") /\ UNCHANGED <<status, room, sockets>>
  BY DEF FirstAlarm
<1>2. h \in Working /\ task[h] # Idle /\ task[h].pc = "firstAlarm" /\ Slots /\ Programs /\ Counters
  BY <1>1, AtPlace
<1>3. Becomes(h, "reserve", "wait") /\ Programs'
  BY <1>1, <1>2, ThenEffect DEF Kinds
<1>4. Counters' /\ (~Damaged' => ~Damaged /\ job')
  BY <1>1, <1>2, Spent, Lost DEF ScheduleOrLose, Schedule
<1> QED
  BY <1>1, <1>2, <1>3, <1>4, WorkKept DEF Then, Becomes, Between, WatchKept

LEMMA InsertMemberKept ==
  ASSUME RoomInv, NEW h \in Tasks, InsertMember(h)
  PROVE  Kept
<1>1. At(h, "reserve") /\ UNCHANGED <<status, room, sockets, spent>>
  BY DEF InsertMember
<1>2. /\ h \in Working /\ task[h] # Idle /\ task[h].pc = "reserve" /\ Program(task[h])
      /\ Slots /\ Programs /\ Counters
  BY <1>1, AtPlace
<1>3. task[h].kind = "reserve"
  BY <1>2 DEF Program, Pcs, Kinds
<1>4. Counters' /\ (~Damaged' => ~Damaged)
  BY <1>1, <1>2, Spent DEF Sound
<1>5. ~Watches(h)
  BY <1>3 DEF Watches, Watching
<1>6. CASE Fail(h)
  <2>1. /\ Others(h) /\ Programs'
        /\ task'[h] # Idle => task'[h].kind = "forceClose" /\ task'[h].pc = "wait"
        /\ job' = (job \/ task[h].kind = "alarm")
    BY <1>2, <1>6, FailEffect
  <2>2. Release(h) /\ WatchKept(h)
    BY <1>3, <1>5, <1>6, <2>1 DEF Fail, Then, Finish, WatchKept
  <2> QED
    BY <1>1, <1>2, <1>4, <2>1, <2>2, WorkKept DEF Between
<1>7. CASE job' = job /\ Goto(h, "reserveSeat")
  <2>1. Allowed(task[h].kind, "reserveSeat")
    BY <1>3 DEF Allowed, Pcs
  <2>2. Becomes(h, task[h].kind, "reserveSeat") /\ Programs'
    BY <1>2, <1>7, <2>1, GotoEffect DEF Places
  <2> QED
    BY <1>1, <1>2, <1>3, <1>4, <1>5, <1>7, <2>2, WorkKept DEF Becomes, Goto, Between, WatchKept
<1>8. CASE job' = job /\ Finish(h)
  <2>1. Others(h) /\ task'[h] = Idle /\ Programs'
    BY <1>2, <1>8, FinishEffect
  <2> QED
    BY <1>1, <1>2, <1>4, <1>5, <1>8, <2>1, WorkKept DEF Finish, Between, WatchKept
<1> QED
  BY <1>6, <1>7, <1>8 DEF InsertMember

LEMMA ReserveSeatKept ==
  ASSUME RoomInv, NEW h \in Tasks, ReserveSeat(h)
  PROVE  Kept
<1>1. At(h, "reserveSeat") /\ UNCHANGED <<status, room, sockets>>
  BY DEF ReserveSeat
<1>2. /\ h \in Working /\ task[h] # Idle /\ task[h].pc = "reserveSeat" /\ Program(task[h])
      /\ Slots /\ Programs /\ Counters
  BY <1>1, AtPlace
<1>3. task[h].kind = "reserve"
  BY <1>2 DEF Program, Pcs, Kinds
<1>5. ~Watches(h)
  BY <1>3 DEF Watches, Watching
<1>6. CASE Faulty /\ Fail(h)
  <2>1. /\ Others(h) /\ Programs'
        /\ task'[h] # Idle => task'[h].kind = "forceClose" /\ task'[h].pc = "wait"
        /\ job' = (job \/ task[h].kind = "alarm")
    BY <1>2, <1>6, FailEffect
  <2>2. Release(h) /\ WatchKept(h)
    BY <1>3, <1>5, <1>6, <2>1 DEF Fail, Then, Finish, WatchKept
  <2>3. Counters' /\ (~Damaged' => ~Damaged)
    BY <1>1, <1>2, <1>6, Spent
  <2> QED
    BY <1>1, <1>2, <2>1, <2>2, <2>3, WorkKept DEF Between
<1>7. CASE ScheduleOrLose /\ Finish(h)
  <2>1. Others(h) /\ task'[h] = Idle /\ Programs'
    BY <1>2, <1>7, FinishEffect
  <2>2. Counters' /\ (~Damaged' => ~Damaged /\ job')
    BY <1>1, <1>2, <1>7, Spent, Lost DEF ScheduleOrLose, Schedule
  <2> QED
    BY <1>1, <1>2, <1>5, <1>7, <2>1, <2>2, WorkKept DEF Finish, Between, WatchKept
<1> QED
  BY <1>6, <1>7 DEF ReserveSeat

(* A handler that reads a member record, or has nothing to do. *)
LEMMA ReadKept ==
  ASSUME RoomInv, NEW h \in Tasks, NEW pc0, NEW pc, At(h, pc0), pc0 # "wait",
         pc0 \notin Between, pc \notin Between \cup {"recover"},
         task[h].kind \notin Watching,
         Allowed(task[h].kind, pc),
         ReadMember(h, pc) \/ Finish(h),
         UNCHANGED <<status, job, room, sockets, spent>>
  PROVE  Kept
<1>1. h \in Working /\ task[h] # Idle /\ task[h].pc = pc0 /\ Slots /\ Programs /\ Counters
  BY AtPlace
<1>2. Counters' /\ (~Damaged' => ~Damaged)
  BY <1>1, Spent DEF Sound
<1>3. ~Watches(h) /\ task[h].kind # "initialize"
  BY DEF Watches, Watching
<1>4. CASE ReadMember(h, pc)
  <2>1. /\ Others(h) /\ Programs'
        /\ task'[h].kind = task[h].kind /\ task'[h].pc = pc
    BY <1>1, <1>4, ReadMemberEffect
  <2> QED
    BY <1>1, <1>2, <1>3, <1>4, <2>1, WorkKept DEF ReadMember, WatchKept
<1>5. CASE Finish(h)
  <2>1. Others(h) /\ task'[h] = Idle /\ Programs'
    BY <1>1, <1>5, FinishEffect
  <2> QED
    BY <1>1, <1>2, <1>3, <1>5, <2>1, WorkKept DEF Finish, WatchKept
<1> QED
  BY <1>4, <1>5

(* A handler that goes on to another call, or ends, and may queue the alarm. *)
LEMMA GotoKept ==
  ASSUME RoomInv, NEW h \in Tasks, NEW pc0, NEW pc \in Places, At(h, pc0), pc0 # "wait",
         pc0 \notin Between, pc \notin Between, task[h].kind # "initialize",
         pc = "recover" => status # "recruiting",
         Allowed(task[h].kind, pc),
         Goto(h, pc), Sound \/ Faulty \/ Lossy, sockets' \subseteq sockets,
         job' \/ ~job \/ Lossy,
         UNCHANGED <<status, room>>
  PROVE  Kept
<1>1. h \in Working /\ task[h] # Idle /\ task[h].pc = pc0 /\ Slots /\ Programs /\ Counters
  BY AtPlace
<1>2. Becomes(h, task[h].kind, pc) /\ Programs'
  BY <1>1, GotoEffect
<1>3. Counters' /\ (~Damaged' => ~Damaged /\ ~Lossy)
  BY <1>1, Spent, Lost
<1> QED
  BY <1>1, <1>2, <1>3, WorkKept DEF Becomes, Goto, WatchKept, Watches

LEMMA FinishKept ==
  ASSUME RoomInv, NEW h \in Tasks, NEW pc0, At(h, pc0), pc0 # "wait", pc0 \notin Between,
         Finish(h), Sound \/ Faulty \/ Lossy, sockets' \subseteq sockets,
         job' \/ Lossy \/ (job' = job /\ task[h].kind \notin Watching) \/ (Agree => room # "recruiting"),
         UNCHANGED <<status, room>>
  PROVE  Kept
<1>1. h \in Working /\ task[h] # Idle /\ task[h].pc = pc0 /\ Slots /\ Programs /\ Counters
  BY AtPlace
<1>2. Others(h) /\ task'[h] = Idle /\ Programs'
  BY <1>1, FinishEffect
<1>3. Counters' /\ (~Damaged' => ~Damaged /\ ~Lossy)
  BY <1>1, Spent, Lost
<1> QED
  BY <1>1, <1>2, <1>3, WorkKept DEF Finish, WatchKept, Watches

LEMMA SeatStepsKept ==
  ASSUME RoomInv, NEW h \in Tasks,
         \/ Revalidate(h) \/ MarkConnected(h) \/ PersistConnected(h)
         \/ ReadyRead(h) \/ UpdateReady(h)
         \/ Leave(h) \/ LeaveSeat(h) \/ RemoveMember(h)
  PROVE  Kept
<1> USE DEF redis, Between
<1>0. \A pc : pc # "wait" /\ At(h, pc) => task[h].pc = pc /\ Program(task[h])
  BY AtPlace
<1>1. CASE Revalidate(h)
  <2>1. At(h, "connect") /\ task[h].kind = "connect"
    BY <1>0, <1>1 DEF Revalidate, Program, Pcs, Kinds
  <2>2. Allowed(task[h].kind, "markConnected")
    BY <2>1 DEF Allowed, Pcs
  <2>3. ReadMember(h, "markConnected") \/ Finish(h)
    BY <1>1 DEF Revalidate
  <2>4. UNCHANGED <<status, job, room, sockets, spent>>
    BY <1>1 DEF Revalidate
  <2> QED
    BY <2>1, <2>2, <2>3, <2>4, ReadKept DEF Watching
<1>2. CASE MarkConnected(h)
  <2>1. At(h, "markConnected") /\ task[h].kind = "connect"
    BY <1>0, <1>2 DEF MarkConnected, Program, Pcs, Kinds
  <2>2. Allowed(task[h].kind, "persistConnected")
    BY <2>1 DEF Allowed, Pcs
  <2>3. "persistConnected" \in Places
    BY DEF Places
  <2> QED
    BY <1>2, <2>1, <2>2, <2>3, GotoKept DEF MarkConnected, Sound
<1>3. CASE PersistConnected(h)
  <2>1. At(h, "persistConnected") /\ task[h].kind = "connect"
    BY <1>0, <1>3 DEF PersistConnected, Program, Pcs, Kinds
  <2>2. CASE Sound /\ Finish(h) /\ UNCHANGED <<members, job, sockets, closing>>
    BY <1>3, <2>1, <2>2, FinishKept DEF PersistConnected, Watching
  <2>3. CASE spent' = [spent EXCEPT !["crash"] = @ + 1] /\ Dies(task[h].at)
    BY <2>3, DiesKept, SortNames
  <2> QED
    BY <1>3, <2>2, <2>3 DEF PersistConnected
<1>4. CASE ReadyRead(h)
  <2>1. At(h, "message") /\ task[h].kind = "message"
    BY <1>0, <1>4 DEF ReadyRead, Program, Pcs, Kinds
  <2>2. Allowed(task[h].kind, "updateReady")
    BY <2>1 DEF Allowed, Pcs
  <2>3. ReadMember(h, "updateReady") \/ Finish(h)
    BY <1>4 DEF ReadyRead
  <2>4. UNCHANGED <<status, job, room, sockets, spent>>
    BY <1>4 DEF ReadyRead
  <2> QED
    BY <2>1, <2>2, <2>3, <2>4, ReadKept DEF Watching
<1>5. CASE UpdateReady(h)
  <2>1. At(h, "updateReady") /\ task[h].kind = "message"
    BY <1>0, <1>5 DEF UpdateReady, Program, Pcs, Kinds
  <2> QED
    BY <1>5, <2>1, FinishKept DEF UpdateReady, Watching, Sound
<1>6. CASE Leave(h)
  <2>1. At(h, "close") /\ task[h].kind = "close"
    BY <1>0, <1>6 DEF Leave, Program, Pcs, Kinds
  <2>2. Allowed(task[h].kind, "markDisconnected")
    BY <2>1 DEF Allowed, Pcs
  <2>3. ReadMember(h, "markDisconnected") \/ Finish(h)
    BY <1>6 DEF Leave
  <2>4. UNCHANGED <<status, job, room, sockets, spent>>
    BY <1>6 DEF Leave
  <2> QED
    BY <2>1, <2>2, <2>3, <2>4, ReadKept DEF Watching
<1>7. CASE LeaveSeat(h)
  <2> DEFINE pc == IF task[h].player = Host THEN "forceClose" ELSE "removeMember"
  <2>1. At(h, "markDisconnected") /\ task[h].kind = "close"
    BY <1>0, <1>7 DEF LeaveSeat, Program, Pcs, Kinds
  <2>2. pc \in Places /\ pc \notin Between \cup {"recover"} /\ Allowed(task[h].kind, pc)
    BY <2>1 DEF Allowed, Pcs, Places, Kinds
  <2>3. Goto(h, pc) /\ (Sound \/ Lossy) /\ (job' \/ Lossy) /\ UNCHANGED <<status, room, sockets>>
    BY <1>7 DEF LeaveSeat, ScheduleOrLose, Schedule
  <2> HIDE DEF pc
  <2> QED
    BY <2>1, <2>2, <2>3, GotoKept
<1>8. CASE RemoveMember(h)
  <2>1. At(h, "removeMember") /\ task[h].kind = "close"
    BY <1>0, <1>8 DEF RemoveMember, Program, Pcs, Kinds
  <2> QED
    BY <1>8, <2>1, FinishKept DEF RemoveMember, Watching
<1> QED
  BY <1>1, <1>2, <1>3, <1>4, <1>5, <1>6, <1>7, <1>8

LEMMA AlarmStepsKept ==
  ASSUME RoomInv, NEW h \in Tasks, Ring(h) \/ Sweep(h) \/ Recover(h)
  PROVE  Kept
<1> USE DEF redis, Between
<1>0. \A pc : pc # "wait" /\ At(h, pc) =>
          /\ task[h].pc = pc /\ Program(task[h]) /\ h \in Working /\ task[h] # Idle
          /\ Slots /\ Programs /\ Counters /\ LockInv
  BY AtPlace
<1>1. CASE Ring(h)
  <2>1. At(h, "alarm") /\ task[h].kind = "alarm" /\ UNCHANGED <<status, job, room, sockets, spent>>
    BY <1>0, <1>1 DEF Ring, Program, Pcs, Kinds
  <2>2. CASE Finish(h) /\ status = "closed"
    BY <2>1, <2>2, FinishKept DEF Agree, Sound
  <2>3. ASSUME NEW pc \in {"recover", "sweep", "forceClose"}, Goto(h, pc),
               pc = "recover" => status # "recruiting"
        PROVE  Kept
    <3>1. pc \in Places /\ Allowed(task[h].kind, pc)
      BY <2>1 DEF Allowed, Places, Kinds, Pcs
    <3> QED
      BY <2>1, <2>3, <3>1, GotoKept DEF Sound
  <2> QED
    BY <1>1, <2>2, <2>3 DEF Ring
<1>2. CASE Sweep(h)
  <2>1. At(h, "sweep") /\ task[h].kind = "alarm" /\ UNCHANGED <<status, room, sockets>>
    BY <1>0, <1>2 DEF Sweep, Program, Pcs, Kinds
  <2>2. CASE ScheduleOrLose /\ Finish(h)
    BY <2>1, <2>2, FinishKept DEF ScheduleOrLose, Schedule
  <2>3. CASE Faulty /\ Fail(h)
    <3>1. job' /\ Finish(h)
      BY <2>1, <2>3 DEF Fail
    <3> QED
      BY <2>1, <2>3, <3>1, FinishKept
  <2> QED
    BY <1>2, <2>2, <2>3 DEF Sweep
<1>3. CASE Recover(h)
  <2>1. At(h, "recover") /\ task[h].kind = "alarm" /\ UNCHANGED <<status, sockets>>
    BY <1>0, <1>3 DEF Recover, Program, Pcs, Kinds
  <2>2. CASE Faulty /\ Fail(h) /\ room' = room
    <3>1. job' /\ Finish(h)
      BY <2>1, <2>2 DEF Fail
    <3> QED
      BY <2>1, <2>2, <3>1, FinishKept
  <2>3. CASE Sound /\ Finish(h) /\ room' = IF room = "recruiting" THEN "closed" ELSE room
    <3>1. Others(h) /\ task'[h] = Idle /\ Programs'
      BY <1>0, <2>1, <2>3, FinishEffect
    <3>2. Counters' /\ (~Damaged' => ~Damaged)
      BY <1>0, <2>1, <2>3, Spent
    <3>3. ASSUME ~Damaged' PROVE Calm'
      <4>1. Calm /\ h \in Working
        BY <1>0, <2>1, <3>2, <3>3 DEF RoomInv
      <4>2. task[h].pc \notin Between
        BY <1>0, <2>1
      <4>3. Agree
        BY <4>1, <4>2, WorkerAgrees
      <4>4. lapsed' = {}
        BY <2>3, <4>1, LapsedGone DEF Finish
      <4>5. room' # "recruiting"
        BY <2>3
      <4>6. Watched'
        BY <4>5 DEF Watched
      <4>7. OneCreation'
        BY <2>1, <2>3, <3>1, <4>1 DEF Calm, OneCreation, Is, Others
      <4>8. StatusFits'
        <5>1. \A o \in Working : o = h
          BY <1>0, <2>1, <4>1, OneWorker
        <5>2. Working' = {}
          BY <3>1, <5>1 DEF Working, Others
        <5>3. status # "recruiting"
          BY <1>0, <2>1, <4>1 DEF Calm, StatusFits, Fits
        <5> QED
          BY <2>1, <4>3, <4>5, <5>2, <5>3 DEF StatusFits, Agree
      <4> QED
        BY <4>4, <4>6, <4>7, <4>8 DEF Calm
    <3> QED
      BY <3>1, <3>2, <3>3 DEF Kept
  <2> QED
    BY <1>3, <2>2, <2>3 DEF Recover
<1> QED
  BY <1>1, <1>2, <1>3

-----------------------------------------------------------------------------
(* The steps that write a status, of which only the handler at work is capable. *)

(* While a room is there, no creation has yet to begin. *)
LEMMA NoCreation ==
  ASSUME Calm, status # "none", NEW h \in Tasks, ~Is(h, "initialize"), Others(h),
         task'[h] # Idle => task'[h].kind # "initialize",
         \A o \in Tasks : task[o] # Idle /\ task[o].pc = "createRoom" => o = h,
         status' = status \/ status' # "none"
  PROVE  OneCreation'
<1> SUFFICES ASSUME NEW o \in Tasks, Is(o, "initialize")'
             PROVE  /\ task'[o].pc \notin {"wait", "initialize"}
                    /\ \A q \in Tasks \ {o} : ~Is(q, "initialize")'
  BY DEF OneCreation
<1>1. o # h /\ task'[o] = task[o] /\ Is(o, "initialize")
  BY DEF Is, Others
<1>2. /\ task[o].pc \notin {"wait", "initialize"}
      /\ \A q \in Tasks \ {o} : ~Is(q, "initialize")
  BY <1>1 DEF Calm, OneCreation
<1> QED
  BY <1>1, <1>2 DEF Is, Others

LEMMA InsertMetaKept ==
  ASSUME RoomInv, NEW h \in Tasks, InsertMeta(h)
  PROVE  Kept
<1>1. /\ At(h, "initialize") /\ status' = "recruiting" /\ Goto(h, "createRoom")
      /\ UNCHANGED <<job, room, sockets, spent>>
  BY DEF InsertMeta
<1>2. /\ h \in Working /\ task[h] # Idle /\ task[h].pc = "initialize" /\ Program(task[h])
      /\ Slots /\ Programs /\ Counters /\ LockInv
  BY <1>1, AtPlace
<1>3. task[h].kind = "initialize"
  BY <1>2 DEF Program, Pcs, Kinds
<1>4. Becomes(h, "initialize", "createRoom") /\ Programs'
  <2>1. Allowed(task[h].kind, "createRoom") /\ "createRoom" \in Places
    BY <1>3 DEF Allowed, Pcs, Places
  <2> QED
    BY <1>1, <1>2, <1>3, <2>1, GotoEffect
<1>5. Counters' /\ (~Damaged' => ~Damaged)
  BY <1>1, <1>2, Spent DEF Sound
<1>6. ASSUME ~Damaged' PROVE Calm'
  <2>1. Calm /\ lapsed' = {}
    BY <1>1, <1>5, <1>6 DEF RoomInv, Calm, Goto
  <2>2. room = "absent" /\ \A o \in Tasks \ {h} : ~Is(o, "initialize")
    BY <1>2, <1>3, <2>1 DEF Calm, OneCreation, Is
  <2>3. Fits(h)' /\ h \in Working'
    BY <1>1, <1>4, <2>2 DEF Fits, Becomes, Between, Working
  <2>4. OneCreation'
    BY <1>4, <2>2 DEF OneCreation, Is, Becomes, Others
  <2>5. Watched'
    BY <1>1, <2>2 DEF Watched
  <2> QED
    BY <1>2, <1>4, <2>1, <2>3, <2>4, <2>5, SoleStep DEF Becomes
<1> QED
  BY <1>4, <1>5, <1>6 DEF Kept

LEMMA CreateRoomKept ==
  ASSUME RoomInv, NEW h \in Tasks, CreateRoom(h)
  PROVE  Kept
<1>1. At(h, "createRoom") /\ sockets' = sockets
  BY DEF CreateRoom
<1>2. /\ h \in Working /\ task[h] # Idle /\ task[h].pc = "createRoom" /\ Program(task[h])
      /\ Slots /\ Programs /\ Counters /\ LockInv
  BY <1>1, AtPlace
<1>3. task[h].kind = "initialize"
  BY <1>2 DEF Program, Pcs, Kinds
<1>4. CASE Sound /\ room' = "recruiting" /\ Goto(h, "firstAlarm") /\ UNCHANGED <<status, job>>
  <2>1. Becomes(h, "initialize", "firstAlarm") /\ Programs'
    <3>1. Allowed(task[h].kind, "firstAlarm") /\ "firstAlarm" \in Places
      BY <1>3 DEF Allowed, Pcs, Places
    <3> QED
      BY <1>2, <1>3, <1>4, <3>1, GotoEffect
  <2>2. Counters' /\ (~Damaged' => ~Damaged)
    BY <1>1, <1>2, <1>4, Spent
  <2>3. ASSUME ~Damaged' PROVE Calm'
    <3>1. Calm /\ lapsed' = {}
      BY <1>4, <2>2, <2>3 DEF RoomInv, Calm, Goto
    <3>2. status = "recruiting" /\ \A o \in Tasks \ {h} : ~Is(o, "initialize")
      BY <1>2, <1>3, <3>1 DEF Calm, OneCreation, Is, StatusFits, Fits
    <3>3. Fits(h)' /\ h \in Working'
      BY <1>4, <2>1, <3>2 DEF Fits, Becomes, Between, Working, Agree
    <3>4. OneCreation'
      BY <2>1, <3>2 DEF OneCreation, Is, Becomes, Others
    <3>5. Watched'
      BY <2>1 DEF Watched, Watches, Watching, Becomes
    <3> QED
      BY <1>2, <2>1, <3>1, <3>3, <3>4, <3>5, SoleStep DEF Becomes
  <2> QED
    BY <2>1, <2>2, <2>3 DEF Kept
<1>5. CASE Faulty /\ status' = "none" /\ Fail(h) /\ room' = room
  <2>1. /\ Others(h) /\ Programs'
        /\ task'[h] # Idle => task'[h].kind = "forceClose" /\ task'[h].pc = "wait"
    BY <1>2, <1>5, FailEffect
  <2>2. Counters' /\ (~Damaged' => ~Damaged)
    BY <1>1, <1>2, <1>5, Spent
  <2>3. ASSUME ~Damaged' PROVE Calm'
    <3>1. Calm
      BY <2>2, <2>3 DEF RoomInv
    <3>2. lapsed' = {}
      BY <1>5, <3>1, LapsedGone DEF Fail, Then, Finish
    <3>3. room = "absent" /\ \A o \in Tasks \ {h} : ~Is(o, "initialize")
      BY <1>2, <1>3, <3>1 DEF Calm, OneCreation, Is, StatusFits, Fits
    <3>4. h \notin Working' /\ Agree'
      BY <1>5, <2>1, <3>3 DEF Working, Agree
    <3>5. OneCreation'
      BY <2>1, <3>3 DEF OneCreation, Is, Others
    <3>6. Watched'
      BY <1>5, <3>3 DEF Watched
    <3> QED
      BY <1>2, <2>1, <3>1, <3>2, <3>4, <3>5, <3>6, SoleStep
  <2> QED
    BY <2>1, <2>2, <2>3 DEF Kept
<1> QED
  BY <1>4, <1>5 DEF CreateRoom

(* A closing handler is not a creation, and no creation is between its writes. *)
LEMMA SoleCreator ==
  ASSUME LockInv, Calm, NEW h \in Working
  PROVE  \A o \in Tasks : task[o] # Idle /\ task[o].pc = "createRoom" => o = h
BY OneWorker DEF Working

LEMMA ShutKept ==
  ASSUME RoomInv, NEW h \in Tasks, Shut(h)
  PROVE  Kept
<1>1. At(h, "forceClose") /\ UNCHANGED <<job, room, sockets, spent>>
  BY DEF Shut
<1>2. /\ h \in Working /\ task[h] # Idle /\ task[h].pc = "forceClose" /\ Program(task[h])
      /\ Slots /\ Programs /\ Counters /\ LockInv
  BY <1>1, AtPlace
<1>3. task[h].kind \in {"close", "alarm", "forceClose"}
  BY <1>2 DEF Program, Pcs, Kinds
<1>4. CASE status # "recruiting"
  <2>1. Finish(h) /\ status' = status
    BY <1>4 DEF Shut
  <2> QED
    BY <1>1, <1>4, <2>1, FinishKept DEF Sound, Between, Agree
<1>5. CASE status = "recruiting"
  <2>1. status' = "closing" /\ Goto(h, "closeRoom")
    BY <1>5 DEF Shut
  <2>2. Allowed(task[h].kind, "closeRoom") /\ "closeRoom" \in Places
    BY <1>3 DEF Allowed, Pcs, Places
  <2>3. Becomes(h, task[h].kind, "closeRoom") /\ Programs'
    BY <1>2, <2>1, <2>2, GotoEffect
  <2>4. Counters' /\ (~Damaged' => ~Damaged)
    BY <1>1, <1>2, Spent DEF Sound
  <2>5. ASSUME ~Damaged' PROVE Calm'
    <3>1. Calm /\ lapsed' = {}
      BY <2>1, <2>4, <2>5 DEF RoomInv, Calm, Goto
    <3>2. room = "recruiting"
      BY <1>2, <1>5, <3>1, WorkerAgrees DEF Between, Agree
    <3>3. Fits(h)' /\ h \in Working'
      BY <1>1, <2>1, <2>3, <3>2 DEF Fits, Becomes, Between, Working
    <3>4. OneCreation'
      BY <1>2, <1>3, <1>5, <2>1, <2>3, <3>1, NoCreation, SoleCreator DEF Is, Becomes
    <3>5. WatchKept(h)
      BY <1>1, <2>3 DEF WatchKept, Becomes, Watches
    <3>6. Watched'
      BY <1>1, <2>3, <3>1, <3>5, WatchedKept DEF Becomes, Calm
    <3> QED
      BY <1>2, <2>3, <3>1, <3>3, <3>4, <3>6, SoleStep DEF Becomes
  <2> QED
    BY <2>3, <2>4, <2>5 DEF Kept
<1> QED
  BY <1>4, <1>5

LEMMA ShutDurablyKept ==
  ASSUME RoomInv, NEW h \in Tasks, ShutDurably(h)
  PROVE  Kept
<1>1. At(h, "closeRoom") /\ sockets' = sockets
  BY DEF ShutDurably
<1>2. /\ h \in Working /\ task[h] # Idle /\ task[h].pc = "closeRoom" /\ Program(task[h])
      /\ Slots /\ Programs /\ Counters /\ LockInv
  BY <1>1, AtPlace
<1>3. task[h].kind \in {"close", "alarm", "forceClose"}
  BY <1>2 DEF Program, Pcs, Kinds
<1>4. ~Damaged => Calm /\ status = "closing" /\ room = "recruiting"
  BY <1>2 DEF RoomInv, Calm, StatusFits, Fits
<1>5. CASE Sound /\ room' = "closed" /\ Goto(h, "closed") /\ UNCHANGED <<status, job>>
  <2>1. Allowed(task[h].kind, "closed") /\ "closed" \in Places
    BY <1>3 DEF Allowed, Pcs, Places
  <2>2. Becomes(h, task[h].kind, "closed") /\ Programs'
    BY <1>2, <1>5, <2>1, GotoEffect
  <2>3. Counters' /\ (~Damaged' => ~Damaged)
    BY <1>1, <1>2, <1>5, Spent
  <2>4. ASSUME ~Damaged' PROVE Calm'
    <3>1. Calm /\ lapsed' = {} /\ status = "closing"
      BY <1>4, <1>5, <2>3, <2>4 DEF Calm, Goto
    <3>2. Fits(h)' /\ h \in Working'
      BY <1>5, <2>2, <3>1 DEF Fits, Becomes, Between, Working
    <3>3. OneCreation'
      BY <1>2, <1>3, <1>5, <2>2, <3>1, NoCreation, SoleCreator DEF Is, Becomes
    <3>4. Watched'
      BY <1>5 DEF Watched
    <3> QED
      BY <1>2, <2>2, <3>1, <3>2, <3>3, <3>4, SoleStep DEF Becomes
  <2> QED
    BY <2>2, <2>3, <2>4 DEF Kept
<1>6. CASE Faulty /\ status' = "recruiting" /\ job' = TRUE /\ Finish(h) /\ room' = room
  <2>1. Others(h) /\ task'[h] = Idle /\ Programs'
    BY <1>2, <1>6, FinishEffect
  <2>2. Counters' /\ (~Damaged' => ~Damaged)
    BY <1>1, <1>2, <1>6, Spent
  <2>3. ASSUME ~Damaged' PROVE Calm'
    <3>1. Calm /\ status = "closing" /\ room = "recruiting"
      BY <1>4, <2>2, <2>3
    <3>2. lapsed' = {}
      BY <1>6, <3>1, LapsedGone DEF Finish
    <3>3. Agree' /\ h \notin Working' /\ Watched'
      BY <1>6, <2>1, <3>1 DEF Agree, Working, Watched
    <3>4. OneCreation'
      BY <1>2, <1>3, <1>6, <2>1, <3>1, NoCreation, SoleCreator DEF Is
    <3> QED
      BY <1>2, <2>1, <3>1, <3>2, <3>3, <3>4, SoleStep
  <2> QED
    BY <2>1, <2>2, <2>3 DEF Kept
<1> QED
  BY <1>5, <1>6 DEF ShutDurably

LEMMA ShutSocketsKept ==
  ASSUME RoomInv, NEW h \in Tasks, ShutSockets(h)
  PROVE  Kept
<1>1. /\ At(h, "closed") /\ status' = "closed" /\ Finish(h) /\ sockets' \subseteq sockets
      /\ UNCHANGED <<job, room>> /\ (Sound \/ Lossy)
  BY DEF ShutSockets
<1>2. /\ h \in Working /\ task[h] # Idle /\ task[h].pc = "closed" /\ Program(task[h])
      /\ Slots /\ Programs /\ Counters /\ LockInv
  BY <1>1, AtPlace
<1>3. task[h].kind \in {"close", "alarm", "forceClose"}
  BY <1>2 DEF Program, Pcs, Kinds
<1>4. Others(h) /\ task'[h] = Idle /\ Programs'
  BY <1>1, <1>2, FinishEffect
<1>5. Counters' /\ (~Damaged' => ~Damaged)
  BY <1>1, <1>2, Spent, Lost
<1>6. ASSUME ~Damaged' PROVE Calm'
  <2>1. Calm /\ status = "closing" /\ room = "closed"
    BY <1>2, <1>5, <1>6 DEF RoomInv, Calm, StatusFits, Fits
  <2>2. lapsed' = {}
    BY <1>1, <2>1, LapsedGone DEF Finish
  <2>3. Agree' /\ h \notin Working' /\ Watched'
    BY <1>1, <1>4, <2>1 DEF Agree, Working, Watched
  <2>4. OneCreation'
    BY <1>1, <1>2, <1>3, <1>4, <2>1, NoCreation, SoleCreator DEF Is
  <2> QED
    BY <1>2, <1>4, <2>1, <2>2, <2>3, <2>4, SoleStep
<1> QED
  BY <1>4, <1>5, <1>6 DEF Kept

-----------------------------------------------------------------------------
(* What is nobody's handler. *)
LEMMA BackgroundKept ==
  ASSUME RoomInv, \/ UNCHANGED vars \/ LeaseExpires \/ Outage \/ Expire
                  \/ (\E i \in Instances : DeliverClose(i) \/ Crash(i))
                  \/ (\E p \in Players : ReservationAges(p))
  PROVE  Kept
<1> USE DEF redis
<1>0. Slots /\ Programs /\ Counters /\ LockInv /\ (~Damaged => Calm)
  BY DEF RoomInv, LockInv
<1>1. ASSUME UNCHANGED <<status, job, room, task, spent, lapsed>>, sockets' \subseteq sockets
      PROVE  Kept
  <2>1. Programs' /\ Counters' /\ (~Damaged' => ~Damaged)
    BY <1>0, <1>1 DEF Programs, Counters, Damaged, Total
  <2>2. Calm => Calm'
    BY <1>1 DEF Calm, StatusFits, Fits, Agree, Working, OneCreation, Is, Watched, Watches
  <2> QED
    BY <1>0, <2>1, <2>2 DEF Kept
<1>2. CASE UNCHANGED vars \/ (\E p \in Players : ReservationAges(p))
  BY <1>1, <1>2 DEF vars, ReservationAges
<1>3. ASSUME NEW i \in Instances, DeliverClose(i) PROVE Kept
  BY <1>1, <1>3 DEF DeliverClose
<1>4. ASSUME NEW i \in Instances, Crash(i) PROVE Kept
  BY <1>4, DiesKept, SortNames DEF Crash, Spend
<1>5. CASE LeaseExpires
  <2>1. CASE lock \in Working
    <3>1. Programs' /\ sockets' = sockets /\ Spend("overrun")
      BY <1>0, <1>5, <2>1 DEF LeaseExpires, Programs
    <3> QED
      BY <1>0, <3>1, Lost DEF Kept
  <2>2. CASE lock \notin Working
    BY <1>1, <1>5, <2>2 DEF LeaseExpires
  <2> QED
    BY <2>1, <2>2
<1>6. CASE Outage
  <2>1. Programs' /\ sockets' \subseteq sockets /\ Spend("crash")
    BY <1>6 DEF Outage, Programs
  <2> QED
    BY <1>0, <2>1, Lost DEF Kept
<1>7. CASE Expire
  <2>1. /\ ~job /\ \A h \in Tasks : task[h] = Idle
        /\ status' = "none" /\ UNCHANGED <<job, room, sockets, task, lapsed, spent>>
    BY <1>7 DEF Expire
  <2>2. Programs' /\ Counters' /\ (~Damaged' => ~Damaged)
    BY <1>0, <2>1 DEF Programs, Counters, Damaged, Total
  <2>3. Calm => Calm'
    <3> SUFFICES ASSUME Calm PROVE Calm'
      OBVIOUS
    <3>1. room # "recruiting"
      BY <2>1 DEF Calm, Watched, Watches
    <3> QED
      BY <2>1, <3>1 DEF Calm, StatusFits, Agree, Working, OneCreation, Is, Watched
  <2> QED
    BY <1>0, <2>2, <2>3 DEF Kept
<1> QED
  BY <1>2, <1>3, <1>4, <1>5, <1>6, <1>7

LEMMA StepKept == ASSUME RoomInv, NEW h \in Tasks, Step(h) PROVE Kept
<1>1. CASE InsertMeta(h) \/ CreateRoom(h) \/ FirstAlarm(h) \/ InsertMember(h) \/ ReserveSeat(h)
  BY <1>1, InsertMetaKept, CreateRoomKept, FirstAlarmKept, InsertMemberKept, ReserveSeatKept
<1>2. CASE \/ Revalidate(h) \/ MarkConnected(h) \/ PersistConnected(h)
           \/ ReadyRead(h) \/ UpdateReady(h)
           \/ Leave(h) \/ LeaveSeat(h) \/ RemoveMember(h)
  BY <1>2, SeatStepsKept
<1>3. CASE Shut(h) \/ ShutDurably(h) \/ ShutSockets(h)
  BY <1>3, ShutKept, ShutDurablyKept, ShutSocketsKept
<1>4. CASE Ring(h) \/ Sweep(h) \/ Recover(h)
  BY <1>4, AlarmStepsKept
<1> QED
  BY <1>1, <1>2, <1>3, <1>4 DEF Step

LEMMA RoomInvariant == Spec => []RoomInv
<1>1. Init => RoomInv
  <2> SUFFICES ASSUME Init PROVE RoomInv
    OBVIOUS
  <2>1. LockInv /\ Programs /\ Working = {}
    BY DEF Init, LockInv, Slots, Locked, LeaseHolderOwnsLock, Working, Programs
  <2>2. Counters
    BY DEF Init, Counters
  <2>3. Calm
    BY <2>1 DEF Init, Calm, StatusFits, Agree, OneCreation, Is, Watched
  <2> QED
    BY <2>1, <2>2, <2>3 DEF RoomInv
<1>2. RoomInv /\ [Next]_vars => RoomInv'
  <2> SUFFICES ASSUME RoomInv, [Next]_vars PROVE RoomInv'
    OBVIOUS
  <2>1. Kept
    <3>1. CASE \E h \in Tasks : Acquire(h) \/ GiveUp(h) \/ Step(h)
      BY <3>1, AcquireKept, GiveUpKept, StepKept
    <3>2. CASE \E h \in Tasks, i \in Instances : Start(h, i) \/ ClaimAlarm(h, i)
      BY <3>2, StartsKept
    <3>3. CASE \E h \in Tasks, s \in sockets : SocketCloses(h, s[1], s[2])
      BY <3>3, SocketClosesKept
    <3>4. CASE \/ UNCHANGED vars \/ LeaseExpires \/ Outage \/ Expire
               \/ (\E i \in Instances : DeliverClose(i) \/ Crash(i))
               \/ (\E p \in Players : ReservationAges(p))
      BY <3>4, BackgroundKept
    <3> QED
      BY <3>1, <3>2, <3>3, <3>4 DEF Next
  <2>2. LockInv'
    BY LockSteps, LockStepKeeps DEF RoomInv
  <2> QED
    BY <2>1, <2>2 DEF Kept, RoomInv
<1> QED
  BY <1>1, <1>2, PTL DEF Spec

(* closeRoom, initialize and the alarm: as long as nothing but database calls
   failed, the live status in Redis and the durable one agree whenever no
   handler is at work, whatever the handlers of all instances do in turn. *)
THEOREM StatusesAgreeWhenQuiet == Spec => []QuietAgreement
<1>1. RoomInv => QuietAgreement
  BY DEF RoomInv, Calm, StatusFits, Agree, QuietAgreement
<1> QED
  BY <1>1, RoomInvariant, PTL

(* scheduleRoomAlarm and poll: as long as nothing but database calls failed, an
   open room has its alarm in the job queue, or a handler that was to run or to
   queue it is under way. *)
THEOREM OpenRoomKeepsAlarm == Spec => []OpenRoomIsWatched
<1>1. RoomInv => OpenRoomIsWatched
  BY DEF RoomInv, Calm, Watched, Watches, Watching, OpenRoomIsWatched
<1> QED
  BY <1>1, RoomInvariant, PTL
===============================================================================
