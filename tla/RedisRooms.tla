----------------------------- MODULE RedisRooms -----------------------------
(***************************************************************************)
(* One room in the Redis deployment (src/src/adapters/realtime/redis): its *)
(* live state in Redis hashes, its alarm in a job queue, its sockets spread *)
(* over server instances.  Handlers of all instances are serialised by a    *)
(* lock key with a lease; a handler is a task that takes the lock and then  *)
(* works in steps, one per Redis or database call that another task could   *)
(* come between once a lease has run out, or an instance could die after.   *)
(*                                                                         *)
(* What the handlers do to plays is RoomEngine's subject and left out here; *)
(* a member record is reduced to what decides whether a seat is reclaimed.  *)
(* Time: a job may be claimed as soon as it is queued, a lease may run out  *)
(* while its holder works, and the six hours after which untouched live     *)
(* keys expire only pass while nothing is left that would touch them.       *)
(***************************************************************************)
EXTENDS Integers, FiniteSets

CONSTANTS
    Instances,    \* server processes on the same Redis and database
    Tasks,        \* bound: handlers under way at a time, over all instances
    Guests,       \* players other than the room's host
    Host,         \* the player who created the room
    Free,         \* the lock key does not exist
    NoSeat,       \* no record in the members hash
    Idle,         \* no handler in a task slot
    Failures,     \* the sorts of failure that happen
    MaxFailures   \* bound: failures in all

Players == Guests \cup {Host}

(* Reservation ids.  Only whether two are the same matters, so an id is used
   again when no seat and no handler knows it any more. *)
Tickets == 0..Cardinality(Tasks)

(* A record of the members hash: its reservation, connected, and whether the
   alarm may reclaim it if it is not (reserved_at is 0 or more than a minute
   ago). *)
Seat == [ticket: Tickets, connected: BOOLEAN, stale: BOOLEAN]

Kinds == {"initialize", "reserve", "connect", "message", "close", "alarm", "forceClose"}

(* Where a handler stands: it waits for the lock, has just taken it, or is about
   to make one of its later calls. *)
Places ==
    Kinds \cup {"wait", "createRoom", "firstAlarm", "reserveSeat", "markConnected",
                "persistConnected", "updateReady", "markDisconnected", "removeMember",
                "closeRoom", "closed", "sweep", "recover"}

(* A handler: the player whose seat it is about, where it stands, and the
   member record its ticket is for or that it has read and will write back. *)
Task == [kind: Kinds, at: Instances, player: Players, pc: Places, got: Seat \cup {NoSeat}]

(* A database call that fails, a lease that runs out under a live holder, a
   command lost on the way to Redis or a lock wait given up, an instance that
   dies. *)
Sorts == {"fault", "overrun", "loss", "crash"}

ASSUME RedisAssumption ==
    /\ Host \notin Guests
    /\ IsFiniteSet(Tasks) /\ Free \notin Tasks
    /\ NoSeat \notin Seat
    /\ Idle \notin Task
    /\ Failures \subseteq Sorts
    /\ MaxFailures \in Nat

VARIABLES
    status,    \* room:{id}:meta status, "none" when the key is missing
    members,   \* room:{id}:members by player
    lock,      \* room:{id}:lock: the task whose token it holds
    job,       \* the room's member of the job queue is present
    closing,   \* instances that a published close has not reached yet
    room,      \* durable status of the room
    sockets,   \* open sockets, with the instance that serves them
    task,      \* handlers by slot
    lapsed,    \* tasks still working although their lease ran out
    spent      \* failures so far, by sort

vars == <<status, members, lock, job, closing, room, sockets, task, lapsed, spent>>
redis == <<status, members, job>>

Working == {h \in Tasks : task[h] # Idle /\ task[h].pc # "wait"}

TypeOK ==
    /\ status \in {"none", "recruiting", "closing", "closed"}
    /\ members \in [Players -> Seat \cup {NoSeat}]
    /\ lock \in Tasks \cup {Free}
    /\ job \in BOOLEAN
    /\ closing \subseteq Instances
    /\ room \in {"absent", "recruiting", "closed"}
    /\ sockets \subseteq Instances \X Players
    /\ \A h \in Tasks : task[h] # Idle => task[h] \in Task
    /\ lapsed \subseteq Working
    /\ spent \in [Sorts -> 0..MaxFailures]

Init ==
    /\ status = "none" /\ room = "absent"
    /\ members = [p \in Players |-> NoSeat]
    /\ lock = Free /\ job = FALSE /\ closing = {} /\ sockets = {}
    /\ task = [h \in Tasks |-> Idle] /\ lapsed = {}
    /\ spent = [s \in Sorts |-> 0]

Total == spent["fault"] + spent["overrun"] + spent["loss"] + spent["crash"]

Spend(sort) ==
    /\ sort \in Failures /\ Total < MaxFailures
    /\ spent' = [spent EXCEPT ![sort] = @ + 1]

Sound  == UNCHANGED spent
Faulty == Spend("fault")
Lossy  == Spend("loss")

-----------------------------------------------------------------------------
(* Handlers and their lock. *)

Begin(h, kind, i, p) ==
    task' = [task EXCEPT ![h] =
        [kind |-> kind, at |-> i, player |-> p, pc |-> "wait",
         got |-> IF kind = "connect" THEN members[p] ELSE NoSeat]]

(* A slot whose last task died holding the lock is not used again before the
   lease has run out: tokens are never used twice. *)
Idles(h) == task[h] = Idle /\ lock # h

(* withLock: SET NX PX with a token of the task's own. *)
Acquire(h) ==
    /\ task[h] # Idle /\ task[h].pc = "wait"
    /\ lock = Free
    /\ lock' = h
    /\ task' = [task EXCEPT ![h].pc = task[h].kind]
    /\ UNCHANGED <<redis, closing, room, sockets, lapsed, spent>>

(* Mutant of Unlocked: the key is deleted whoever holds it. *)
UnlockedAlways(h) == Free

(* RELEASE_LUA: the key is deleted only if it still holds the task's token. *)
Unlocked(h) == IF lock = h THEN Free ELSE lock

Goto(h, pc) ==
    /\ task' = [task EXCEPT ![h].pc = pc, ![h].got = NoSeat]
    /\ UNCHANGED <<lock, lapsed>>

Release(h) == lock' = Unlocked(h) /\ lapsed' = lapsed \ {h}

Finish(h) ==
    /\ Release(h)
    /\ task' = [task EXCEPT ![h] = Idle]

(* The handler is done with the lock and goes on to another one. *)
Then(h, kind) ==
    /\ Release(h)
    /\ task' = [task EXCEPT ![h].kind = kind, ![h].pc = "wait", ![h].got = NoSeat]

(* Mutant of LeaseExpires: the lock has no lease. *)
NeverExpires == FALSE /\ UNCHANGED vars

(* The lease runs out.  Nobody tells the holder, if it still lives. *)
LeaseExpires ==
    /\ lock # Free
    /\ lock' = Free
    /\ IF lock \in Working
       THEN /\ Spend("overrun")
            /\ lapsed' = lapsed \cup {lock}
       ELSE UNCHANGED <<spent, lapsed>>
    /\ UNCHANGED <<redis, closing, room, sockets, task>>

At(h, pc) == task[h] # Idle /\ task[h].pc = pc

-----------------------------------------------------------------------------
(* The job queue.  Scheduling is fire and forget; ZADD overwrites the room's
   earlier entry. *)

Schedule == job' = TRUE /\ Sound

ScheduleOrLose ==
    \/ Schedule
    \/ Lossy /\ UNCHANGED job

(* poll: an entry is removed when it is claimed, and its handler starts. *)
ClaimAlarm(h, i) ==
    /\ Idles(h) /\ job
    /\ job' = FALSE
    /\ Begin(h, "alarm", i, Host)
    /\ UNCHANGED <<status, members, lock, closing, room, sockets, lapsed, spent>>

(* Mutant of Fail: a failed alarm is forgotten. *)
FailQuietly(h) ==
    /\ UNCHANGED job
    /\ IF task[h].kind \in {"initialize", "reserve"} /\ task[h].player = Host
       THEN Then(h, "forceClose")
       ELSE Finish(h)

(* A handler that throws: a failed alarm is queued again (ZADD LT keeps an
   entry that is already there), a failed creation closes the room. *)
Fail(h) ==
    /\ job' = (job \/ task[h].kind = "alarm")
    /\ IF task[h].kind \in {"initialize", "reserve"} /\ task[h].player = Host
       THEN Then(h, "forceClose")
       ELSE Finish(h)

(* An instance ends with its handlers and its sockets; no close event of
   theirs is ever handled.  It is started again at once. *)
Dies(i) ==
    LET gone == {h \in Tasks : task[h] # Idle /\ task[h].at = i} IN
    /\ task' = [h \in Tasks |-> IF h \in gone THEN Idle ELSE task[h]]
    /\ lapsed' = lapsed \ gone
    /\ sockets' = {s \in sockets : s[1] # i}
    /\ closing' = closing \ {i}

(* The wait for the lock is given up after eight seconds.  A close event that
   gives up is lost, its error is swallowed; a join's error is handled by
   nobody, which ends the process. *)
GiveUp(h) ==
    /\ At(h, "wait") /\ lock # Free
    /\ Lossy
    /\ IF task[h].kind = "connect" THEN Dies(task[h].at) /\ UNCHANGED <<lock, job>>
       ELSE Fail(h) /\ UNCHANGED <<closing, sockets>>
    /\ UNCHANGED <<status, members, room>>

-----------------------------------------------------------------------------
(* Creation: initialize and the creator's reserve are two locked handlers.  Every
   creation has an id of its own; the model uses that of one that failed again
   once nothing is left of it. *)

Create(h, i) ==
    /\ room = "absent" /\ status = "none" /\ Idles(h)
    /\ \A o \in Tasks : task[o] = Idle
    /\ Begin(h, "initialize", i, Host)
    /\ UNCHANGED <<redis, lock, closing, room, sockets, lapsed, spent>>

InsertMeta(h) ==
    /\ At(h, "initialize")
    /\ status' = "recruiting"
    /\ Goto(h, "createRoom")
    /\ UNCHANGED <<members, job, closing, room, sockets, spent>>

CreateRoom(h) ==
    /\ At(h, "createRoom")
    /\ \/ Sound /\ room' = "recruiting" /\ Goto(h, "firstAlarm") /\ UNCHANGED <<status, job>>
       \/ Faulty /\ status' = "none" /\ Fail(h) /\ UNCHANGED room
    /\ UNCHANGED <<members, closing, sockets>>

FirstAlarm(h) ==
    /\ At(h, "firstAlarm")
    /\ ScheduleOrLose
    /\ Then(h, "reserve")
    /\ UNCHANGED <<status, members, closing, room, sockets>>

(* reserve: a newcomer gets a seat, an unconnected one a new reservation. *)
StartReserve(h, i, p) ==
    /\ Idles(h) /\ room = "recruiting"
    /\ p = Host => members[Host] # NoSeat
    /\ Begin(h, "reserve", i, p)
    /\ UNCHANGED <<redis, lock, closing, room, sockets, lapsed, spent>>

NewTicket(p) ==
    LET held == {h \in Tasks : task[h] # Idle /\ task[h].player = p /\ task[h].got # NoSeat}
        free == Tickets \ {task[h].got.ticket : h \in held}
    IN CHOOSE t \in free : TRUE

InsertMember(h) ==
    LET p == task[h].player IN
    /\ At(h, "reserve")
    /\ IF status # "recruiting" \/ (members[p] # NoSeat /\ members[p].connected)
       THEN Fail(h) /\ UNCHANGED members
       ELSE /\ members' = [members EXCEPT ![p] =
                               [ticket |-> NewTicket(p), connected |-> FALSE, stale |-> FALSE]]
            /\ UNCHANGED job
            /\ IF members[p] = NoSeat THEN Goto(h, "reserveSeat") ELSE Finish(h)
    /\ UNCHANGED <<status, closing, room, sockets, spent>>

ReserveSeat(h) ==
    /\ At(h, "reserveSeat")
    /\ \/ ScheduleOrLose /\ Finish(h) /\ UNCHANGED members
       \/ /\ Faulty /\ Fail(h)
          /\ members' = [members EXCEPT ![task[h].player] = NoSeat]
    /\ UNCHANGED <<status, closing, room, sockets>>

(* The minute of a reservation passes. *)
ReservationAges(p) ==
    /\ members[p] # NoSeat /\ ~members[p].connected /\ ~members[p].stale
    /\ members' = [members EXCEPT ![p].stale = TRUE]
    /\ UNCHANGED <<status, job, lock, closing, room, sockets, task, lapsed, spent>>

-----------------------------------------------------------------------------
(* Joining.  Events of the socket are wired before it is registered.  A
   member record is read and written back by two separate commands. *)

StartConnect(h, i, p) ==
    /\ Idles(h)
    /\ status = "recruiting" /\ members[p] # NoSeat /\ ~members[p].connected
    /\ <<i, p>> \notin sockets
    /\ sockets' = sockets \cup {<<i, p>>}
    /\ Begin(h, "connect", i, p)
    /\ UNCHANGED <<redis, lock, closing, room, lapsed, spent>>

ReadMember(h, pc) ==
    /\ task' = [task EXCEPT ![h].pc = pc, ![h].got = members[task[h].player]]
    /\ UNCHANGED <<lock, lapsed>>

(* The ticket is checked again; a socket that is refused owes a close event. *)
Revalidate(h) ==
    LET p == task[h].player IN
    /\ At(h, "connect")
    /\ IF /\ status = "recruiting" /\ members[p] # NoSeat /\ ~members[p].connected
          /\ members[p].ticket = task[h].got.ticket
       THEN ReadMember(h, "markConnected")
       ELSE Finish(h)
    /\ UNCHANGED <<redis, closing, room, sockets, spent>>

WriteBack(h, connected, stale) ==
    members' = [members EXCEPT ![task[h].player] =
                    [ticket |-> task[h].got.ticket, connected |-> connected, stale |-> stale]]

MarkConnected(h) ==
    /\ At(h, "markConnected")
    /\ WriteBack(h, TRUE, task[h].got.stale)
    /\ Goto(h, "persistConnected")
    /\ UNCHANGED <<status, job, closing, room, sockets, spent>>

MarkDisconnected(p) ==
    [members EXCEPT ![p] = IF @ = NoSeat THEN NoSeat
                             ELSE [@ EXCEPT !.connected = FALSE, !.stale = TRUE]]

(* A join that cannot be recorded is taken back; its error is handled by
   nobody and ends the process. *)
PersistConnected(h) ==
    LET p == task[h].player IN
    /\ At(h, "persistConnected")
    /\ \/ Sound /\ Finish(h) /\ UNCHANGED <<members, job, sockets, closing>>
       \/ /\ job' = TRUE /\ members' = MarkDisconnected(p)
          /\ "fault" \in Failures /\ Total < MaxFailures
          /\ spent' = [spent EXCEPT !["crash"] = @ + 1]
          /\ Dies(task[h].at)
          /\ UNCHANGED lock
    /\ UNCHANGED <<status, room>>

(* A message of a member that rewrites its record (ready); that of anybody
   else only gets its socket closed, which the close event stands for. *)
StartMessage(h, i, p) ==
    /\ Idles(h) /\ <<i, p>> \in sockets
    /\ status = "recruiting" /\ members[p] # NoSeat /\ members[p].connected
    /\ Begin(h, "message", i, p)
    /\ UNCHANGED <<redis, lock, closing, room, sockets, lapsed, spent>>

ReadyRead(h) ==
    LET p == task[h].player IN
    /\ At(h, "message")
    /\ IF status = "recruiting" /\ members[p] # NoSeat /\ members[p].connected
       THEN ReadMember(h, "updateReady")
       ELSE Finish(h)
    /\ UNCHANGED <<redis, closing, room, sockets, spent>>

UpdateReady(h) ==
    /\ At(h, "updateReady")
    /\ WriteBack(h, task[h].got.connected, task[h].got.stale)
    /\ Finish(h)
    /\ UNCHANGED <<status, job, closing, room, sockets, spent>>

-----------------------------------------------------------------------------
(* Leaving: the close or error event of a socket. *)

SocketCloses(h, i, p) ==
    /\ Idles(h) /\ <<i, p>> \in sockets
    /\ sockets' = sockets \ {<<i, p>>}
    /\ Begin(h, "close", i, p)
    /\ UNCHANGED <<redis, lock, closing, room, lapsed, spent>>

(* Mutant of Leave: a close that comes before its join finds nothing to do. *)
LeaveConnected(h) ==
    LET p == task[h].player IN
    /\ At(h, "close")
    /\ IF status = "recruiting" /\ members[p] # NoSeat /\ members[p].connected
       THEN ReadMember(h, "markDisconnected")
       ELSE Finish(h)
    /\ UNCHANGED <<redis, closing, room, sockets, spent>>

Leave(h) ==
    /\ At(h, "close")
    /\ IF status = "recruiting" /\ members[task[h].player] # NoSeat
       THEN ReadMember(h, "markDisconnected")
       ELSE Finish(h)
    /\ UNCHANGED <<redis, closing, room, sockets, spent>>

(* The seat is kept for a retry, which the alarm sees to; the host's absence
   closes the room. *)
LeaveSeat(h) ==
    LET p == task[h].player IN
    /\ At(h, "markDisconnected")
    /\ WriteBack(h, FALSE, TRUE)
    /\ ScheduleOrLose
    /\ Goto(h, IF p = Host THEN "forceClose" ELSE "removeMember")
    /\ UNCHANGED <<status, closing, room, sockets>>

RemoveMember(h) ==
    /\ At(h, "removeMember")
    /\ \/ Sound /\ members' = [members EXCEPT ![task[h].player] = NoSeat]
       \/ Faulty /\ UNCHANGED members
    /\ Finish(h)
    /\ UNCHANGED <<status, job, closing, room, sockets>>

-----------------------------------------------------------------------------
(* closeRoom, reached by the administrator, a failed creation, the host's
   close event and the alarm. *)

StartForceClose(h, i) ==
    /\ Idles(h) /\ room = "recruiting"
    /\ Begin(h, "forceClose", i, Host)
    /\ UNCHANGED <<redis, lock, closing, room, sockets, lapsed, spent>>

Shut(h) ==
    /\ At(h, "forceClose")
    /\ IF status = "recruiting"
       THEN status' = "closing" /\ Goto(h, "closeRoom")
       ELSE UNCHANGED status /\ Finish(h)
    /\ UNCHANGED <<members, job, closing, room, sockets, spent>>

(* Mutant of ShutDurably: the status is not restored when the write fails. *)
ShutHalfway(h) ==
    /\ At(h, "closeRoom")
    /\ \/ Sound /\ room' = "closed" /\ Goto(h, "closed") /\ UNCHANGED <<status, job>>
       \/ Faulty /\ UNCHANGED <<room, status>> /\ job' = TRUE /\ Finish(h)
    /\ UNCHANGED <<members, closing, sockets>>

(* Mutant of ShutDurably: the live status is what gets stored. *)
ShutAsClosing(h) ==
    /\ At(h, "closeRoom")
    /\ \/ Sound /\ room' = status /\ Goto(h, "closed") /\ UNCHANGED <<status, job>>
       \/ Faulty /\ status' = "recruiting" /\ job' = TRUE /\ Finish(h) /\ UNCHANGED room
    /\ UNCHANGED <<members, closing, sockets>>

ShutDurably(h) ==
    /\ At(h, "closeRoom")
    /\ \/ Sound /\ room' = "closed" /\ Goto(h, "closed") /\ UNCHANGED <<status, job>>
       \/ Faulty /\ status' = "recruiting" /\ job' = TRUE /\ Finish(h) /\ UNCHANGED room
    /\ UNCHANGED <<members, closing, sockets>>

(* The sockets of this instance are closed here, the others' over the bus; a
   closed room's close events and members are of no consequence any more. *)
ShutSockets(h) ==
    /\ At(h, "closed")
    /\ status' = "closed"
    /\ members' = [p \in Players |-> IF members[p] = NoSeat THEN NoSeat
                                     ELSE [members[p] EXCEPT !.connected = FALSE]]
    /\ sockets' = {s \in sockets : s[1] # task[h].at}
    /\ \/ Sound /\ closing' = Instances \ {task[h].at}
       \/ Lossy /\ UNCHANGED closing
    /\ Finish(h)
    /\ UNCHANGED <<job, room>>

DeliverClose(i) ==
    /\ i \in closing
    /\ closing' = closing \ {i}
    /\ sockets' = {s \in sockets : s[1] # i}
    /\ UNCHANGED <<redis, lock, room, task, lapsed, spent>>

-----------------------------------------------------------------------------
(* The alarm. *)

HostPresent == members[Host] # NoSeat /\ members[Host].connected

Stale == {p \in Players : members[p] # NoSeat /\ ~members[p].connected /\ members[p].stale}

Ring(h) ==
    /\ At(h, "alarm")
    /\ IF status = "none" THEN Goto(h, "recover")
       ELSE IF status = "closed" THEN Finish(h)
       ELSE Goto(h, IF HostPresent THEN "sweep" ELSE "forceClose")
    /\ UNCHANGED <<redis, closing, room, sockets, spent>>

(* Stale seats are freed until a write fails. *)
Sweep(h) ==
    /\ At(h, "sweep")
    /\ \E freed \in SUBSET Stale :
        /\ members' = [p \in Players |-> IF p \in freed THEN NoSeat ELSE members[p]]
        /\ \/ freed = Stale /\ ScheduleOrLose /\ Finish(h)
           \/ Faulty /\ Fail(h)
    /\ UNCHANGED <<status, closing, room, sockets>>

(* recoverExpiredRoom: the live keys are gone, the durable room is closed. *)
Recover(h) ==
    /\ At(h, "recover")
    /\ \/ Sound /\ Finish(h) /\ UNCHANGED job
          /\ room' = IF room = "recruiting" THEN "closed" ELSE room
       \/ Faulty /\ Fail(h) /\ UNCHANGED room
    /\ UNCHANGED <<status, members, closing, sockets>>

-----------------------------------------------------------------------------
(* Failures. *)

Crash(i) ==
    /\ Spend("crash")
    /\ Dies(i)
    /\ UNCHANGED <<redis, lock, room>>

(* Six hours pass with all instances down: the live keys expire, the job
   queue does not. *)
Outage ==
    /\ Spend("crash")
    /\ task' = [h \in Tasks |-> Idle] /\ lapsed' = {} /\ lock' = Free
    /\ sockets' = {} /\ closing' = {}
    /\ status' = "none" /\ members' = [p \in Players |-> NoSeat]
    /\ UNCHANGED <<job, room>>

(* Six hours pass without anything left that touches the live keys. *)
Expire ==
    /\ ~job /\ lock = Free /\ \A h \in Tasks : task[h] = Idle
    /\ status # "none" /\ sockets = {}
    /\ status' = "none" /\ members' = [p \in Players |-> NoSeat]
    /\ UNCHANGED <<job, lock, closing, room, sockets, task, lapsed, spent>>

-----------------------------------------------------------------------------
Step(h) ==
    \/ InsertMeta(h) \/ CreateRoom(h) \/ FirstAlarm(h)
    \/ InsertMember(h) \/ ReserveSeat(h)
    \/ Revalidate(h) \/ MarkConnected(h) \/ PersistConnected(h)
    \/ ReadyRead(h) \/ UpdateReady(h)
    \/ Leave(h) \/ LeaveSeat(h) \/ RemoveMember(h)
    \/ Shut(h) \/ ShutDurably(h) \/ ShutSockets(h)
    \/ Ring(h) \/ Sweep(h) \/ Recover(h)

Start(h, i) ==
    \/ Create(h, i) \/ StartForceClose(h, i)
    \/ \E p \in Players :
        StartReserve(h, i, p) \/ StartConnect(h, i, p) \/ StartMessage(h, i, p)

Next ==
    \/ \E h \in Tasks : Acquire(h) \/ GiveUp(h) \/ Step(h)
    \/ \E h \in Tasks, i \in Instances : Start(h, i) \/ ClaimAlarm(h, i)
    \/ \E h \in Tasks, s \in sockets : SocketCloses(h, s[1], s[2])
    \/ \E i \in Instances : DeliverClose(i) \/ Crash(i)
    \/ \E p \in Players : ReservationAges(p)
    \/ LeaseExpires \/ Outage \/ Expire

Spec == Init /\ [][Next]_vars

(* ZADD replaces the due time of a job that is still queued: the steps that
   postpone the room's alarm.  (The retry of a failed alarm does not.) *)
Postpones ==
    /\ job
    /\ \E h \in Tasks :
        \/ (FirstAlarm(h) \/ ReserveSeat(h) \/ LeaveSeat(h) \/ Sweep(h)) /\ Sound
        \/ (PersistConnected(h) \/ ShutDurably(h)) /\ ~Sound

(* Handlers go on, a wait for the lock is served unless it is given up, leases
   run out, the bus delivers; jobs are polled every second, so the room's alarm
   is claimed unless it is postponed again and again. *)
Fairness ==
    /\ \A h \in Tasks : WF_vars(Step(h)) /\ SF_vars(Acquire(h))
    /\ SF_vars(Postpones \/ \E h \in Tasks, i \in Instances : ClaimAlarm(h, i))
    /\ WF_vars(lock # Free /\ lock \notin Working /\ LeaseExpires)
    /\ \A i \in Instances : WF_vars(DeliverClose(i))

FairSpec == Spec /\ Fairness

-----------------------------------------------------------------------------
(* PROPERTIES *)

(* withLock: among the handlers at work, one whose lease has not run out owns
   the key, so at most one is: a late release never frees another's lock. *)
LeaseHolderOwnsLock == \A h \in Working \ lapsed : lock = h

Damaged == Total > spent["fault"]

(* closeRoom: when no handler is at work, live and durable status agree; only
   a lost lease, command or instance can leave them apart. *)
QuietAgreement ==
    Working = {} /\ ~Damaged =>
        status # "closing" /\ (status = "recruiting" <=> room = "recruiting")

(* scheduleRoomAlarm/poll: an open room has its alarm queued, or a handler
   that was to run or to queue it is under way. *)
OpenRoomIsWatched ==
    room = "recruiting" /\ ~Damaged =>
        job \/ \E h \in Tasks : task[h] # Idle /\ task[h].kind \in {"alarm", "initialize"}

(* onClose/completePlayerConnection: the lock is not first come, first served, so a
   close event may be handled before the join of its own socket; even so, as
   long as nothing failed, a connected seat has a socket of its player, or a
   close of that player's is still to be handled. *)
CloseDue(p) ==
    \E h \in Tasks : task[h] # Idle /\ task[h].kind = "close" /\ task[h].player = p

NoGhostSeat ==
    Total = 0 => \A p \in Players :
        members[p] # NoSeat /\ members[p].connected =>
            (\E i \in Instances : <<i, p>> \in sockets) \/ CloseDue(p)

(* alarm/poll: once guests stop postponing the alarm, an open room does not stay
   without a connected host for ever: it is closed or gets its host, through
   failing writes and their retries, unless something was lost.  (An open room
   can only be closed, so leaving Hostless is one of the three.) *)
Hostless == room = "recruiting" /\ ~HostPresent /\ ~Damaged

HostlessRoomCloses == <>[][~Postpones]_vars => []<>~Hostless

(* withLock: no handler waits for the lock for ever: it gets it or gives up,
   whoever died or overran holding it. *)
WaitersAreServed == \A h \in Tasks : []<>~At(h, "wait")
=============================================================================
