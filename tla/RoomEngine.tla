----------------------------- MODULE RoomEngine -----------------------------
(***************************************************************************)
(* One multiplayer room of the relay: the shared RoomEngine state machine  *)
(* (src/src/core/rooms/engine.ts), its live store, its durable projection  *)
(* and the sockets bound to it, as they run in the single-process memory   *)
(* deployment.  There every handler runs under a FIFO mutex per room, so a *)
(* handler is one step here; what can go wrong inside a handler is a       *)
(* durable write that fails after live state was changed, or a snapshot    *)
(* that cannot be sent, and both are branches of the handler's action.     *)
(*                                                                         *)
(* Abstractions.  Names, charts, difficulties and round-trip times are     *)
(* left out; a score payload is the set of the reports merged into it.     *)
(* Clock readings are replaced by what the code compares: whether a        *)
(* reservation is older than a minute, whether a play's start time has     *)
(* come.  An alarm is armed or not; when armed it may ring at any moment.  *)
(***************************************************************************)
EXTENDS Integers, FiniteSets

CONSTANTS
    Identities,   \* player identities that may ask for a seat
    Nobody,       \* "no identity", outside Identities
    MaxPeers,     \* seats of a room; 4 in the code
    Tickets,      \* reservation ids; one that nothing refers to is as good as new
    MaxCopies,    \* bound: sockets opened with one and the same ticket
    MaxPlays,     \* bound: plays started in this room
    MaxFaults,    \* bound: durable writes and sends that fail
    NoSeat, NoRow \* absent entries of the live and of the durable member table

Peers    == 1..MaxPeers
HostPeer == 1
Copies   == 1..MaxCopies
PlayIds  == 1..MaxPlays
NoPlay   == 0

(* A score report: the play it was made in and the player who made it. *)
Report == PlayIds \X Identities

(* A live member row.  reserved is what the code reads out of reserved_at:
   "fresh" at most a minute old, "aged" older, "dropped" the value 0. *)
Seat == [identity: Identities, ticket: Tickets, connected: BOOLEAN, ready: BOOLEAN,
         reserved: {"fresh", "aged", "dropped"}]

(* A durable room_members row. *)
Row == [identity: Identities, connected: BOOLEAN]

(* A live play_scores row; a missing or only seeded row holds no report. *)
Score == [data: SUBSET Report, dropped: BOOLEAN]

(* A durable plays row: participants_json as a cast and their results. *)
Play == [state: {"none", "open", "ended", "deleted"},
         cast: [Peers -> Identities \cup {Nobody}],
         result: [Peers -> SUBSET Report]]

(* A player socket.  "upgraded": past the pre-101 check, not yet completed;
   "registered": in the room's registry; "refused": turned away by the second
   check; "errored": its error event was handled, its close event is to come. *)
Socket == [peer: Peers, identity: Identities, ticket: Tickets, copy: Copies,
           phase: {"upgraded", "registered", "refused", "errored"}]

Statuses == {"none", "recruiting", "playing", "closed"}
Open     == {"recruiting", "playing"}

ASSUME ConstantsAssumption ==
    /\ MaxPeers \in Nat \ {0}
    /\ MaxCopies \in Nat \ {0}
    /\ MaxPlays \in Nat
    /\ MaxFaults \in Nat
    /\ Nobody \notin Identities
    /\ NoSeat \notin Seat
    /\ NoRow \notin Row
    /\ IsFiniteSet(Identities)

VARIABLES
    \* live state
    status,       \* meta.status ("closing" exists only inside closeRoom)
    playId,       \* meta.play_id, NoPlay for null
    begun,        \* the clock has reached meta.started_at
    members,      \* live member rows by seat
    scores,       \* live score rows by seat
    \* durable state
    room,         \* the rooms row: its status and player_count
    rows,         \* room_members rows by seat
    plays,        \* plays rows by play id
    \* runtime
    alarm,        \* the room's alarm is armed
    sockets,      \* player sockets that still owe a close event
    up,           \* the process runs and has recovered
    faults        \* failures so far

live    == <<status, playId, begun, members, scores>>
durable == <<room, rows, plays>>
vars    == <<status, playId, begun, members, scores, room, rows, plays,
             alarm, sockets, up, faults>>

NoSeats  == [p \in Peers |-> NoSeat]
NoScore  == [data |-> {}, dropped |-> FALSE]
NoScores == [p \in Peers |-> NoScore]
NoPlayRow == [state |-> "none", cast |-> [p \in Peers |-> Nobody],
              result |-> [p \in Peers |-> {}]]

TypeOK ==
    /\ status \in Statuses
    /\ playId \in PlayIds \cup {NoPlay}
    /\ begun \in BOOLEAN
    /\ members \in [Peers -> Seat \cup {NoSeat}]
    /\ scores \in [Peers -> Score]
    /\ room \in [status: {"absent", "recruiting", "playing", "closed"}, count: Nat]
    /\ rows \in [Peers -> Row \cup {NoRow}]
    /\ plays \in [PlayIds -> Play]
    /\ alarm \in BOOLEAN
    /\ sockets \subseteq Socket
    /\ up \in BOOLEAN
    /\ faults \in 0..MaxFaults

Init ==
    /\ status = "none" /\ playId = NoPlay /\ begun = FALSE
    /\ members = NoSeats
    /\ scores = NoScores
    /\ room = [status |-> "absent", count |-> 0]
    /\ rows = [p \in Peers |-> NoRow]
    /\ plays = [n \in PlayIds |-> NoPlayRow]
    /\ alarm = FALSE /\ sockets = {} /\ up = TRUE /\ faults = 0

-----------------------------------------------------------------------------
(* Reading the tables. *)

Taken(mem)     == {p \in Peers : mem[p] # NoSeat}
Connected(mem) == {p \in Taken(mem) : mem[p].connected}

(* The seats identity i holds, connected or not. *)
SeatsOf(i) == {p \in Taken(members) : members[p].identity = i}

(* A durable write or a send goes through, or fails and changes nothing. *)
Sound  == UNCHANGED faults
Faulty == faults < MaxFaults /\ faults' = faults + 1

(* A reservation id no seat and no socket refers to. *)
FreshTicket(t) ==
    /\ \A p \in Taken(members) : members[p].ticket # t
    /\ \A s \in sockets : s.ticket # t

(* validatePlayerConnection, for a ticket with these contents. *)
ReservationStands(p, i, t) ==
    /\ status = "recruiting"
    /\ members[p] # NoSeat
    /\ members[p].identity = i
    /\ members[p].ticket = t
    /\ ~members[p].connected

(* onMessage admits the socket of a connected member only. *)
Speaks(p) ==
    /\ up /\ status \in Open
    /\ p \in Connected(members)
    /\ \E s \in sockets : s.peer = p /\ s.identity = members[p].identity

MarkDisconnected(p) ==
    [members EXCEPT ![p] = [@ EXCEPT !.connected = FALSE, !.reserved = "dropped"]]

MarkScoreDropped(S) ==
    [p \in Peers |-> IF p \in S THEN [scores[p] EXCEPT !.dropped = TRUE] ELSE scores[p]]

Without(table, S, none) == [p \in Peers |-> IF p \in S THEN none ELSE table[p]]

RowsDisconnected ==
    [p \in Peers |-> IF rows[p] = NoRow THEN NoRow ELSE [rows[p] EXCEPT !.connected = FALSE]]

-----------------------------------------------------------------------------
(* closeRoom, entered with live members mem and sockets socks.  Only "playing" rooms have a
   play to settle: it is deleted if its start time has not come, else ended
   as it stands.  A failed write restores the status and arms a retry.  The
   runtime drops a closed room's live rows; its alarm and the close events of
   its sockets find no room and do nothing, so they are dropped as well. *)

(* Mutant of PlaysSettled: a play that has not begun is forgotten. *)
PlaysSettledLate ==
    IF playId = NoPlay \/ ~begun THEN plays
    ELSE [plays EXCEPT ![playId] = [@ EXCEPT !.state = "ended"]]

PlaysSettled ==
    IF playId = NoPlay THEN plays
    ELSE [plays EXCEPT ![playId] =
            IF begun THEN [@ EXCEPT !.state = "ended"]
            ELSE [NoPlayRow EXCEPT !.state = "deleted"]]

RoomCloses ==
    /\ Sound
    /\ status' = "closed" /\ playId' = NoPlay /\ begun' = FALSE
    /\ members' = NoSeats
    /\ scores' = NoScores
    /\ room' = [status |-> "closed", count |-> 0]
    /\ rows' = RowsDisconnected
    /\ plays' = PlaysSettled
    /\ alarm' = FALSE
    /\ sockets' = {}

(* Mutant of RoomStaysOpen: the status is not restored. *)
RoomStaysClosing(mem, socks) ==
    /\ Faulty
    /\ status' = "closing"
    /\ members' = mem
    /\ sockets' = socks
    /\ alarm' = TRUE
    /\ UNCHANGED <<playId, begun, scores, durable>>

RoomStaysOpen(mem, socks) ==
    /\ Faulty
    /\ members' = mem
    /\ sockets' = socks
    /\ alarm' = TRUE
    /\ UNCHANGED <<status, playId, begun, scores, durable>>

CloseRoom(mem, socks) == RoomCloses \/ RoomStaysOpen(mem, socks)

ForceClose ==
    /\ up /\ status \in Open
    /\ CloseRoom(members, sockets)
    /\ UNCHANGED up

-----------------------------------------------------------------------------
(* Opening the room and taking seats. *)

(* A room id is a fresh UUID: a room once written is never initialised again. *)
Initialize ==
    /\ up /\ status = "none" /\ room.status = "absent"
    /\ \/ /\ Sound
          /\ status' = "recruiting"
          /\ room' = [status |-> "recruiting", count |-> 0]
          /\ alarm' = TRUE
       \/ /\ Faulty    \* the live row is deleted again
          /\ UNCHANGED <<status, room, alarm>>
    /\ UNCHANGED <<playId, begun, members, scores, rows, plays, sockets, up>>

(* reserve, for an identity that already has an unconnected seat: a retried
   handshake gets a new ticket for it; nothing is persisted or rescheduled. *)
Rereserve(i) ==
    /\ up /\ status = "recruiting"
    /\ \E p \in SeatsOf(i) \ Connected(members), t \in Tickets :
        /\ FreshTicket(t)
        /\ members' = [members EXCEPT ![p] = [@ EXCEPT !.ticket = t, !.reserved = "fresh"]]
    /\ UNCHANGED <<status, playId, begun, scores, durable, alarm, sockets, up, faults>>

(* reserve, for a newcomer: the lowest free seat.  The insert of its durable
   row violates the primary key if that seat still has one. *)
ReserveSeat(i, p, t) ==
    /\ rows[p] = NoRow
    /\ Sound
    /\ members' = [members EXCEPT ![p] =
            [identity |-> i, ticket |-> t, connected |-> FALSE, ready |-> FALSE,
             reserved |-> "fresh"]]
    /\ rows' = [rows EXCEPT ![p] = [identity |-> i, connected |-> FALSE]]
    /\ room' = [room EXCEPT !.count = Cardinality(Taken(members)) + 1]
    /\ alarm' = TRUE

(* The write fails: the live row inserted before it is deleted again. *)
ReserveFails ==
    /\ Faulty
    /\ UNCHANGED <<members, rows, room, alarm>>

(* Mutant of LowestFree: any free seat will do. *)
AnyFree(p) == p \notin Taken(members)

LowestFree(p) == p \notin Taken(members) /\ \A q \in 1..(p - 1) : q \in Taken(members)

(* Mutant of Reserve: a room that is no longer recruiting takes a newcomer. *)
ReserveAnytime(i) ==
    /\ up /\ status # "none"
    /\ SeatsOf(i) = {}
    /\ \E p \in Peers, t \in Tickets :
        /\ LowestFree(p) /\ FreshTicket(t)
        /\ ReserveSeat(i, p, t) \/ ReserveFails
    /\ UNCHANGED <<status, playId, begun, scores, plays, sockets, up>>

Reserve(i) ==
    /\ up /\ status = "recruiting"
    /\ SeatsOf(i) = {}
    /\ \E p \in Peers, t \in Tickets :
        /\ LowestFree(p) /\ FreshTicket(t)
        /\ ReserveSeat(i, p, t) \/ ReserveFails
    /\ UNCHANGED <<status, playId, begun, scores, plays, sockets, up>>

(* The passage of the reservation minute. *)
AgeReservation(p) ==
    /\ up /\ status \in Open
    /\ p \in Taken(members) \ Connected(members)
    /\ members[p].reserved = "fresh"
    /\ members' = [members EXCEPT ![p] = [@ EXCEPT !.reserved = "aged"]]
    /\ UNCHANGED <<status, playId, begun, scores, durable, alarm, sockets, up, faults>>

-----------------------------------------------------------------------------
(* The WebSocket handshake.  The ticket is checked before the 101 response
   and again, under the mutex, when the accepted socket joins the room. *)

Upgrade(p, c) ==
    /\ up
    /\ p \in Taken(members)
    /\ ReservationStands(p, members[p].identity, members[p].ticket)
    /\ LET s == [peer |-> p, identity |-> members[p].identity, ticket |-> members[p].ticket,
                 copy |-> c, phase |-> "upgraded"]
       IN /\ \A o \in sockets : o.ticket # s.ticket \/ o.copy # c
          /\ sockets' = sockets \cup {s}
    /\ UNCHANGED <<live, durable, alarm, up, faults>>

Rephased(s, ph) == (sockets \ {s}) \cup {[s EXCEPT !.phase = ph]}

RowConnected(p) ==
    [rows EXCEPT ![p] = IF @ = NoRow THEN NoRow ELSE [@ EXCEPT !.connected = TRUE]]

(* reserved_at is not read again before a disconnect zeroes it. *)
Join(p) ==
    /\ Sound
    /\ members' = [members EXCEPT ![p] = [@ EXCEPT !.connected = TRUE, !.reserved = "fresh"]]
    /\ rows' = RowConnected(p)
    /\ UNCHANGED alarm

(* The durable write fails, or it went through and the snapshot cannot be
   sent: the live seat is taken back and the alarm will free it. *)
JoinFails(p) ==
    /\ Faulty
    /\ members' = MarkDisconnected(p)
    /\ rows' \in {rows, RowConnected(p)}
    /\ alarm' = TRUE

CompletePlayerConnection(s) ==
    /\ up /\ s.phase = "upgraded"
    /\ IF ReservationStands(s.peer, s.identity, s.ticket)
       THEN /\ sockets' = Rephased(s, "registered")
            /\ Join(s.peer) \/ JoinFails(s.peer)
       ELSE /\ sockets' = Rephased(s, "refused")
            /\ UNCHANGED <<members, rows, alarm, faults>>
    /\ UNCHANGED <<status, playId, begun, scores, room, plays, up>>

-----------------------------------------------------------------------------
(* removeSocket: a socket's close or error event.  It is matched to a seat by
   peer and identity only. *)

HoldsSeat(s) ==
    /\ status \in Open
    /\ members[s.peer] # NoSeat
    /\ members[s.peer].identity = s.identity

(* Mutant of LeavePlay: the seat stays connected when its removal fails. *)
LeavePlayConnected(p) ==
    /\ scores' = MarkScoreDropped({p})
    /\ alarm' = TRUE
    /\ \/ /\ Sound
          /\ rows' = Without(rows, {p}, NoRow)
          /\ room' = [room EXCEPT !.count = Cardinality(Taken(members) \ {p})]
          /\ members' = Without(members, {p}, NoSeat)
       \/ Faulty /\ UNCHANGED <<members, rows, room>>
    /\ UNCHANGED <<status, playId, begun, plays>>

(* A guest drops out of a play: its score is frozen, its seat freed. *)
LeavePlay(p) ==
    /\ scores' = MarkScoreDropped({p})
    /\ alarm' = TRUE
    /\ \/ /\ Sound
          /\ rows' = Without(rows, {p}, NoRow)
          /\ room' = [room EXCEPT !.count = Cardinality(Taken(members) \ {p})]
          /\ members' = Without(members, {p}, NoSeat)
       \/ /\ Faulty
          /\ members' = MarkDisconnected(p)
          /\ UNCHANGED <<rows, room>>
    /\ UNCHANGED <<status, playId, begun, plays>>

(* A guest leaves a recruiting room: the seat, then the count.  The host's
   seat is taken whenever a guest's is (HostSeated), so the room the guest
   leaves is never empty and the close of an empty room cannot run here. *)
LeaveLobby(p) ==
    /\ alarm' = TRUE
    /\ \/ /\ Sound
          /\ rows' = Without(rows, {p}, NoRow)
          /\ members' = Without(members, {p}, NoSeat)
          /\ room' = [room EXCEPT !.count = Cardinality(Taken(members) \ {p})]
       \/ /\ Faulty    \* the count is not updated
          /\ rows' = Without(rows, {p}, NoRow)
          /\ members' = Without(members, {p}, NoSeat)
          /\ UNCHANGED room
       \/ /\ Faulty    \* the row is not removed
          /\ members' = MarkDisconnected(p)
          /\ UNCHANGED <<rows, room>>
    /\ UNCHANGED <<status, playId, begun, scores, plays>>

(* Mutant of RemoveSocket: the host leaves like a guest. *)
RemoveSocketAnySeat(s, socks) ==
    /\ sockets' = socks
    /\ \/ ~HoldsSeat(s) /\ UNCHANGED <<live, durable, alarm, faults>>
       \/ HoldsSeat(s) /\ status = "playing" /\ LeavePlay(s.peer)
       \/ HoldsSeat(s) /\ status = "recruiting" /\ LeaveLobby(s.peer)

RemoveSocket(s, socks) ==
    \/ /\ ~HoldsSeat(s)
       /\ sockets' = socks
       /\ UNCHANGED <<live, durable, alarm, faults>>
    \/ /\ HoldsSeat(s) /\ s.peer = HostPeer
       /\ CloseRoom(MarkDisconnected(s.peer), socks)
    \/ /\ HoldsSeat(s) /\ s.peer # HostPeer
       /\ sockets' = socks
       /\ \/ status = "playing" /\ LeavePlay(s.peer)
          \/ status = "recruiting" /\ LeaveLobby(s.peer)

(* Handlers run in arrival order, so a socket's close follows its join. *)
OnClose(s) ==
    /\ up /\ s.phase # "upgraded"
    /\ RemoveSocket(s, sockets \ {s})
    /\ UNCHANGED up

(* An error event runs the same handler; the close event still follows. *)
OnError(s) ==
    /\ up /\ s.phase \in {"registered", "refused"}
    /\ RemoveSocket(s, Rephased(s, "errored"))
    /\ UNCHANGED up

-----------------------------------------------------------------------------
(* Control messages of connected members. *)

(* The durable copy of a ready report holds display data only, so a failure
   to write it changes nothing here. *)
Ready(p) ==
    /\ Speaks(p) /\ status = "recruiting"
    /\ members' = [members EXCEPT ![p] = [@ EXCEPT !.ready = TRUE]]
    /\ UNCHANGED <<status, playId, begun, scores, durable, alarm, sockets, up, faults>>

Unready(p) ==
    /\ Speaks(p) /\ status = "recruiting"
    /\ members' = [members EXCEPT ![p] = [@ EXCEPT !.ready = FALSE]]
    /\ UNCHANGED <<status, playId, begun, scores, durable, alarm, sockets, up, faults>>

(* The part startPlay and recordPlayStarted share.  The connected members are
   the cast; every other seat is given up, live and durable.  A failed write
   takes the live transition back. *)
NextPlay(n) ==
    /\ plays[n].state = "none"
    /\ \A m \in 1..(n - 1) : plays[m].state # "none"

CastOf(S) == [p \in Peers |-> IF p \in S THEN members[p].identity ELSE Nobody]

(* Mutants of PlayOpens: reserved seats stay live; their rows stay. *)
PlayOpensReserved(n, started) ==
    LET on == Connected(members) IN
    /\ Sound
    /\ status' = "playing" /\ playId' = n /\ begun' = started
    /\ plays' = [plays EXCEPT ![n] = [NoPlayRow EXCEPT !.state = "open", !.cast = CastOf(on)]]
    /\ room' = [status |-> "playing", count |-> Cardinality(on)]
    /\ UNCHANGED <<members, rows>>

PlayOpensRowsKept(n, started) ==
    LET on == Connected(members) IN
    /\ Sound
    /\ status' = "playing" /\ playId' = n /\ begun' = started
    /\ members' = Without(members, Peers \ on, NoSeat)
    /\ plays' = [plays EXCEPT ![n] = [NoPlayRow EXCEPT !.state = "open", !.cast = CastOf(on)]]
    /\ room' = [status |-> "playing", count |-> Cardinality(on)]
    /\ UNCHANGED rows

PlayOpens(n, started) ==
    LET on == Connected(members) IN
    /\ Sound
    /\ status' = "playing" /\ playId' = n /\ begun' = started
    /\ members' = Without(members, Peers \ on, NoSeat)
    /\ plays' = [plays EXCEPT ![n] = [NoPlayRow EXCEPT !.state = "open", !.cast = CastOf(on)]]
    /\ rows' = [p \in Peers |-> IF rows[p] # NoRow /\ rows[p].connected THEN rows[p] ELSE NoRow]
    /\ room' = [status |-> "playing", count |-> Cardinality(on)]

(* Mutant of PlayRolledBack: the live room stays in the play. *)
PlayHalfOpen ==
    /\ Faulty
    /\ status' = "playing"
    /\ UNCHANGED <<playId, begun, members, durable>>

PlayRolledBack ==
    /\ Faulty
    /\ UNCHANGED <<status, playId, begun, members, durable>>

BeginPlay(started) ==
    /\ \E n \in PlayIds : NextPlay(n) /\ (PlayOpens(n, started) \/ PlayRolledBack)
    /\ UNCHANGED <<scores, alarm, sockets, up>>

(* startRequest: gated, and scheduled a few seconds ahead. *)
StartPlay ==
    /\ Speaks(HostPeer) /\ status = "recruiting"
    /\ Cardinality(Connected(members)) >= 2
    /\ \A p \in Connected(members) : members[p].ready
    /\ BeginPlay(FALSE)

(* playStarted: the clients run the start themselves, so no gate applies. *)
RecordPlayStarted ==
    /\ Speaks(HostPeer) /\ status = "recruiting"
    /\ BeginPlay(TRUE)

(* The clock reaches started_at. *)
StartTimeComes ==
    /\ up /\ status = "playing" /\ ~begun
    /\ begun' = TRUE
    /\ UNCHANGED <<status, playId, members, scores, durable, alarm, sockets, up, faults>>

(* score: merged into what the row holds; the row is marked present again. *)
RecordScore(p) ==
    /\ Speaks(p) /\ status = "playing"
    /\ scores' = [scores EXCEPT ![p] =
            [data |-> @.data \cup {<<playId, members[p].identity>>}, dropped |-> FALSE]]
    /\ UNCHANGED <<status, playId, begun, members, durable, alarm, sockets, up, faults>>

(* endPlay: the reports of the cast's seats are frozen into the play's row.
   A play that has not begun is deleted.  If the participants cannot be read
   the exception is swallowed and the row is written with none. *)
Results(n) ==
    [p \in Peers |-> IF plays[n].cast[p] = Nobody THEN {} ELSE scores[p].data]

PlayFinished(read) ==
    [plays EXCEPT ![playId] =
        IF ~begun THEN [NoPlayRow EXCEPT !.state = "deleted"]
        ELSE IF read THEN [@ EXCEPT !.state = "ended", !.result = Results(playId)]
        ELSE [NoPlayRow EXCEPT !.state = "ended"]]

ReadyCleared ==
    [p \in Peers |-> IF members[p] = NoSeat THEN NoSeat ELSE [members[p] EXCEPT !.ready = FALSE]]

(* Mutant of PlayEnds: the score rows survive the play. *)
PlayEndsScoresKept ==
    /\ \/ Sound /\ plays' = PlayFinished(TRUE)
       \/ Faulty /\ plays' = PlayFinished(FALSE)
    /\ room' = IF room.status = "playing" THEN [room EXCEPT !.status = "recruiting"] ELSE room
    /\ status' = "recruiting" /\ playId' = NoPlay /\ begun' = FALSE
    /\ members' = ReadyCleared
    /\ UNCHANGED scores

PlayEnds ==
    /\ \/ Sound /\ plays' = PlayFinished(TRUE)
       \/ Faulty /\ plays' = PlayFinished(FALSE)
    /\ room' = IF room.status = "playing" THEN [room EXCEPT !.status = "recruiting"] ELSE room
    /\ status' = "recruiting" /\ playId' = NoPlay /\ begun' = FALSE
    /\ members' = ReadyCleared
    /\ scores' = NoScores

EndPlay ==
    /\ Speaks(HostPeer) /\ status = "playing"
    /\ PlayEnds \/ (Faulty /\ UNCHANGED <<live, plays, room>>)
    /\ UNCHANGED <<rows, alarm, sockets, up>>

-----------------------------------------------------------------------------
(* The room alarm. *)

(* Mutant of Stale: a seat whose removal failed is not retried. *)
StaleReservations ==
    {p \in Taken(members) \ Connected(members) : members[p].reserved = "aged"}

Stale == {p \in Taken(members) \ Connected(members) : members[p].reserved # "fresh"}

(* Stale seats are freed in seat order until a write fails: at the seat cut,
   at the closing count (MaxPeers + 1), or nowhere (MaxPeers + 2). *)
Swept(cut) == {p \in Stale : p < cut}
Tried(cut) == {p \in Stale : p <= cut}
CutFails(cut) == cut \in Stale \/ cut = MaxPeers + 1

(* Mutant of SweptCount: the closing count is not written. *)
SweptCountSkipped(cut) == room.count

(* While playing, each removal writes the count of the seats that will be left. *)
SweptCount(cut) ==
    IF cut = MaxPeers + 2 THEN Cardinality(Taken(members) \ Swept(cut))
    ELSE IF status = "playing" /\ Swept(cut) # {} THEN Cardinality(Taken(members) \ Stale)
    ELSE room.count

(* Mutant of Sweep: an alarm whose handler failed is not armed again. *)
SweepOnce ==
    \E cut \in 1..(MaxPeers + 2) :
        /\ \/ CutFails(cut) /\ Faulty
           \/ cut = MaxPeers + 2 /\ Sound
        /\ members' = Without(members, Swept(cut), NoSeat)
        /\ rows' = Without(rows, Swept(cut), NoRow)
        /\ room' = [room EXCEPT !.count = SweptCount(cut)]
        /\ alarm' = (cut = MaxPeers + 2)
        /\ UNCHANGED <<status, playId, begun, scores, plays>>

(* A failed alarm is rescheduled by the runtime, a successful one by the
   handler. *)
Sweep ==
    \E cut \in 1..(MaxPeers + 2) :
        /\ \/ CutFails(cut) /\ Faulty
           \/ cut = MaxPeers + 2 /\ Sound
        /\ members' = Without(members, Swept(cut), NoSeat)
        /\ rows' = Without(rows, Swept(cut), NoRow)
        /\ scores' = IF status = "playing"
                     THEN MarkScoreDropped({p \in Tried(cut) : members[p].reserved = "dropped"})
                     ELSE scores
        /\ room' = [room EXCEPT !.count = SweptCount(cut)]
        /\ alarm' = TRUE
        /\ UNCHANGED <<status, playId, begun, plays>>

(* Mutant of Alarm: the host's absence is not looked at. *)
AlarmSweeps ==
    /\ up /\ alarm /\ status \in Open
    /\ Sweep
    /\ UNCHANGED <<sockets, up>>

Alarm ==
    /\ up /\ alarm /\ status \in Open
    /\ IF HostPeer \in Connected(members) THEN Sweep /\ UNCHANGED sockets
       ELSE CloseRoom(members, sockets)
    /\ UNCHANGED up

-----------------------------------------------------------------------------
(* banPlayer: the administrator removes an identity from the room. *)
RemoveBanned(p) ==
    /\ Sound
    /\ members' = Without(members, {p}, NoSeat)
    /\ rows' = [rows EXCEPT ![p] =
            IF @ # NoRow /\ @.identity = members[p].identity THEN NoRow ELSE @]
    /\ room' = [room EXCEPT !.count = Cardinality(Taken(members)) - 1]
    /\ scores' = IF status = "playing" THEN MarkScoreDropped({p}) ELSE scores

BanFails ==
    /\ Faulty
    /\ UNCHANGED <<members, rows, room, scores>>

BanPlayer(i) ==
    /\ up /\ status \in Open
    /\ \E p \in SeatsOf(i) :
        IF p = HostPeer THEN CloseRoom(members, sockets)
        ELSE /\ RemoveBanned(p) \/ BanFails
             /\ UNCHANGED <<status, playId, begun, plays, alarm, sockets>>
    /\ UNCHANGED up

-----------------------------------------------------------------------------
(* A crash takes the live store, the timers and the sockets; the next start
   closes what the database still shows as open before it serves anyone.
   Dying inside a handler leaves no more than dying after one of its writes,
   which recovery overwrites all the same. *)
Crash ==
    /\ up /\ status \in Open
    /\ up' = FALSE
    /\ status' = "none" /\ playId' = NoPlay /\ begun' = FALSE
    /\ members' = NoSeats
    /\ scores' = NoScores
    /\ alarm' = FALSE /\ sockets' = {}
    /\ UNCHANGED <<durable, faults>>

RecoverExpiredRoom ==
    /\ ~up
    /\ up' = TRUE
    /\ plays' = [n \in PlayIds |->
            IF plays[n].state = "open" THEN [plays[n] EXCEPT !.state = "ended"] ELSE plays[n]]
    /\ room' = [status |-> "closed", count |-> 0]
    /\ rows' = RowsDisconnected
    /\ UNCHANGED <<live, alarm, sockets, faults>>

-----------------------------------------------------------------------------
Next ==
    \/ Initialize
    \/ ForceClose
    \/ \E i \in Identities : Reserve(i) \/ Rereserve(i) \/ BanPlayer(i)
    \/ \E p \in Peers : AgeReservation(p) \/ Ready(p) \/ Unready(p) \/ RecordScore(p)
    \/ \E p \in Peers, c \in Copies : Upgrade(p, c)
    \/ \E s \in sockets : CompletePlayerConnection(s) \/ OnClose(s) \/ OnError(s)
    \/ StartPlay \/ RecordPlayStarted \/ StartTimeComes \/ EndPlay
    \/ Alarm
    \/ Crash \/ RecoverExpiredRoom

Spec == Init /\ [][Next]_vars

(* scheduleAlarm replaces the room's one alarm by another, due later: the
   steps that postpone an alarm that is armed.  A reserve does it for a new
   seat only, removeSocket for a socket that holds one; a join and a closeRoom
   that fail do it as well. *)
Postpones ==
    /\ alarm
    /\ \/ \E i \in Identities : Reserve(i) /\ members' # members
       \/ \E s \in sockets : (OnClose(s) \/ OnError(s)) /\ HoldsSeat(s) /\ status' \in Open
       \/ \E s \in sockets : CompletePlayerConnection(s) /\ faults' # faults
       \/ ForceClose /\ status' \in Open
       \/ \E i \in Identities : BanPlayer(i) /\ faults' # faults /\ members[HostPeer] # NoSeat
                                /\ members[HostPeer].identity = i

(* A renewed reservation starts its minute again. *)
Renews(p) ==
    /\ p \in Taken(members) /\ members[p].reserved = "fresh"
    /\ Rereserve(members[p].identity)

(* The runtime's own steps happen: an armed alarm rings unless it is postponed
   again and again, the reservation minute passes unless the reservation is
   renewed again and again, and a process that died is started again (the
   compose file restarts it).  Nothing that a player, an administrator or the
   network does is fair: sockets may stay silent for ever. *)
Fairness ==
    /\ WF_vars(Alarm \/ Postpones)
    /\ WF_vars(RecoverExpiredRoom)
    /\ \A p \in Peers : WF_vars(AgeReservation(p) \/ Renews(p))

FairSpec == Spec /\ Fairness

-----------------------------------------------------------------------------
(* SAFETY *)

(* The directory and the match endpoint read the durable status, the room its
   live one: while the process serves, they agree after every handler, also
   when closeRoom, startPlay or endPlay had to take a failed write back. *)
StatusAgreement ==
    up => \/ status # "none" /\ room.status = status
          \/ status = "none" /\ room.status \in {"absent", "closed"}

(* plays: a play is open in the history exactly while the room is playing it,
   so no start, end, close, crash or recovery leaves a second one open. *)
OpenPlayIsCurrent ==
    up => \A n \in PlayIds :
            plays[n].state = "open" <=> status = "playing" /\ playId = n

(* Both of the above: the database and the room tell the same story. *)
DurableAgrees == StatusAgreement /\ OpenPlayIsCurrent

(* reserve/markConnected/removeSocket/startPlay: every seat of an open room
   has its durable row, for the same identity, and marked connected if the
   seat is: startPlay's durable clean-up never deletes a connected player. *)
SeatBacked ==
    status \in Open =>
        \A p \in Taken(members) :
            /\ rows[p] # NoRow
            /\ rows[p].identity = members[p].identity
            /\ members[p].connected => rows[p].connected

(* completePlayerConnection/removeSocket: a connected seat always has the
   registered socket that joined with its current ticket, so its close event
   is still to come and the seat cannot stay behind as a ghost. *)
ConnectedSeatHasSocket ==
    \A p \in Connected(members) :
        \E s \in sockets :
            /\ s.phase = "registered"
            /\ s.peer = p /\ s.identity = members[p].identity /\ s.ticket = members[p].ticket

(* Both of the above: a seat is held by its player's row and socket. *)
SeatsAreHeld == SeatBacked /\ ConnectedSeatHasSocket

(* reserve/removeSocket/alarm/banPlayer: the host is whoever sits in seat 1,
   and no order of joining, leaving, sweeping and failing writes leaves guests
   behind in a room whose seat 1 is free for the next newcomer. *)
HostSeated == status \in Open /\ Taken(members) # {} => HostPeer \in Taken(members)

(* Nobody joins, or rejoins, a play under way: a seat taken during a play is
   held by the identity that the play's row lists for it. *)
SeatsAreCast ==
    status = "playing" =>
        \A p \in Taken(members) : members[p].identity = plays[playId].cast[p]

(* A guest of the running play is shown with a frozen score exactly if it is
   no longer connected, whichever way it left. *)
DropFrozen ==
    status = "playing" =>
        \A p \in Peers \ {HostPeer} :
            plays[playId].cast[p] # Nobody =>
                (scores[p].dropped <=> p \notin Connected(members))

(* Both of the above: nobody new sits in a play, and whoever left it is frozen. *)
CastIsFrozen == SeatsAreCast /\ DropFrozen

(* endPlay: what the history shows for a player of a play was reported by
   that player in that play. *)
HistoryIsOwn ==
    \A n \in PlayIds, p \in Peers : plays[n].result[p] \subseteq {<<n, plays[n].cast[p]>>}

(* alarm/scheduleAlarm: an open room always has its alarm armed, also after a
   handler or the alarm itself failed; nothing else would ever reclaim it. *)
OpenRoomIsWatched == up /\ status \in Open => alarm

-----------------------------------------------------------------------------
(* ACTION PROPERTIES *)

(* The host never changes hands: as long as the room is open the identity in
   seat 1 stays, through failed closes and re-reservations. *)
HostOf(mem) == IF mem[HostPeer] = NoSeat THEN Nobody ELSE mem[HostPeer].identity

HostSeatStable ==
    [][/\ status \in Open /\ status' \in Open
       /\ HostOf(members) # Nobody
       => HostOf(members') = HostOf(members)]_vars

(* What is settled stays settled: a finished play's row never changes, and a
   closed room is never reopened, reseated or played in again. *)
SettledIsFinal ==
    [][/\ \A n \in PlayIds : plays[n].state \in {"ended", "deleted"} => plays'[n] = plays[n]
       /\ room.status = "closed" => room' = room /\ rows' = rows /\ plays' = plays
                                    /\ status' \notin Open]_vars

-----------------------------------------------------------------------------
(* AGREEMENT AS LONG AS NOTHING FAILED *)

Mirror == [p \in Peers |->
    IF members[p] = NoSeat THEN NoRow
    ELSE [identity |-> members[p].identity, connected |-> members[p].connected]]

(* The durable projection is the live room, seat by seat, and the directory's
   player count is the number of seats, as long as no write fails. *)
DurableMirrorsLive ==
    faults = 0 /\ status \in Open =>
        rows = Mirror /\ room.count = Cardinality(Taken(members))

-----------------------------------------------------------------------------
(* THE ABSTRACT SPECIFICATION IMPLEMENTED *)

Lifecycle == INSTANCE RoomLifecycle
    WITH Plays <- PlayIds, Seats <- Peers, Host <- HostPeer, Players <- Identities,
         status <- room.status, history <- plays

(* What the database shows of the room is a life of RoomLifecycle: opened once,
   at most one play open, each settled once with its own reports, closed for
   good, whichever writes fail and whenever the process dies. *)
ImplementsLifecycle == Lifecycle!Spec

-----------------------------------------------------------------------------
(* LIVENESS, under FairSpec *)

HostConnected == status \in Open /\ HostPeer \in Connected(members)

(* Guests stop coming and going, or at least stop postponing the alarm. *)
AlarmLeftAlone == <>[][~Postpones]_vars

(* alarm/recoverExpiredRoom: once the alarm is no longer postponed, a room the
   directory lists as open does not stay without a connected host: the host
   connects or the room is closed, whether the host never came, was lost, or
   the process died.  (Guests that keep coming and going do keep a room without
   a host open: every reserve and every leave moves its one alarm.) *)
HostlessRoomCloses ==
    AlarmLeftAlone =>
        ((room.status \in Open /\ ~HostConnected) ~> (room.status = "closed" \/ HostConnected))

(* alarm: once the alarm is no longer postponed, a seat nobody connects to is
   not held for ever on one reservation: it is used, renewed or freed, also
   when freeing it failed before. *)
Unused(p) == status \in Open /\ p \in Taken(members) \ Connected(members)

TicketOf(mem, p) == IF mem[p] = NoSeat THEN NoSeat ELSE mem[p].ticket

ReservationEnds ==
    \A p \in Peers :
        AlarmLeftAlone /\ <>[]Unused(p)
            => []<><<TicketOf(members', p) # TicketOf(members, p)>>_vars

(* alarm: a player count that a failed write left wrong is put right while
   the room lives, also if the alarm is postponed for ever: each reserve and
   each leave that postpones it writes the count itself. *)
CountOff == status \in Open /\ room.count # Cardinality(Taken(members))

CountRecovers == CountOff ~> ~CountOff

-----------------------------------------------------------------------------
(* WHAT THE COMMENTS SAY AND THE CODE DOES NOT *)

(* removeSocket keeps a seat until its durable removal commits "instead of
   leaving a persistent connected ghost with no live member". *)
NoDurableGhost ==
    status \in Open => \A p \in Peers : rows[p] # NoRow => members[p] # NoSeat

(* A socket that was turned away by the second ticket check never held the
   seat: its close event is to leave the room as it is. *)
RefusedCloseIsHarmless ==
    [][\A s \in sockets : s.phase = "refused" /\ s \notin sockets' /\ status' \in Open
        => members' = members]_vars

=============================================================================
