----------------------------- MODULE RelayRoom -----------------------------
(***************************************************************************)
(* One room in the Durable Object deployment.  The handlers are those of   *)
(* RoomEngine, but no mutex surrounds them: the object's own storage is     *)
(* synchronous, a call to the D1 database is not, and while a handler waits *)
(* for one the object serves other events.  So a handler is cut at its D1   *)
(* calls.  What it does before the call is one step, the call takes effect  *)
(* in the database in a second one, and its reply continues the handler in  *)
(* a third, each as late as it likes.                                      *)
(*                                                                         *)
(* forceClose and banPlayer run in blockConcurrencyWhile: until they are    *)
(* over no other event or reply reaches the object, though calls already    *)
(* sent still take effect.                                                  *)
(*                                                                         *)
(* Left out here and modelled in RoomEngine: seat numbers, the count of     *)
(* players, ready, plays scheduled ahead, the ticket of a reservation.      *)
(***************************************************************************)
EXTENDS Integers, FiniteSets

CONSTANTS
    Guests,     \* players other than the host
    Host,       \* the player in the host's seat
    Reporters,  \* bound: players whose score reports are looked at
    Slots,      \* bound: handlers waiting for the database at a time
    Idle,       \* a slot without a handler
    MaxPlays,   \* bound: plays the host starts
    MaxFaults,  \* bound: database calls that fail
    InOrder     \* database calls take effect in the order they were sent

Players == Guests \cup {Host}
Plays == 1..MaxPlays
NoPlay == 0

(* A member of the live table: reserved, connected, or up for removal since
   its socket closed or its reservation aged. *)
Seats == {"none", "reserved", "connected", "left"}

Ops == {"reserveSeat", "markConnected", "startPlay", "readCast", "finishPlay",
        "removeMember", "updatePlayerCount", "closeRoom", "banRemoveMember"}

(* A handler that waits for a database call.  who: the players whose seats it
   is about; play, scores, back: the play, the scores and the status it has
   read; by: what runs it; after: calls that take effect before this one;
   sent: whether the call is on its way or answered. *)
Call == [op: Ops, who: SUBSET Players, play: Plays \cup {NoPlay},
         scores: [Players -> Plays \cup {NoPlay}], back: {"recruiting", "playing"},
         by: {"event", "alarm", "admin"}, after: SUBSET Slots, sent: {"out", "stored", "refused"}]

ASSUME RelayAssumption ==
    /\ Host \notin Guests
    /\ Reporters \subseteq Guests \cup {Host}
    /\ Idle \notin Call
    /\ MaxPlays \in Nat /\ MaxFaults \in Nat
    /\ InOrder \in BOOLEAN

VARIABLES
    status, play,   \* room_meta: status, play_id
    seat,           \* members by player
    scores,         \* play_scores by player: the play reported in
    sockets,        \* players whose WebSocket is open
    alarm,          \* the alarm is set
    room,           \* rooms.status in D1
    rows,           \* room_members in D1: connected, or reserved, or none
    plays,          \* plays in D1
    history,        \* ended plays in D1: who scored in which play
    call,           \* waiting handlers by slot
    faults          \* database calls that have failed

vars == <<status, play, seat, scores, sockets, alarm, room, rows, plays, history, call, faults>>
live == <<status, play, seat, scores, sockets, alarm>>
stored == <<room, rows, plays, history>>

TypeOK ==
    /\ status \in {"none", "recruiting", "playing", "closing", "closed"}
    /\ play \in Plays \cup {NoPlay}
    /\ seat \in [Players -> Seats]
    /\ scores \in [Players -> Plays \cup {NoPlay}]
    /\ sockets \subseteq Players
    /\ alarm \in BOOLEAN
    /\ room \in {"recruiting", "playing", "closed"}
    /\ rows \in [Players -> {"none", "reserved", "connected"}]
    /\ plays \in [Plays -> {"none", "playing", "ended"}]
    /\ history \in [Plays -> SUBSET (Players \X Plays)]
    /\ \A h \in Slots : call[h] # Idle => call[h] \in Call
    /\ faults \in 0..MaxFaults

NoScores == [p \in Players |-> NoPlay]

(* The room as createRoom and the creator's reservation leave it. *)
Init ==
    /\ status = "recruiting" /\ play = NoPlay
    /\ seat = [p \in Players |-> IF p = Host THEN "reserved" ELSE "none"]
    /\ scores = NoScores /\ sockets = {} /\ alarm = TRUE
    /\ room = "recruiting"
    /\ rows = seat
    /\ plays = [k \in Plays |-> "none"] /\ history = [k \in Plays |-> {}]
    /\ call = [h \in Slots |-> Idle] /\ faults = 0

-----------------------------------------------------------------------------
(* Events, database calls and replies. *)

Busy == {h \in Slots : call[h] # Idle}
Waiting(op) == {h \in Busy : call[h].op = op}

(* blockConcurrencyWhile *)
Blocked == \E h \in Busy : call[h].by = "admin"

Event(h) == call[h] = Idle /\ ~Blocked

Answered(h, op, how) ==
    /\ h \in Waiting(op) /\ call[h].sent = how
    /\ Blocked => call[h].by = "admin"

Ask(op, who, by) ==
    [op |-> op, who |-> who, play |-> NoPlay, scores |-> NoScores,
     back |-> "recruiting", by |-> by, sent |-> "out",
     after |-> IF InOrder THEN {h \in Busy : call[h].sent = "out"} ELSE {}]

(* Mutant of AskClose: the status is read after it has been changed. *)
AskCloseLate(by) == [Ask("closeRoom", {}, by) EXCEPT !.play = play, !.back = "closing"]

(* closeRoom: the open play is settled with the room; status is what a failure
   restores. *)
AskClose(by) == [Ask("closeRoom", {}, by) EXCEPT !.play = play, !.back = status]

Send(h, c) == call' = [call EXCEPT ![h] = c]
Done(h) == call' = [call EXCEPT ![h] = Idle]

Open == status \in {"recruiting", "playing"}

Without(ps) == [p \in Players |-> IF p \in ps THEN "none" ELSE seat[p]]

(* A socket is heard once its join has been answered. *)
Joined(p) == p \in sockets /\ \A h \in Waiting("markConnected") : p \notin call[h].who

(* onMessage: only a connected member of an open room is listened to. *)
Speaks(p) == Joined(p) /\ Open /\ seat[p] = "connected"

(* The member a call is about; an alarm frees one seat after the other. *)
Subject(h) == CHOOSE p \in call[h].who : TRUE

(* What a call does in the database. *)
Effect(h) ==
    LET c == call[h]
        p == Subject(h)
    IN
    CASE c.op = "reserveSeat" ->
            /\ rows' = [rows EXCEPT ![p] = "reserved"]
            /\ UNCHANGED <<room, plays, history>>
      [] c.op = "markConnected" ->
            /\ rows' = [rows EXCEPT ![p] = IF @ = "none" THEN "none" ELSE "connected"]
            /\ UNCHANGED <<room, plays, history>>
      [] c.op = "startPlay" ->
            /\ plays' = [plays EXCEPT ![c.play] = "playing"]
            /\ rows' = [q \in Players |-> IF rows[q] = "reserved" THEN "none" ELSE rows[q]]
            /\ room' = "playing"
            /\ UNCHANGED history
      [] c.op = "finishPlay" ->
            /\ plays' = [plays EXCEPT ![c.play] = IF @ = "playing" THEN "ended" ELSE @]
            /\ history' = IF plays[c.play] # "playing" THEN history
                          ELSE [history EXCEPT ![c.play] =
                                  {<<q, c.scores[q]>> : q \in {r \in Players : c.scores[r] # NoPlay}}]
            /\ room' = IF room = "playing" THEN "recruiting" ELSE room
            /\ UNCHANGED rows
      [] c.op \in {"removeMember", "banRemoveMember"} ->
            /\ rows' = [rows EXCEPT ![p] = "none"]
            /\ UNCHANGED <<room, plays, history>>
      [] c.op = "closeRoom" ->
            /\ room' = "closed"
            /\ rows' = [q \in Players |-> IF rows[q] = "connected" THEN "reserved" ELSE rows[q]]
            /\ plays' = [k \in Plays |-> IF k = c.play /\ plays[k] = "playing"
                                         THEN "ended" ELSE plays[k]]
            /\ UNCHANGED history
      [] OTHER -> UNCHANGED stored

Out(h) == h \in Busy /\ call[h].sent = "out" /\ call[h].after = {}

Back(h, how) ==
    call' = [o \in Slots |-> IF o = h THEN [call[o] EXCEPT !.sent = how]
                             ELSE IF call[o] = Idle THEN Idle
                             ELSE [call[o] EXCEPT !.after = @ \ {h}]]

(* A seat that is already stored cannot be inserted again. *)
Duplicate(h) == call[h].op = "reserveSeat" /\ rows[Subject(h)] # "none"

Store(h) ==
    /\ Out(h) /\ ~Duplicate(h)
    /\ Effect(h) /\ Back(h, "stored")
    /\ UNCHANGED <<live, faults>>

Reject(h) ==
    /\ Out(h) /\ Duplicate(h)
    /\ Back(h, "refused")
    /\ UNCHANGED <<live, stored, faults>>

(* A call fails, or its reply does although it has taken effect.  A failure of
   an administrator's call resets the whole object, which is left out. *)
Falter(h) ==
    /\ Out(h) /\ ~Duplicate(h) /\ call[h].by # "admin" /\ faults < MaxFaults
    /\ faults' = faults + 1
    /\ Effect(h) \/ UNCHANGED stored
    /\ Back(h, "refused")
    /\ UNCHANGED live

-----------------------------------------------------------------------------
(* Seats. *)

Reserve(h, p) ==
    /\ Event(h) /\ status = "recruiting" /\ seat[p] # "connected"
    /\ seat' = [seat EXCEPT ![p] = "reserved"]
    /\ IF seat[p] = "none" THEN Send(h, Ask("reserveSeat", {p}, "event")) ELSE UNCHANGED call
    /\ UNCHANGED <<status, play, scores, sockets, alarm, stored, faults>>

Reserved(h) ==
    /\ \/ Answered(h, "reserveSeat", "stored") /\ alarm' = TRUE /\ UNCHANGED seat
       \/ Answered(h, "reserveSeat", "refused") /\ seat' = Without(call[h].who) /\ UNCHANGED alarm
    /\ Done(h)
    /\ UNCHANGED <<status, play, scores, sockets, stored, faults>>

(* Only a guest's: the alarm asks nothing else of the host but its presence. *)
ReservationAges(p) ==
    /\ Open /\ seat[p] = "reserved"
    /\ seat' = [seat EXCEPT ![p] = "left"]
    /\ UNCHANGED <<status, play, scores, sockets, alarm, stored, call, faults>>

Connect(h, p) ==
    /\ Event(h) /\ status = "recruiting" /\ seat[p] \in {"reserved", "left"} /\ p \notin sockets
    /\ seat' = [seat EXCEPT ![p] = "connected"]
    /\ sockets' = sockets \cup {p}
    /\ Send(h, Ask("markConnected", {p}, "event"))
    /\ UNCHANGED <<status, play, scores, alarm, stored, faults>>

(* The join is taken back if it could not be stored or the socket has been
   closed meanwhile. *)
ConnectCompletes(h) ==
    /\ \/ /\ Answered(h, "markConnected", "stored") /\ Subject(h) \in sockets
          /\ UNCHANGED <<seat, sockets, alarm>>
       \/ /\ \/ Answered(h, "markConnected", "stored") /\ Subject(h) \notin sockets
             \/ Answered(h, "markConnected", "refused")
          /\ seat' = [seat EXCEPT ![Subject(h)] = IF @ = "none" THEN "none" ELSE "left"]
          /\ sockets' = sockets \ call[h].who
          /\ alarm' = TRUE
    /\ Done(h)
    /\ UNCHANGED <<status, play, scores, stored, faults>>

(* The close event of a socket: the host's absence closes the room, a guest's
   seat is kept until its row is gone. *)
SocketCloses(h, p) ==
    /\ Event(h) /\ Joined(p)
    /\ sockets' = sockets \ {p}
    /\ IF ~Open \/ seat[p] = "none"
       THEN UNCHANGED <<status, seat, alarm, call>>
       ELSE /\ seat' = [seat EXCEPT ![p] = "left"]
            /\ alarm' = TRUE
            /\ status' = IF p = Host THEN "closing" ELSE status
            /\ Send(h, IF p = Host THEN AskClose("event") ELSE Ask("removeMember", {p}, "event"))
    /\ UNCHANGED <<play, scores, stored, faults>>

MemberRemoved(h) ==
    /\ h \in Busy /\ call[h].by = "event"
    /\ \/ Answered(h, "removeMember", "stored") /\ seat' = Without(call[h].who)
       \/ Answered(h, "removeMember", "refused") /\ UNCHANGED seat
    /\ Done(h)
    /\ UNCHANGED <<status, play, scores, sockets, alarm, stored, faults>>

BanPlayer(h, p) ==
    /\ Event(h) /\ Open /\ seat[p] # "none"
    /\ status' = IF p = Host THEN "closing" ELSE status
    /\ Send(h, IF p = Host THEN AskClose("admin") ELSE Ask("banRemoveMember", {p}, "admin"))
    /\ UNCHANGED <<play, seat, scores, sockets, alarm, stored, faults>>

Banned(h) ==
    /\ Answered(h, "banRemoveMember", "stored")
    /\ seat' = Without(call[h].who)
    /\ sockets' = sockets \ call[h].who
    /\ Done(h)
    /\ UNCHANGED <<status, play, scores, alarm, stored, faults>>

-----------------------------------------------------------------------------
(* Plays. *)

NewPlay(k) ==
    /\ plays[k] = "none" /\ k # play /\ \A h \in Busy : call[h].play # k
    /\ \A j \in 1..(k - 1) : plays[j] # "none" \/ j = play \/ \E h \in Busy : call[h].play = j

StartPlay(h, k) ==
    /\ Event(h) /\ Speaks(Host) /\ status = "recruiting" /\ NewPlay(k)
    /\ status' = "playing" /\ play' = k
    /\ Send(h, [Ask("startPlay", {p \in Players : seat[p] \in {"reserved", "left"}}, "event")
                EXCEPT !.play = k])
    /\ UNCHANGED <<seat, scores, sockets, alarm, stored, faults>>

PlayStarted(h) ==
    /\ \/ /\ Answered(h, "startPlay", "stored")
          /\ seat' = Without(call[h].who)
          /\ UNCHANGED <<status, play>>
       \/ /\ Answered(h, "startPlay", "refused")
          /\ status' = "recruiting" /\ play' = NoPlay
          /\ UNCHANGED seat
    /\ Done(h)
    /\ UNCHANGED <<scores, sockets, alarm, stored, faults>>

RecordScore(p) ==
    /\ ~Blocked /\ Speaks(p) /\ status = "playing"
    /\ scores' = [scores EXCEPT ![p] = play]
    /\ UNCHANGED <<status, play, seat, sockets, alarm, stored, call, faults>>

EndPlay(h) ==
    /\ Event(h) /\ Speaks(Host) /\ status = "playing" /\ play # NoPlay
    /\ Send(h, [Ask("readCast", {}, "event") EXCEPT !.play = play, !.scores = scores])
    /\ UNCHANGED <<live, stored, faults>>

(* Without the participants there is nobody whose scores are written. *)
CastRead(h) ==
    /\ Answered(h, "readCast", "stored") \/ Answered(h, "readCast", "refused")
    /\ Send(h, [Ask("finishPlay", {}, "event") EXCEPT !.play = call[h].play,
                   !.scores = IF call[h].sent = "stored" THEN call[h].scores ELSE NoScores])
    /\ UNCHANGED <<live, stored, faults>>

(* Mutant of PlayFinished: the status is not read again after the write. *)
PlayFinishedUnchecked(h) ==
    /\ Answered(h, "finishPlay", "stored")
    /\ status' = "recruiting" /\ play' = NoPlay /\ scores' = NoScores
    /\ Done(h)
    /\ UNCHANGED <<seat, sockets, alarm, stored, faults>>

(* Mutant of PlayFinished: the scores stay. *)
PlayFinishedScoresKept(h) ==
    /\ Answered(h, "finishPlay", "stored")
    /\ status' = "recruiting" /\ play' = NoPlay
    /\ Done(h)
    /\ UNCHANGED <<seat, scores, sockets, alarm, stored, faults>>

PlayFinished(h) ==
    /\ \/ /\ Answered(h, "finishPlay", "stored") /\ status = "playing"
          /\ status' = "recruiting" /\ play' = NoPlay /\ scores' = NoScores
       \/ /\ \/ Answered(h, "finishPlay", "stored") /\ status # "playing"
             \/ Answered(h, "finishPlay", "refused")
          /\ UNCHANGED <<status, play, scores>>
    /\ Done(h)
    /\ UNCHANGED <<seat, sockets, alarm, stored, faults>>

-----------------------------------------------------------------------------
(* Closing, and the alarm. *)

ForceClose(h) ==
    /\ Event(h) /\ Open
    /\ status' = "closing"
    /\ Send(h, AskClose("admin"))
    /\ UNCHANGED <<play, seat, scores, sockets, alarm, stored, faults>>

RoomClosed(h) ==
    /\ \/ /\ Answered(h, "closeRoom", "stored")
          /\ status' = "closed" /\ play' = NoPlay /\ scores' = NoScores
          /\ seat' = [p \in Players |-> IF seat[p] = "connected" THEN "reserved" ELSE seat[p]]
          /\ sockets' = {}
          /\ UNCHANGED alarm
       \/ /\ Answered(h, "closeRoom", "refused")
          /\ status' = call[h].back
          /\ alarm' = TRUE
          /\ UNCHANGED <<play, scores, seat, sockets>>
    /\ Done(h)
    /\ UNCHANGED <<stored, faults>>

Left == {p \in Players : seat[p] = "left"}

SweepNext(h, ps) ==
    Send(h, Ask(IF ps = {} THEN "updatePlayerCount" ELSE "removeMember", ps, "alarm"))

Alarm(h) ==
    /\ Event(h) /\ alarm /\ \A o \in Busy : call[o].by # "alarm"
    /\ alarm' = FALSE
    /\ IF status \in {"none", "closed"} THEN UNCHANGED <<status, call>>
       ELSE IF seat[Host] = "connected" THEN SweepNext(h, Left) /\ UNCHANGED status
       ELSE IF Open THEN /\ status' = "closing"
                         /\ Send(h, AskClose("alarm"))
       ELSE UNCHANGED <<status, call>>
    /\ UNCHANGED <<play, seat, scores, sockets, stored, faults>>

(* Mutant of Swept: a full room is not looked at again. *)
SweptOnce(h) ==
    /\ h \in Busy /\ call[h].by = "alarm"
    /\ \/ /\ Answered(h, "removeMember", "stored")
          /\ seat' = Without({Subject(h)})
          /\ SweepNext(h, call[h].who \ {Subject(h)})
          /\ UNCHANGED alarm
       \/ /\ \/ Answered(h, "removeMember", "refused") \/ Answered(h, "updatePlayerCount", "refused")
             \/ Answered(h, "updatePlayerCount", "stored")
          /\ alarm' = \E p \in Players : seat[p] # "connected"
          /\ Done(h)
          /\ UNCHANGED seat
    /\ UNCHANGED <<status, play, scores, sockets, stored, faults>>

(* An alarm that throws is run again by the platform. *)
Swept(h) ==
    /\ h \in Busy /\ call[h].by = "alarm"
    /\ \/ /\ Answered(h, "removeMember", "stored")
          /\ seat' = Without({Subject(h)})
          /\ SweepNext(h, call[h].who \ {Subject(h)})
          /\ UNCHANGED alarm
       \/ /\ \/ Answered(h, "removeMember", "refused") \/ Answered(h, "updatePlayerCount", "refused")
             \/ Answered(h, "updatePlayerCount", "stored")
          /\ alarm' = TRUE
          /\ Done(h)
          /\ UNCHANGED seat
    /\ UNCHANGED <<status, play, scores, sockets, stored, faults>>

-----------------------------------------------------------------------------
Receive(h) ==
    \/ EndPlay(h) \/ ForceClose(h) \/ Alarm(h)
    \/ \E k \in Plays : StartPlay(h, k)
    \/ \E p \in Players : Reserve(h, p) \/ Connect(h, p) \/ SocketCloses(h, p) \/ BanPlayer(h, p)

Resume(h) ==
    \/ Reserved(h) \/ ConnectCompletes(h) \/ MemberRemoved(h) \/ Banned(h)
    \/ PlayStarted(h) \/ CastRead(h) \/ PlayFinished(h) \/ RoomClosed(h) \/ Swept(h)

Next ==
    \/ \E h \in Slots : Receive(h) \/ Resume(h) \/ Store(h) \/ Reject(h) \/ Falter(h)
    \/ \E p \in Reporters : RecordScore(p)
    \/ \E p \in Guests : ReservationAges(p)

Spec == Init /\ [][Next]_vars

-----------------------------------------------------------------------------
(* PROPERTIES *)

(* closeRoom: a room is closing only while a handler waits for the write that
   closes it; whatever else comes back meanwhile, no handler leaves the
   status behind in which every other handler gives up. *)
ClosingIsPending == status = "closing" => Waiting("closeRoom") # {}

(* endPlay: however its database calls interleave with other handlers, the
   history of a play holds only scores reported in it. *)
HistoryIsOwn ==
    faults = 0 => \A k \in Plays : \A e \in history[k] : e[2] = k

Unwatched == Open /\ ~alarm /\ \A h \in Busy : call[h].by # "alarm"

(* recordPlayStarted: the write failed, whatever the room is by now. *)
StartTakenBack(h) == Answered(h, "startPlay", "refused") /\ PlayStarted(h)

(* alarm: an open room has its alarm set or in progress, whichever calls fail,
   until one step takes that away: the reply of a failed startPlay, which makes
   the room recruit again although it is being closed or has been closed
   meanwhile, and its alarm may be over. *)
OpenRoomIsWatched ==
    /\ ~Unwatched
    /\ [][Unwatched' => Unwatched \/ (~Open /\ \E h \in Slots : StartTakenBack(h))]_vars

CloseTakenBack(h) == Answered(h, "closeRoom", "refused") /\ RoomClosed(h)

(* closeRoom: a closed room is opened again by no reply but two, which put a
   status back after a failed write without a look at the present one: that of
   startPlay, and that of another closeRoom. *)
LiveCloseIsFinal ==
    [][status = "closed" =>
          status' = "closed" \/ \E h \in Slots : StartTakenBack(h) \/ CloseTakenBack(h)]_vars

(* "The equivalent of the Durable Object's single-threaded event loop": with
   its mutations serialised, a room in which no handler waits is playing in
   the database exactly if it is live. *)
LivePlayIsStored ==
    Busy = {} /\ faults = 0 /\ Open => (room = "playing" <=> status = "playing")
=============================================================================
