------------------------- MODULE RoomEngine_proofs -------------------------
(***************************************************************************)
(* Proofs about the room of RoomEngine, for every number of seats, players, *)
(* tickets, plays and failures.                                            *)
(***************************************************************************)
EXTENDS RoomEngine, FiniteSetTheorems, TLAPS

-----------------------------------------------------------------------------
(* The inductive invariant.  Its parts that no run checks by themselves tie *)
(* the pieces of state that the handlers read together: the code relies on  *)
(* them without saying so.                                                  *)

(* A play id is set exactly while the room plays. *)
PlayIdSet == playId # NoPlay <=> status = "playing"

(* A process that is down left an open room behind and holds nothing live. *)
DownLeavesOpen == ~up => status = "none" /\ room.status \in Open

(* A room that is not open has no live seats. *)
SeatsOnlyOpen == status \notin Open => members = NoSeats

(* Scores are kept during a play only. *)
ScoresOnlyPlaying == status # "playing" => scores = NoScores

(* The live scores hold reports of the running play and its cast only; none
   survive into the next play. *)
ScoresOfThisPlay ==
    \A p \in Peers :
        scores[p].data \subseteq
            (IF status = "playing" THEN {<<playId, plays[playId].cast[p]>>} ELSE {})

IInv ==
    /\ TypeOK
    /\ PlayIdSet /\ DownLeavesOpen /\ SeatsOnlyOpen /\ ScoresOnlyPlaying
    /\ StatusAgreement /\ OpenPlayIsCurrent
    /\ SeatBacked /\ ConnectedSeatHasSocket /\ HostSeated
    /\ SeatsAreCast /\ DropFrozen /\ ScoresOfThisPlay /\ HistoryIsOwn
    /\ OpenRoomIsWatched

-----------------------------------------------------------------------------
(* Facts about the helpers. *)

(* A room has at least the host's seat. *)
LEMMA HostIsPeer == HostPeer \in Peers
  BY ConstantsAssumption DEF HostPeer, Peers

(* Every set of seats is finite, so the counts the code writes are numbers. *)
LEMMA SeatCounts ==
  \A S \in SUBSET Peers : IsFiniteSet(S) /\ Cardinality(S) \in Nat
<1>1. IsFiniteSet(Peers)
  BY FS_Interval, ConstantsAssumption DEF Peers
<1> QED  BY <1>1, FS_Subset, FS_CardinalityType

(* Clearing entries of a table leaves a table. *)
LEMMA WithoutType ==
  ASSUME NEW X, NEW none \in X, NEW table \in [Peers -> X], NEW S
  PROVE  Without(table, S, none) \in [Peers -> X]
  BY DEF Without

(* markDisconnected leaves well-formed live rows. *)
LEMMA MarkDisconnectedType ==
  ASSUME members \in [Peers -> Seat \cup {NoSeat}], NEW p \in Taken(members)
  PROVE  MarkDisconnected(p) \in [Peers -> Seat \cup {NoSeat}]
  BY DEF MarkDisconnected, Taken, Seat

(* A live row with one flag rewritten is a live row of the same player. *)
LEMMA FlagTypes ==
  ASSUME NEW seat \in Seat
  PROVE  /\ [seat EXCEPT !.ready = FALSE] \in Seat
         /\ [seat EXCEPT !.ready = FALSE].identity = seat.identity
         /\ [seat EXCEPT !.ready = FALSE].ticket = seat.ticket
         /\ [seat EXCEPT !.ready = FALSE].connected = seat.connected
         /\ [seat EXCEPT !.connected = TRUE, !.reserved = "fresh"] \in Seat
  BY DEF Seat

(* Freezing scores leaves well-formed score rows. *)
LEMMA MarkScoreDroppedType ==
  ASSUME scores \in [Peers -> Score], NEW S
  PROVE  MarkScoreDropped(S) \in [Peers -> Score]
  BY DEF MarkScoreDropped, Score

(* The empty tables and the unwritten play row have their types. *)
LEMMA EmptyTypes ==
  /\ NoSeats \in [Peers -> Seat \cup {NoSeat}]
  /\ NoScores \in [Peers -> Score]
  /\ NoPlayRow \in Play
  BY DEF NoSeats, NoScores, NoScore, NoPlayRow, Score, Play

(* The durable writes that touch the connected flag keep the rows' type. *)
LEMMA RowTypes ==
  ASSUME rows \in [Peers -> Row \cup {NoRow}], NEW p \in Peers
  PROVE  /\ RowsDisconnected \in [Peers -> Row \cup {NoRow}]
         /\ RowConnected(p) \in [Peers -> Row \cup {NoRow}]
  BY DEF RowsDisconnected, RowConnected, Row

-----------------------------------------------------------------------------
(* Type correctness of a step. *)

(* closeRoom, whether its write goes through or not, keeps the types. *)
LEMMA CloseRoomType ==
  ASSUME TypeOK, NEW mem \in [Peers -> Seat \cup {NoSeat}], NEW socks \in SUBSET Socket,
         CloseRoom(mem, socks), UNCHANGED up
  PROVE  TypeOK'
<1>1. CASE RoomCloses
  <2>1. plays' \in [PlayIds -> Play]
    BY <1>1, EmptyTypes DEF RoomCloses, PlaysSettled, TypeOK, Play, NoPlayRow
  <2>2. rows' \in [Peers -> Row \cup {NoRow}]
    BY <1>1, RowTypes, HostIsPeer DEF RoomCloses, TypeOK
  <2> QED
    BY <1>1, <2>1, <2>2, EmptyTypes DEF RoomCloses, TypeOK, Statuses, Sound, NoPlay
<1>2. CASE RoomStaysOpen(mem, socks)
  BY <1>2, ConstantsAssumption DEF RoomStaysOpen, TypeOK, Faulty, durable
<1> QED
  BY <1>1, <1>2 DEF CloseRoom

(* A socket's close or error event keeps the types. *)
LEMMA RemoveSocketType ==
  ASSUME TypeOK, NEW s, s.peer \in Peers, NEW socks \in SUBSET Socket,
         RemoveSocket(s, socks), UNCHANGED up
  PROVE  TypeOK'
<1> USE DEF TypeOK
<1>1. CASE ~HoldsSeat(s) /\ sockets' = socks /\ UNCHANGED <<live, durable, alarm, faults>>
  BY <1>1 DEF live, durable
<1>2. CASE HoldsSeat(s) /\ CloseRoom(MarkDisconnected(s.peer), socks)
  <2>1. MarkDisconnected(s.peer) \in [Peers -> Seat \cup {NoSeat}]
    BY <1>2, MarkDisconnectedType DEF HoldsSeat, Taken
  <2> QED
    BY <1>2, <2>1, CloseRoomType
<1>3. CASE /\ HoldsSeat(s) /\ sockets' = socks
           /\ LeavePlay(s.peer) \/ LeaveLobby(s.peer)
  <2> DEFINE p == s.peer
  <2>1. Cardinality(Taken(members) \ {p}) \in Nat
    BY SeatCounts DEF Taken
  <2>2. MarkDisconnected(p) \in [Peers -> Seat \cup {NoSeat}]
    BY <1>3, MarkDisconnectedType DEF HoldsSeat, Taken
  <2>3. Without(members, {p}, NoSeat) \in [Peers -> Seat \cup {NoSeat}]
    BY WithoutType
  <2>4. Without(rows, {p}, NoRow) \in [Peers -> Row \cup {NoRow}]
    BY WithoutType
  <2>5. MarkScoreDropped({p}) \in [Peers -> Score]
    BY MarkScoreDroppedType
  <2>6. faults' \in 0..MaxFaults
    BY <1>3, ConstantsAssumption DEF LeavePlay, LeaveLobby, Sound, Faulty
  <2>7. CASE LeavePlay(p)
    BY <1>3, <2>1, <2>2, <2>3, <2>4, <2>5, <2>6, <2>7 DEF LeavePlay
  <2>8. CASE LeaveLobby(p)
    BY <1>3, <2>1, <2>2, <2>3, <2>4, <2>6, <2>8 DEF LeaveLobby
  <2> QED
    BY <1>3, <2>7, <2>8
<1> QED
  BY <1>1, <1>2, <1>3 DEF RemoveSocket

(* The alarm's sweep keeps the types, wherever it is cut short. *)
LEMMA SweepType ==
  ASSUME TypeOK, Sweep, UNCHANGED <<sockets, up>>
  PROVE  TypeOK'
<1> USE DEF TypeOK
<1> PICK cut \in 1..(MaxPeers + 2) :
        /\ \/ CutFails(cut) /\ Faulty
           \/ cut = MaxPeers + 2 /\ Sound
        /\ members' = Without(members, Swept(cut), NoSeat)
        /\ rows' = Without(rows, Swept(cut), NoRow)
        /\ scores' = IF status = "playing"
                     THEN MarkScoreDropped({p \in Tried(cut) : members[p].reserved = "dropped"})
                     ELSE scores
        /\ room' = [room EXCEPT !.count = SweptCount(cut)]
        /\ alarm' = TRUE
        /\ UNCHANGED <<status, playId, begun, plays>>
  BY DEF Sweep
<1>1. members' \in [Peers -> Seat \cup {NoSeat}]
  BY WithoutType
<1>2. rows' \in [Peers -> Row \cup {NoRow}]
  BY WithoutType
<1>3. scores' \in [Peers -> Score]
  BY MarkScoreDroppedType
<1>4. SweptCount(cut) \in Nat
  BY SeatCounts DEF SweptCount, Taken
<1>5. faults' \in 0..MaxFaults
  BY ConstantsAssumption DEF Faulty, Sound
<1> QED
  BY <1>1, <1>2, <1>3, <1>4, <1>5

(* What endPlay leaves of the play's row, whether or not its participants    *)
(* could be read.                                                            *)
LEMMA FinishedRow ==
  ASSUME TypeOK, playId \in PlayIds, PlayEnds
  PROVE  /\ plays' \in [PlayIds -> Play]
         /\ \A n \in PlayIds : n # playId => plays'[n] = plays[n]
         /\ plays'[playId].state \in {"ended", "deleted"}
         /\ \/ /\ plays'[playId].cast = plays[playId].cast
               /\ plays'[playId].result = Results(playId)
            \/ \A p \in Peers : plays'[playId].result[p] = {}
         /\ faults' \in 0..MaxFaults
<1>1. PICK read \in BOOLEAN : plays' = PlayFinished(read)
  BY DEF PlayEnds
<1>2. plays \in [PlayIds -> Play]
  BY DEF TypeOK
<1>3. Results(playId) \in [Peers -> SUBSET Report]
  BY DEF Results, Score, TypeOK
<1> DEFINE ended == [plays[playId] EXCEPT !.state = "ended", !.result = Results(playId)]
           lost  == [NoPlayRow EXCEPT !.state = "ended"]
           gone  == [NoPlayRow EXCEPT !.state = "deleted"]
<1>4. /\ ended \in Play /\ ended.state = "ended"
      /\ ended.cast = plays[playId].cast /\ ended.result = Results(playId)
  BY <1>2, <1>3 DEF Play
<1>5. /\ lost \in Play /\ lost.state = "ended"
      /\ \A p \in Peers : lost.result[p] = {}
  BY DEF NoPlayRow, Play
<1>6. /\ gone \in Play /\ gone.state = "deleted"
      /\ \A p \in Peers : gone.result[p] = {}
  BY DEF NoPlayRow, Play
<1>7. \E row \in {ended, lost, gone} : plays' = [plays EXCEPT ![playId] = row]
  BY <1>1 DEF PlayFinished
<1>8. faults' \in 0..MaxFaults
  <2>1. Sound \/ Faulty
    BY DEF PlayEnds
  <2>2. faults \in 0..MaxFaults
    BY DEF TypeOK
  <2> QED
    BY <2>1, <2>2, ConstantsAssumption DEF Sound, Faulty
<1> HIDE DEF ended, lost, gone
<1>9. PICK row \in {ended, lost, gone} : plays' = [plays EXCEPT ![playId] = row]
  BY <1>7
<1>10. plays'[playId] = row /\ \A n \in PlayIds : n # playId => plays'[n] = plays[n]
  BY <1>2, <1>9
<1>11. plays' \in [PlayIds -> Play]
  BY <1>2, <1>4, <1>5, <1>6, <1>9
<1>12. CASE row = ended
  BY <1>4, <1>8, <1>10, <1>11, <1>12
<1>13. CASE row = lost \/ row = gone
  BY <1>5, <1>6, <1>8, <1>10, <1>11, <1>13
<1> QED
  BY <1>9, <1>12, <1>13

(* Every handler keeps the types. *)
LEMMA TypeStep ==
  ASSUME TypeOK, PlayIdSet, [Next]_vars
  PROVE  TypeOK'
<1> USE DEF TypeOK
<1>1. CASE Initialize
  <2>1. faults' \in 0..MaxFaults
    BY <1>1, ConstantsAssumption DEF Initialize, Sound, Faulty
  <2>2. status' \in Statuses
    BY <1>1 DEF Initialize, Statuses
  <2>3. room' \in [status: {"absent", "recruiting", "playing", "closed"}, count: Nat]
    BY <1>1 DEF Initialize
  <2> QED
    BY <1>1, <2>1, <2>2, <2>3 DEF Initialize
<1>2. CASE ForceClose
  BY <1>2, CloseRoomType DEF ForceClose
<1>3. ASSUME NEW i \in Identities, Reserve(i)
      PROVE  TypeOK'
  <2> PICK p \in Peers, t \in Tickets : ReserveSeat(i, p, t) \/ ReserveFails
    BY <1>3 DEF Reserve
  <2>1. CASE ReserveSeat(i, p, t)
    <3>1. room'.count \in Nat /\ room'.status = room.status /\ room' = [room EXCEPT !.count = room'.count]
      BY <2>1, SeatCounts DEF ReserveSeat, Taken
    <3> QED
      BY <1>3, <2>1, <3>1 DEF Reserve, ReserveSeat, Seat, Row, Sound
  <2>2. CASE ReserveFails
    BY <1>3, <2>2, ConstantsAssumption DEF Reserve, ReserveFails, Faulty
  <2> QED
    BY <2>1, <2>2
<1>4. ASSUME NEW i \in Identities, Rereserve(i)
      PROVE  TypeOK'
  <2> PICK p \in SeatsOf(i), t \in Tickets :
        members' = [members EXCEPT ![p] = [@ EXCEPT !.ticket = t, !.reserved = "fresh"]]
    BY <1>4 DEF Rereserve
  <2>1. p \in Peers /\ members[p] \in Seat
    BY DEF SeatsOf, Taken
  <2>2. [members[p] EXCEPT !.ticket = t, !.reserved = "fresh"] \in Seat
    BY <2>1 DEF Seat
  <2> QED
    BY <1>4, <2>2 DEF Rereserve, durable
<1>5. ASSUME NEW i \in Identities, BanPlayer(i)
      PROVE  TypeOK'
  <2> PICK p \in SeatsOf(i) :
        IF p = HostPeer THEN CloseRoom(members, sockets)
        ELSE /\ RemoveBanned(p) \/ BanFails
             /\ UNCHANGED <<status, playId, begun, plays, alarm, sockets>>
    BY <1>5 DEF BanPlayer
  <2>1. CASE p = HostPeer
    BY <1>5, <2>1, CloseRoomType DEF BanPlayer
  <2>2. CASE p # HostPeer /\ RemoveBanned(p)
    <3>1. Cardinality(Taken(members)) - 1 \in Nat
      <4>1. p \in Taken(members) /\ Taken(members) \in SUBSET Peers
        BY DEF SeatsOf, Taken
      <4>2. IsFiniteSet(Taken(members)) /\ Cardinality(Taken(members)) \in Nat
        BY <4>1, SeatCounts
      <4>3. Cardinality(Taken(members)) # 0
        BY <4>1, <4>2, FS_EmptySet
      <4> QED
        BY <4>2, <4>3
    <3>2. scores' \in [Peers -> Score]
      BY <2>2, MarkScoreDroppedType DEF RemoveBanned
    <3>3. members' \in [Peers -> Seat \cup {NoSeat}]
      BY <2>2, WithoutType DEF RemoveBanned
    <3>4. rows' \in [Peers -> Row \cup {NoRow}]
      BY <2>2 DEF RemoveBanned
    <3> QED
      BY <1>5, <2>2, <3>1, <3>2, <3>3, <3>4 DEF BanPlayer, RemoveBanned, Sound
  <2>3. CASE p # HostPeer /\ BanFails
    BY <1>5, <2>3, ConstantsAssumption DEF BanPlayer, BanFails, Faulty
  <2> QED
    BY <2>1, <2>2, <2>3
<1>6. ASSUME NEW p \in Peers, AgeReservation(p) \/ Ready(p) \/ Unready(p)
      PROVE  TypeOK'
  <2>1. p \in Taken(members) /\ members[p] \in Seat
    BY <1>6 DEF AgeReservation, Ready, Unready, Speaks, Connected, Taken
  <2>2. /\ [members[p] EXCEPT !.reserved = "aged"] \in Seat
        /\ [members[p] EXCEPT !.ready = TRUE] \in Seat
        /\ [members[p] EXCEPT !.ready = FALSE] \in Seat
    BY <2>1 DEF Seat
  <2>3. members' \in [Peers -> Seat \cup {NoSeat}]
    BY <1>6, <2>2 DEF AgeReservation, Ready, Unready
  <2> QED
    BY <1>6, <2>3 DEF AgeReservation, Ready, Unready, durable
<1>7. ASSUME NEW p \in Peers, RecordScore(p)
      PROVE  TypeOK'
  <2>1. playId \in PlayIds /\ members[p].identity \in Identities
    BY <1>7 DEF RecordScore, Speaks, Connected, Taken, Seat, PlayIdSet
  <2>2. scores[p].data \cup {<<playId, members[p].identity>>} \in SUBSET Report
    BY <2>1 DEF Score, Report
  <2> QED
    BY <1>7, <2>2 DEF RecordScore, Score, durable
<1>8. ASSUME NEW p \in Peers, NEW c \in Copies, Upgrade(p, c)
      PROVE  TypeOK'
  BY <1>8 DEF Upgrade, Taken, Seat, Socket, live, durable

<1>9. ASSUME NEW s \in sockets, CompletePlayerConnection(s)
      PROVE  TypeOK'
  <2>1. s \in Socket /\ s.peer \in Peers
    BY DEF Socket
  <2>2. sockets' \subseteq Socket
    BY <1>9, <2>1 DEF CompletePlayerConnection, Rephased, Socket
  <2>3. CASE ~ReservationStands(s.peer, s.identity, s.ticket)
    BY <1>9, <2>2, <2>3 DEF CompletePlayerConnection
  <2>4. CASE ReservationStands(s.peer, s.identity, s.ticket) /\ Join(s.peer)
    <3>1. members' \in [Peers -> Seat \cup {NoSeat}]
      <4>1. members[s.peer] \in Seat
        BY <2>1, <2>4 DEF ReservationStands
      <4>2. [members[s.peer] EXCEPT !.connected = TRUE, !.reserved = "fresh"] \in Seat
        BY <4>1, FlagTypes
      <4> QED
        BY <2>4, <4>2 DEF Join
    <3>2. rows' \in [Peers -> Row \cup {NoRow}]
      BY <2>1, <2>4, RowTypes DEF Join
    <3> QED
      BY <1>9, <2>2, <2>4, <3>1, <3>2 DEF CompletePlayerConnection, Join, Sound
  <2>5. CASE ReservationStands(s.peer, s.identity, s.ticket) /\ JoinFails(s.peer)
    <3>1. members' \in [Peers -> Seat \cup {NoSeat}]
      BY <2>1, <2>5, MarkDisconnectedType DEF JoinFails, ReservationStands, Taken
    <3> QED
      BY <1>9, <2>1, <2>2, <2>5, <3>1, RowTypes, ConstantsAssumption
         DEF CompletePlayerConnection, JoinFails, Faulty
  <2> QED
    BY <1>9, <2>3, <2>4, <2>5 DEF CompletePlayerConnection
<1>10. ASSUME NEW s \in sockets, OnClose(s) \/ OnError(s)
       PROVE  TypeOK'
  <2>1. s \in Socket /\ s.peer \in Peers
    BY DEF Socket
  <2>2. Rephased(s, "errored") \subseteq Socket /\ sockets \ {s} \subseteq Socket
    BY <2>1 DEF Rephased, Socket
  <2>3. PICK socks \in SUBSET Socket : RemoveSocket(s, socks)
    BY <1>10, <2>2 DEF OnClose, OnError
  <2>4. up' = up
    BY <1>10 DEF OnClose, OnError
  <2> QED
    BY <2>1, <2>3, <2>4, RemoveSocketType
<1>11. CASE StartPlay \/ RecordPlayStarted
  <2>1. PICK started \in BOOLEAN, n \in PlayIds : PlayOpens(n, started) \/ PlayRolledBack
    BY <1>11 DEF StartPlay, RecordPlayStarted, BeginPlay
  <2>2. UNCHANGED <<scores, alarm, sockets, up>>
    BY <1>11 DEF StartPlay, RecordPlayStarted, BeginPlay
  <2>3. CASE PlayOpens(n, started)
    <3>1. Cardinality(Connected(members)) \in Nat
      BY SeatCounts DEF Connected, Taken
    <3>2. members' \in [Peers -> Seat \cup {NoSeat}]
      BY <2>3, WithoutType DEF PlayOpens
    <3>3. CastOf(Connected(members)) \in [Peers -> Identities \cup {Nobody}]
      BY DEF CastOf, Connected, Taken, Seat
    <3>4. [NoPlayRow EXCEPT !.state = "open", !.cast = CastOf(Connected(members))] \in Play
      BY <3>3 DEF NoPlayRow, Play
    <3>5. rows' \in [Peers -> Row \cup {NoRow}]
      BY <2>3 DEF PlayOpens
    <3> QED
      BY <2>2, <2>3, <3>1, <3>2, <3>4, <3>5 DEF PlayOpens, Sound, Statuses
  <2>4. CASE PlayRolledBack
    BY <2>2, <2>4, ConstantsAssumption DEF PlayRolledBack, Faulty, durable
  <2> QED
    BY <2>1, <2>3, <2>4
<1>12. CASE StartTimeComes
  BY <1>12 DEF StartTimeComes, durable
<1>13. CASE EndPlay
  <2>1. CASE PlayEnds
    <3>1. playId \in PlayIds
      BY <1>13 DEF EndPlay, PlayIdSet
    <3>2. plays' \in [PlayIds -> Play] /\ faults' \in 0..MaxFaults
      BY <2>1, <3>1, FinishedRow DEF TypeOK
    <3>3. members' \in [Peers -> Seat \cup {NoSeat}]
      BY <2>1, FlagTypes DEF PlayEnds, ReadyCleared
    <3> QED
      BY <1>13, <2>1, <3>2, <3>3, EmptyTypes DEF EndPlay, PlayEnds, Statuses, NoPlay
  <2>2. CASE Faulty /\ UNCHANGED <<live, plays, room>>
    BY <1>13, <2>2, ConstantsAssumption DEF EndPlay, Faulty, live
  <2> QED
    BY <1>13, <2>1, <2>2 DEF EndPlay
<1>14. CASE Alarm
  BY <1>14, CloseRoomType, SweepType DEF Alarm
<1>15. CASE Crash
  BY <1>15, EmptyTypes DEF Crash, durable, Statuses, NoPlay
<1>16. CASE RecoverExpiredRoom
  <2>1. \A play \in Play : [play EXCEPT !.state = "ended"] \in Play
    BY DEF Play
  <2>2. plays' \in [PlayIds -> Play]
    BY <1>16, <2>1 DEF RecoverExpiredRoom
  <2>3. rows' \in [Peers -> Row \cup {NoRow}]
    BY <1>16, RowTypes, HostIsPeer DEF RecoverExpiredRoom
  <2> QED
    BY <1>16, <2>2, <2>3 DEF RecoverExpiredRoom, live
<1>17. CASE UNCHANGED vars
  BY <1>17 DEF vars
<1> QED
  BY <1>1, <1>2, <1>3, <1>4, <1>5, <1>6, <1>7, <1>8, <1>9, <1>10, <1>11, <1>12, <1>13,
     <1>14, <1>15, <1>16, <1>17 DEF Next

-----------------------------------------------------------------------------
(* The phases of the room: which steps change the status, the play, the     *)
(* plays' rows or whether the process is up.                                *)

Settles == RoomCloses /\ up /\ status \in Open /\ UNCHANGED up

Opens == /\ up /\ status = "recruiting" /\ HostPeer \in Connected(members)
         /\ \E n \in PlayIds, started \in BOOLEAN : NextPlay(n) /\ PlayOpens(n, started)
         /\ UNCHANGED <<scores, alarm, sockets, up>>

Ends == up /\ status = "playing" /\ PlayEnds /\ UNCHANGED <<rows, alarm, sockets, up>>

KeepsPhase == UNCHANGED <<status, playId, plays, up>> /\ room'.status = room.status

(* The only ways in which status, play, history or process can change. *)
LEMMA PhaseSteps ==
  ASSUME TypeOK, [Next]_vars
  PROVE  KeepsPhase \/ Initialize \/ Settles \/ Opens \/ Ends \/ Crash \/ RecoverExpiredRoom
<1>1. CASE ForceClose
  BY <1>1 DEF ForceClose, CloseRoom, RoomStaysOpen, Settles, KeepsPhase, durable
<1>2. ASSUME NEW i \in Identities, Reserve(i) \/ Rereserve(i)
      PROVE  KeepsPhase
  BY <1>2 DEF Reserve, Rereserve, ReserveSeat, ReserveFails, KeepsPhase, durable, TypeOK
<1>3. ASSUME NEW i \in Identities, BanPlayer(i)
      PROVE  KeepsPhase \/ Settles
  BY <1>3 DEF BanPlayer, CloseRoom, RoomStaysOpen, RemoveBanned, BanFails, Settles,
              KeepsPhase, durable, TypeOK
<1>4. ASSUME NEW p \in Peers, AgeReservation(p) \/ Ready(p) \/ Unready(p) \/ RecordScore(p)
      PROVE  KeepsPhase
  BY <1>4 DEF AgeReservation, Ready, Unready, RecordScore, KeepsPhase, durable
<1>5. ASSUME NEW p \in Peers, NEW c \in Copies, Upgrade(p, c)
      PROVE  KeepsPhase
  BY <1>5 DEF Upgrade, KeepsPhase, live, durable
<1>6. ASSUME NEW s \in sockets, CompletePlayerConnection(s)
      PROVE  KeepsPhase
  BY <1>6 DEF CompletePlayerConnection, Join, JoinFails, KeepsPhase
<1>7. ASSUME NEW s \in sockets, NEW socks, RemoveSocket(s, socks), up, UNCHANGED up
      PROVE  KeepsPhase \/ Settles
  <2>1. CASE UNCHANGED <<live, durable, alarm, faults>>
    BY <1>7, <2>1 DEF live, durable, KeepsPhase
  <2>2. CASE HoldsSeat(s) /\ CloseRoom(MarkDisconnected(s.peer), socks)
    BY <1>7, <2>2 DEF HoldsSeat, CloseRoom, RoomStaysOpen, Settles, KeepsPhase, durable
  <2>3. CASE LeavePlay(s.peer) \/ LeaveLobby(s.peer)
    BY <1>7, <2>3 DEF LeavePlay, LeaveLobby, KeepsPhase, TypeOK
  <2> QED
    BY <1>7, <2>1, <2>2, <2>3 DEF RemoveSocket
<1>8. ASSUME NEW s \in sockets, OnClose(s) \/ OnError(s)
      PROVE  KeepsPhase \/ Settles
  BY <1>7, <1>8 DEF OnClose, OnError
<1>9. CASE StartPlay \/ RecordPlayStarted
  <2>1. up /\ status = "recruiting" /\ HostPeer \in Connected(members)
    BY <1>9 DEF StartPlay, RecordPlayStarted, Speaks
  <2>2. PICK n \in PlayIds, started \in BOOLEAN :
            /\ NextPlay(n) /\ (PlayOpens(n, started) \/ PlayRolledBack)
            /\ UNCHANGED <<scores, alarm, sockets, up>>
    BY <1>9 DEF StartPlay, RecordPlayStarted, BeginPlay
  <2> QED
    BY <2>1, <2>2 DEF Opens, PlayRolledBack, KeepsPhase, durable
<1>10. CASE StartTimeComes
  BY <1>10 DEF StartTimeComes, KeepsPhase, durable
<1>11. CASE EndPlay
  BY <1>11 DEF EndPlay, Speaks, Ends, KeepsPhase, live
<1>12. CASE Alarm
  BY <1>12 DEF Alarm, Sweep, CloseRoom, RoomStaysOpen, Settles, KeepsPhase, durable, TypeOK
<1>13. CASE UNCHANGED vars
  BY <1>13 DEF vars, KeepsPhase
<1> QED
  BY <1>1, <1>2, <1>3, <1>4, <1>5, <1>6, <1>8, <1>9, <1>10, <1>11, <1>12, <1>13 DEF Next

(* The live and the durable status, and the play id, move together. *)
LEMMA StatusStep ==
  ASSUME TypeOK, PlayIdSet, DownLeavesOpen, StatusAgreement, [Next]_vars
  PROVE  PlayIdSet' /\ DownLeavesOpen' /\ StatusAgreement'
<1> USE DEF PlayIdSet, DownLeavesOpen, StatusAgreement, TypeOK, Open
<1>1. CASE KeepsPhase
  BY <1>1 DEF KeepsPhase
<1>2. CASE Initialize
  BY <1>2 DEF Initialize
<1>3. CASE Settles
  BY <1>3 DEF Settles, RoomCloses
<1>4. CASE Opens
  BY <1>4 DEF Opens, PlayOpens, PlayIds, NoPlay
<1>5. CASE Ends
  BY <1>5 DEF Ends, PlayEnds
<1>6. CASE Crash
  BY <1>6 DEF Crash, durable
<1>7. CASE RecoverExpiredRoom
  BY <1>7 DEF RecoverExpiredRoom, live
<1> QED
  BY PhaseSteps, <1>1, <1>2, <1>3, <1>4, <1>5, <1>6, <1>7

(* A play is open exactly while it is being played. *)
LEMMA OpenPlayStep ==
  ASSUME TypeOK, PlayIdSet, DownLeavesOpen, OpenPlayIsCurrent, [Next]_vars
  PROVE  OpenPlayIsCurrent'
<1> USE DEF PlayIdSet, DownLeavesOpen, OpenPlayIsCurrent, TypeOK, Open
<1>1. CASE KeepsPhase
  BY <1>1 DEF KeepsPhase
<1>2. CASE Initialize
  BY <1>2 DEF Initialize
<1>3. CASE Settles
  BY <1>3 DEF Settles, RoomCloses, PlaysSettled, NoPlayRow, Play, NoPlay, PlayIds
<1>4. CASE Opens
  BY <1>4 DEF Opens, PlayOpens, NoPlayRow
<1>5. CASE Ends
  <2>1. playId \in PlayIds
    BY <1>5 DEF Ends
  <2>2. status' = "recruiting" /\ up'
    BY <1>5 DEF Ends, PlayEnds
  <2> QED
    BY <1>5, <2>1, <2>2, FinishedRow DEF Ends
<1>6. CASE Crash
  BY <1>6 DEF Crash
<1>7. CASE RecoverExpiredRoom
  BY <1>7 DEF RecoverExpiredRoom, live, Play
<1> QED
  BY PhaseSteps, <1>1, <1>2, <1>3, <1>4, <1>5, <1>6, <1>7

-----------------------------------------------------------------------------
(* Who sits where: a step seats a newcomer, connects a seat with its socket, *)
(* or only frees and disconnects seats; it frees the host's only with the    *)
(* room.                                                                     *)

SameSeat(old, new) ==
    /\ new.identity = old.identity
    /\ new.connected => old.connected /\ new.ticket = old.ticket

Joins(s) ==
    /\ CompletePlayerConnection(s)
    /\ ReservationStands(s.peer, s.identity, s.ticket)
    /\ Join(s.peer)

RosterKept ==
    \A p \in Peers : \/ /\ members'[p] = NoSeat
                        /\ p = HostPeer /\ members[p] # NoSeat => status' \notin Open
                     \/ /\ members[p] # NoSeat /\ members'[p] # NoSeat
                        /\ SameSeat(members[p], members'[p])

(* markDisconnected changes no seat but p, and p keeps its player. *)
LEMMA MarkDisconnectedKeeps ==
  ASSUME TypeOK, NEW p \in Taken(members)
  PROVE  \A q \in Peers : \/ members[q] = NoSeat /\ MarkDisconnected(p)[q] = NoSeat
                          \/ /\ members[q] # NoSeat /\ MarkDisconnected(p)[q] # NoSeat
                             /\ SameSeat(members[q], MarkDisconnected(p)[q])
                             /\ q = p => ~MarkDisconnected(p)[q].connected
<1>1. members[p] \in Seat
  BY DEF TypeOK, Taken
<1>2. [members[p] EXCEPT !.connected = FALSE, !.reserved = "dropped"] \in Seat
  BY <1>1 DEF Seat
<1>3. SameSeat(members[p], [members[p] EXCEPT !.connected = FALSE, !.reserved = "dropped"])
  BY <1>1 DEF Seat, SameSeat
<1> QED
  BY <1>1, <1>2, <1>3, ConstantsAssumption DEF MarkDisconnected, TypeOK, Taken, Seat, SameSeat

(* closeRoom empties the roster with the room or keeps it. *)
LEMMA CloseRoomRoster ==
  ASSUME TypeOK, NEW mem, NEW socks, CloseRoom(mem, socks),
         mem = members \/ \E p \in Taken(members) : mem = MarkDisconnected(p)
  PROVE  RosterKept
<1>1. CASE RoomCloses
  BY <1>1 DEF RoomCloses, NoSeats, RosterKept, Open
<1>2. CASE members' = members
  BY <1>2 DEF RosterKept, SameSeat
<1>3. ASSUME NEW p \in Taken(members), members' = MarkDisconnected(p)
      PROVE  RosterKept
  BY <1>3, MarkDisconnectedKeeps DEF RosterKept
<1> QED
  BY <1>1, <1>2, <1>3 DEF CloseRoom, RoomStaysOpen

(* Rewriting a row's flags keeps the roster. *)
LEMMA FlagsOnly ==
  ASSUME TypeOK, NEW p \in Taken(members), NEW row \in Seat,
         SameSeat(members[p], row), members' = [members EXCEPT ![p] = row]
  PROVE  RosterKept
  BY ConstantsAssumption DEF TypeOK, Taken, RosterKept, SameSeat

(* Only reserve seats a newcomer and only a join connects a seat. *)
LEMMA RosterSteps ==
  ASSUME TypeOK, [Next]_vars
  PROVE  \/ RosterKept
         \/ \E i \in Identities : Reserve(i)
         \/ \E s \in sockets : Joins(s)
<1> USE DEF TypeOK, SameSeat
<1>1. CASE Initialize
  BY <1>1 DEF Initialize, RosterKept
<1>2. CASE ForceClose
  BY <1>2, CloseRoomRoster DEF ForceClose
<1>4. ASSUME NEW i \in Identities, Rereserve(i)
      PROVE  RosterKept
  <2> PICK p \in SeatsOf(i), t \in Tickets :
        /\ p \notin Connected(members)
        /\ members' = [members EXCEPT ![p] = [@ EXCEPT !.ticket = t, !.reserved = "fresh"]]
    BY <1>4 DEF Rereserve
  <2>1. p \in Taken(members) /\ members[p] \in Seat
    BY DEF SeatsOf, Taken
  <2>2. [members[p] EXCEPT !.ticket = t, !.reserved = "fresh"] \in Seat
    BY <2>1 DEF Seat
  <2>3. ~members[p].connected
    BY <2>1 DEF Connected
  <2>4. SameSeat(members[p], [members[p] EXCEPT !.ticket = t, !.reserved = "fresh"])
    BY <2>1, <2>3 DEF Seat
  <2> QED
    BY <2>1, <2>2, <2>4, FlagsOnly
<1>5. ASSUME NEW i \in Identities, BanPlayer(i)
      PROVE  RosterKept
  BY <1>5, CloseRoomRoster DEF BanPlayer, RemoveBanned, BanFails, Without, RosterKept
<1>6. ASSUME NEW p \in Peers, AgeReservation(p) \/ Ready(p) \/ Unready(p)
      PROVE  RosterKept
  <2>1. p \in Taken(members) /\ members[p] \in Seat
    BY <1>6 DEF AgeReservation, Ready, Unready, Speaks, Connected, Taken
  <2>2. /\ [members[p] EXCEPT !.reserved = "aged"] \in Seat
        /\ [members[p] EXCEPT !.ready = TRUE] \in Seat
        /\ [members[p] EXCEPT !.ready = FALSE] \in Seat
    BY <2>1 DEF Seat
  <2>3. /\ SameSeat(members[p], [members[p] EXCEPT !.reserved = "aged"])
        /\ SameSeat(members[p], [members[p] EXCEPT !.ready = TRUE])
        /\ SameSeat(members[p], [members[p] EXCEPT !.ready = FALSE])
    BY <2>1 DEF Seat
  <2> QED
    BY <1>6, <2>1, <2>2, <2>3, FlagsOnly DEF AgeReservation, Ready, Unready
<1>7. ASSUME NEW p \in Peers, RecordScore(p)
      PROVE  RosterKept
  BY <1>7 DEF RecordScore, RosterKept
<1>8. ASSUME NEW p \in Peers, NEW c \in Copies, Upgrade(p, c)
      PROVE  RosterKept
  BY <1>8 DEF Upgrade, live, RosterKept
<1>9. ASSUME NEW s \in sockets, CompletePlayerConnection(s)
      PROVE  RosterKept \/ Joins(s)
  <2>1. CASE members' = members
    BY <2>1 DEF RosterKept
  <2>2. CASE ReservationStands(s.peer, s.identity, s.ticket) /\ Join(s.peer)
    BY <1>9, <2>2 DEF Joins
  <2>3. CASE ReservationStands(s.peer, s.identity, s.ticket) /\ JoinFails(s.peer)
    BY <2>3, MarkDisconnectedKeeps DEF JoinFails, ReservationStands, RosterKept, Taken, Socket
  <2> QED
    BY <1>9, <2>1, <2>2, <2>3 DEF CompletePlayerConnection
<1>10. ASSUME NEW s \in sockets, NEW socks, RemoveSocket(s, socks)
       PROVE  RosterKept
  <2>1. HoldsSeat(s) => s.peer \in Taken(members)
    BY DEF HoldsSeat, Taken, Socket
  <2>2. CASE ~HoldsSeat(s) /\ UNCHANGED members
    BY <2>2 DEF RosterKept
  <2>3. CASE HoldsSeat(s) /\ CloseRoom(MarkDisconnected(s.peer), socks)
    BY <2>1, <2>3, CloseRoomRoster
  <2>4. CASE s.peer # HostPeer /\ HoldsSeat(s) /\ (LeavePlay(s.peer) \/ LeaveLobby(s.peer))
    BY <2>1, <2>4, MarkDisconnectedKeeps DEF LeavePlay, LeaveLobby, Without, RosterKept
  <2> QED
    BY <1>10, <2>2, <2>3, <2>4 DEF RemoveSocket, live
<1>11. CASE StartPlay \/ RecordPlayStarted
  BY <1>11 DEF StartPlay, RecordPlayStarted, BeginPlay, PlayOpens, PlayRolledBack, Without,
               Speaks, RosterKept
<1>12. CASE StartTimeComes
  BY <1>12 DEF StartTimeComes, RosterKept
<1>13. CASE EndPlay
  <2>1. ASSUME NEW q \in Peers, members[q] # NoSeat
        PROVE  /\ [members[q] EXCEPT !.ready = FALSE] # NoSeat
               /\ SameSeat(members[q], [members[q] EXCEPT !.ready = FALSE])
    <3>1. members[q] \in Seat
      BY <2>1
    <3> QED
      BY <3>1, FlagTypes, ConstantsAssumption
  <2>2. members' = members \/ members' = ReadyCleared
    BY <1>13 DEF EndPlay, PlayEnds, live
  <2> QED
    BY <2>1, <2>2 DEF ReadyCleared, RosterKept
<1>14. CASE Alarm
  <2>1. CASE HostPeer \in Connected(members) /\ Sweep
    <3>1. PICK cut : members' = Without(members, Swept(cut), NoSeat)
      BY <2>1 DEF Sweep
    <3>2. HostPeer \notin Swept(cut)
      BY <2>1 DEF Swept, Stale
    <3> QED
      BY <3>1, <3>2 DEF Without, RosterKept
  <2> QED
    BY <1>14, <2>1, CloseRoomRoster DEF Alarm
<1>15. CASE Crash
  BY <1>15 DEF Crash, NoSeats, RosterKept, Open
<1>16. CASE RecoverExpiredRoom \/ UNCHANGED vars
  BY <1>16 DEF RecoverExpiredRoom, live, vars, RosterKept
<1> QED
  BY <1>1, <1>2, <1>4, <1>5, <1>6, <1>7, <1>8, <1>9, <1>10, <1>11, <1>12, <1>13,
     <1>14, <1>15, <1>16 DEF Next, OnClose, OnError

(* A socket that joins connects its own player's seat. *)
LEMMA JoinKeepsIdentity ==
  ASSUME TypeOK, NEW s \in sockets, Joins(s), NEW p \in Peers, members[p] # NoSeat
  PROVE  members'[p] # NoSeat /\ members'[p].identity = members[p].identity
<1>1. s.peer \in Peers /\ members[s.peer] \in Seat
  BY DEF Joins, ReservationStands, TypeOK, Socket
<1>2. [members[s.peer] EXCEPT !.connected = TRUE, !.reserved = "fresh"] \in Seat
  BY <1>1 DEF Seat
<1> QED
  BY <1>1, <1>2, ConstantsAssumption DEF Joins, Join, TypeOK, Seat

(* Who takes the host's seat keeps it while the room is open. *)
LEMMA HostSeatStep ==
  ASSUME TypeOK, [Next]_vars, status \in Open, status' \in Open, HostOf(members) # Nobody
  PROVE  HostOf(members') = HostOf(members)
<1>1. HostPeer \in Peers /\ members[HostPeer] # NoSeat
  BY HostIsPeer DEF HostOf
<1>2. CASE RosterKept
  BY <1>1, <1>2 DEF RosterKept, SameSeat, HostOf
<1>3. ASSUME NEW i \in Identities, Reserve(i)
      PROVE  members'[HostPeer] = members[HostPeer]
  <2> PICK p \in Peers, t \in Tickets :
        LowestFree(p) /\ (ReserveSeat(i, p, t) \/ ReserveFails)
    BY <1>3 DEF Reserve
  <2>1. p # HostPeer
    BY <1>1 DEF LowestFree, Taken
  <2> QED
    BY <1>1, <2>1 DEF ReserveSeat, ReserveFails, TypeOK
<1>4. ASSUME NEW s \in sockets, Joins(s)
      PROVE  HostOf(members') = HostOf(members)
  BY <1>1, <1>4, JoinKeepsIdentity DEF HostOf
<1> QED
  BY <1>2, <1>3, <1>4, RosterSteps DEF HostOf

(* Nobody joins a play under way. *)
LEMMA CastStep ==
  ASSUME TypeOK, DownLeavesOpen, SeatsAreCast, [Next]_vars
  PROVE  SeatsAreCast'
<1> USE DEF SeatsAreCast, Taken
<1>1. CASE KeepsPhase
  <2>1. CASE RosterKept
    BY <1>1, <2>1 DEF KeepsPhase, RosterKept, SameSeat
  <2>2. ASSUME NEW i \in Identities, Reserve(i)
        PROVE  status # "playing"
    BY <2>2 DEF Reserve
  <2>3. ASSUME NEW s \in sockets, Joins(s)
        PROVE  status # "playing"
    BY <2>3 DEF Joins, ReservationStands
  <2> QED
    BY <1>1, <2>1, <2>2, <2>3, RosterSteps DEF KeepsPhase
<1>2. CASE Opens
  <2> PICK n \in PlayIds, started \in BOOLEAN : PlayOpens(n, started)
    BY <1>2 DEF Opens
  <2>1. plays'[n].cast = CastOf(Connected(members))
    BY DEF PlayOpens, NoPlayRow, TypeOK
  <2> QED
    BY <2>1 DEF PlayOpens, CastOf, Without
<1>3. status' = "playing" => KeepsPhase \/ Opens
  BY PhaseSteps DEF Initialize, Settles, RoomCloses, Ends, PlayEnds, Crash, RecoverExpiredRoom,
                    DownLeavesOpen, live
<1> QED
  BY <1>1, <1>2, <1>3

-----------------------------------------------------------------------------
(* Scores. *)

(* How a step treats the live scores. *)
ScoresReset == scores' = NoScores
ScoresDropped == \E S \in SUBSET Peers : status = "playing" /\ scores' = MarkScoreDropped(S)

(* The only ways in which the live scores can change. *)
LEMMA ScoreSteps ==
  ASSUME TypeOK, [Next]_vars
  PROVE  \/ UNCHANGED scores
         \/ ScoresReset /\ status' # "playing"
         \/ ScoresDropped
         \/ \E p \in Peers : RecordScore(p)
<1>1. ASSUME NEW mem, NEW socks, CloseRoom(mem, socks)
      PROVE  UNCHANGED scores \/ (ScoresReset /\ status' # "playing")
  BY <1>1 DEF CloseRoom, RoomCloses, RoomStaysOpen, ScoresReset
<1>2. ASSUME NEW s \in sockets, NEW socks, RemoveSocket(s, socks)
      PROVE  UNCHANGED scores \/ (ScoresReset /\ status' # "playing") \/ ScoresDropped
  <2>1. s.peer \in Peers
    BY DEF TypeOK, Socket
  <2> QED
    BY <1>1, <1>2, <2>1 DEF RemoveSocket, LeavePlay, LeaveLobby, ScoresDropped, live
<1>3. ASSUME NEW i \in Identities, BanPlayer(i)
      PROVE  UNCHANGED scores \/ (ScoresReset /\ status' # "playing") \/ ScoresDropped
  BY <1>1, <1>3 DEF BanPlayer, RemoveBanned, BanFails, ScoresDropped, SeatsOf, Taken
<1>4. CASE Alarm
  <2>1. ASSUME NEW cut
        PROVE  {p \in Tried(cut) : members[p].reserved = "dropped"} \in SUBSET Peers
    BY DEF Tried, Stale, Taken
  <2> QED
    BY <1>1, <1>4, <2>1 DEF Alarm, Sweep, ScoresDropped
<1>5. CASE StartPlay \/ RecordPlayStarted \/ EndPlay \/ Crash
  BY <1>5 DEF StartPlay, RecordPlayStarted, BeginPlay, EndPlay, PlayEnds, Crash, ScoresReset, live
<1>6. ASSUME NEW i \in Identities, Reserve(i) \/ Rereserve(i)
      PROVE  UNCHANGED scores
  BY <1>6 DEF Reserve, Rereserve
<1>7. ASSUME NEW p \in Peers, AgeReservation(p) \/ Ready(p) \/ Unready(p)
      PROVE  UNCHANGED scores
  BY <1>7 DEF AgeReservation, Ready, Unready
<1> QED
  BY <1>1, <1>2, <1>3, <1>4, <1>5, <1>6, <1>7
     DEF Next, Initialize, ForceClose, Upgrade, CompletePlayerConnection, OnClose, OnError,
         StartTimeComes, RecoverExpiredRoom, live, vars

(* Every step that leaves a play clears its scores. *)
LEMMA ScoresIdleStep ==
  ASSUME TypeOK, ScoresOnlyPlaying, [Next]_vars
  PROVE  ScoresOnlyPlaying'
<1> USE DEF ScoresOnlyPlaying
<1>1. CASE status = "playing" /\ status' # "playing"
  BY <1>1, PhaseSteps DEF KeepsPhase, Initialize, Settles, RoomCloses, Opens, Ends, PlayEnds, Crash,
                          RecoverExpiredRoom, live
<1>2. CASE status # "playing" /\ status' # "playing"
  BY <1>2, ScoreSteps DEF ScoresReset, ScoresDropped, RecordScore
<1> QED
  BY <1>1, <1>2

(* The live scores hold reports of the running play by its cast only. *)
LEMMA ScoresStep ==
  ASSUME TypeOK, DownLeavesOpen, SeatsAreCast, ScoresOnlyPlaying, ScoresOfThisPlay, [Next]_vars
  PROVE  ScoresOfThisPlay'
<1>1. ScoresOnlyPlaying'
  BY ScoresIdleStep
<1>2. CASE status' # "playing"
  BY <1>1, <1>2 DEF ScoresOnlyPlaying, ScoresOfThisPlay, NoScores, NoScore
<1>3. CASE status # "playing" /\ status' = "playing"
  <2>1. scores' = NoScores
    BY <1>3, ScoreSteps DEF ScoresOnlyPlaying, ScoresReset, ScoresDropped, RecordScore
  <2> QED
    BY <2>1 DEF ScoresOfThisPlay, NoScores, NoScore
<1>4. CASE status = "playing" /\ status' = "playing"
  <2>1. UNCHANGED <<playId, plays>>
    BY <1>4, PhaseSteps DEF KeepsPhase, Initialize, Settles, RoomCloses, Opens, Ends, PlayEnds,
                            Crash, RecoverExpiredRoom, DownLeavesOpen, live
  <2>2. CASE \E p \in Peers : RecordScore(p)
    <3> PICK p \in Peers : RecordScore(p)
      BY <2>2
    <3>1. members[p].identity = plays[playId].cast[p]
      BY <1>4 DEF RecordScore, Speaks, Connected, SeatsAreCast
    <3> QED
      BY <1>4, <2>1, <3>1 DEF RecordScore, ScoresOfThisPlay, TypeOK
  <2>3. CASE ScoresDropped
    <3>1. \A p \in Peers : scores'[p].data = scores[p].data
      BY <2>3 DEF ScoresDropped, MarkScoreDropped, TypeOK, Score
    <3> QED
      BY <1>4, <2>1, <3>1 DEF ScoresOfThisPlay
  <2>4. CASE UNCHANGED scores
    BY <1>4, <2>1, <2>4 DEF ScoresOfThisPlay
  <2> QED
    BY <1>4, <2>2, <2>3, <2>4, ScoreSteps
<1> QED
  BY <1>2, <1>3, <1>4

(* The history of a play holds reports of that play by its cast only. *)
LEMMA HistoryStep ==
  ASSUME TypeOK, PlayIdSet, ScoresOfThisPlay, HistoryIsOwn, [Next]_vars
  PROVE  HistoryIsOwn'
<1> USE DEF HistoryIsOwn, TypeOK
<1>1. CASE KeepsPhase \/ Initialize \/ Crash
  BY <1>1 DEF KeepsPhase, Initialize, Crash, durable
<1>2. CASE Settles
  BY <1>2 DEF Settles, RoomCloses, PlaysSettled, NoPlayRow, Play
<1>3. CASE Opens
  BY <1>3 DEF Opens, PlayOpens, NoPlayRow
<1>4. CASE Ends
  <2>1. \A p \in Peers : Results(playId)[p] \subseteq {<<playId, plays[playId].cast[p]>>}
    BY <1>4 DEF Ends, Results, ScoresOfThisPlay
  <2>2. playId \in PlayIds /\ plays[playId] \in Play
    BY <1>4 DEF Ends, PlayIdSet
  <2>3. \A n \in PlayIds : n # playId => plays'[n] = plays[n]
    BY <1>4, <2>2, FinishedRow DEF Ends
  <2>4. \A p \in Peers : plays'[playId].result[p] \subseteq {<<playId, plays'[playId].cast[p]>>}
    BY <1>4, <2>1, <2>2, FinishedRow DEF Ends
  <2> QED
    BY <2>3, <2>4
<1>5. CASE RecoverExpiredRoom
  BY <1>5 DEF RecoverExpiredRoom, Play
<1> QED
  BY PhaseSteps, <1>1, <1>2, <1>3, <1>4, <1>5

-----------------------------------------------------------------------------
(* Seats and sockets. *)

(* A room that closes, or dies, takes its seats with it. *)
LEMMA SeatsOnlyOpenStep ==
  ASSUME TypeOK, PlayIdSet, SeatsOnlyOpen, [Next]_vars
  PROVE  SeatsOnlyOpen'
<1> SUFFICES ASSUME status' \notin Open
             PROVE  members' = NoSeats
  BY DEF SeatsOnlyOpen
<1>1. CASE Settles \/ Crash
  BY <1>1 DEF Settles, RoomCloses, Crash
<1>2. CASE status \notin Open
  <2>1. RosterKept
    BY <1>2, RosterSteps DEF Reserve, Joins, ReservationStands, Open
  <2>2. members' \in [Peers -> Seat \cup {NoSeat}]
    BY TypeStep DEF TypeOK
  <2>3. \A p \in Peers : members'[p] = NoSeat
    BY <1>2, <2>1 DEF SeatsOnlyOpen, RosterKept, NoSeats
  <2> QED
    BY <2>2, <2>3 DEF NoSeats
<1> QED
  BY <1>1, <1>2, PhaseSteps DEF KeepsPhase, Initialize, Opens, PlayOpens, Ends, PlayEnds,
                                RecoverExpiredRoom, live, Open

(* Nobody is left in, or comes into, a room without someone in seat 1. *)
LEMMA HostSeatedStep ==
  ASSUME TypeOK, SeatsOnlyOpen, HostSeated, [Next]_vars
  PROVE  HostSeated'
<1> USE DEF HostSeated, Taken
<1>1. HostPeer \in Peers
  BY HostIsPeer
<1>2. CASE RosterKept
  BY <1>1, <1>2 DEF RosterKept, SeatsOnlyOpen, NoSeats
<1>3. ASSUME NEW i \in Identities, Reserve(i)
      PROVE  HostSeated'
  <2> PICK p \in Peers, t \in Tickets :
        LowestFree(p) /\ (ReserveSeat(i, p, t) \/ ReserveFails)
    BY <1>3 DEF Reserve
  <2>1. status \in Open /\ status' = status
    BY <1>3 DEF Reserve, Open
  <2>2. CASE ReserveSeat(i, p, t)
    <3> DEFINE new == [identity |-> i, ticket |-> t, connected |-> FALSE, ready |-> FALSE,
                       reserved |-> "fresh"]
    <3>1. members'[p] # NoSeat
      <4>1. members'[p] = new
        BY <2>2 DEF ReserveSeat, TypeOK
      <4>2. new \in Seat
        BY DEF Seat
      <4> QED
        BY <4>1, <4>2, ConstantsAssumption
    <3> HIDE DEF new
    <3>2. \A q \in Peers : q # p => members'[q] = members[q]
      BY <2>2 DEF ReserveSeat, TypeOK
    <3>3. p = HostPeer \/ members[HostPeer] # NoSeat
      BY ConstantsAssumption DEF LowestFree, HostPeer, Peers
    <3> QED
      BY <1>1, <3>1, <3>2, <3>3
  <2>3. CASE ReserveFails
    BY <2>1, <2>3 DEF ReserveFails
  <2> QED
    BY <2>2, <2>3
<1>4. ASSUME NEW s \in sockets, Joins(s)
      PROVE  HostSeated'
  <2>1. status \in Open /\ members[s.peer] # NoSeat /\ s.peer \in Peers
    BY <1>4 DEF Joins, ReservationStands, Open, TypeOK, Socket
  <2>2. members[HostPeer] # NoSeat
    BY <2>1
  <2> QED
    BY <1>1, <1>4, <2>2, JoinKeepsIdentity
<1> QED
  BY <1>2, <1>3, <1>4, RosterSteps

(* So removeSocket's close of an empty room never runs for a guest.         *)
LEMMA GuestLeavesCompany ==
  ASSUME HostSeated, NEW s \in sockets, HoldsSeat(s), s.peer \in Peers, s.peer # HostPeer
  PROVE  Taken(members) \ {s.peer} # {}
BY HostIsPeer DEF HostSeated, HoldsSeat, Taken

(* The alarm of an open room stays armed. *)
LEMMA WatchStep ==
  ASSUME TypeOK, OpenRoomIsWatched, DownLeavesOpen, [Next]_vars
  PROVE  OpenRoomIsWatched'
<1> USE DEF OpenRoomIsWatched, DownLeavesOpen, Open
<1>1. ASSUME NEW mem, NEW socks, CloseRoom(mem, socks)
      PROVE  status' \notin Open \/ alarm'
  BY <1>1 DEF CloseRoom, RoomCloses, RoomStaysOpen
<1>2. ASSUME NEW s \in sockets, NEW socks, RemoveSocket(s, socks)
      PROVE  status' \notin Open \/ alarm' \/ UNCHANGED <<status, alarm>>
  BY <1>1, <1>2 DEF RemoveSocket, LeavePlay, LeaveLobby, live
<1>3. ASSUME NEW s \in sockets, CompletePlayerConnection(s)
      PROVE  alarm' \/ UNCHANGED <<status, alarm>>
  BY <1>3 DEF CompletePlayerConnection, Join, JoinFails
<1>4. ASSUME NEW i \in Identities, Reserve(i) \/ Rereserve(i)
      PROVE  alarm' \/ UNCHANGED <<status, alarm>>
  BY <1>4 DEF Reserve, Rereserve, ReserveSeat, ReserveFails
<1>5. ASSUME NEW i \in Identities, BanPlayer(i)
      PROVE  status' \notin Open \/ alarm' \/ UNCHANGED <<status, alarm>>
  BY <1>1, <1>5 DEF BanPlayer
<1>6. CASE StartPlay \/ RecordPlayStarted
  BY <1>6 DEF StartPlay, RecordPlayStarted, Speaks, BeginPlay
<1>7. CASE EndPlay
  BY <1>7 DEF EndPlay, Speaks
<1>8. CASE Alarm \/ ForceClose
  BY <1>1, <1>8 DEF Alarm, ForceClose, Sweep
<1>9. ASSUME NEW p \in Peers, AgeReservation(p) \/ Ready(p) \/ Unready(p) \/ RecordScore(p)
      PROVE  UNCHANGED <<status, alarm>>
  BY <1>9 DEF AgeReservation, Ready, Unready, RecordScore
<1>10. CASE Initialize
  BY <1>10 DEF Initialize
<1>11. CASE StartTimeComes
  BY <1>11 DEF StartTimeComes
<1>12. CASE Crash \/ RecoverExpiredRoom
  BY <1>12 DEF Crash, RecoverExpiredRoom, live
<1>13. up' = up \/ Crash \/ RecoverExpiredRoom
  BY PhaseSteps DEF KeepsPhase, Initialize, Settles, Opens, Ends
<1> QED
  BY <1>2, <1>3, <1>4, <1>5, <1>6, <1>7, <1>8, <1>9, <1>10, <1>11, <1>12, <1>13
     DEF Next, Upgrade, OnClose, OnError, live, vars

(* A registered socket leaves the room only with the seat it holds. *)
SocketKept(o) ==
    \/ o \in sockets'
    \/ status' \notin Open
    \/ ~HoldsSeat(o)
    \/ members'[o.peer] = NoSeat
    \/ ~members'[o.peer].connected

(* A registered socket goes only with its own event, the room or the process. *)
LEMMA SocketSteps ==
  ASSUME TypeOK, [Next]_vars, NEW o \in sockets, o.phase = "registered"
  PROVE  SocketKept(o)
<1> USE DEF SocketKept
<1>1. o \in Socket /\ o.peer \in Peers
  BY DEF TypeOK, Socket
<1>2. CASE RoomCloses \/ Crash
  BY <1>2 DEF RoomCloses, Crash, Open
<1>3. ASSUME NEW s \in sockets, NEW socks, s # o => o \in socks, RemoveSocket(s, socks)
      PROVE  SocketKept(o)
  <2>1. CASE o \in socks
    BY <1>2, <1>3, <2>1 DEF RemoveSocket, CloseRoom, RoomStaysOpen
  <2>2. CASE s = o /\ HoldsSeat(o)
    <3>1. o.peer \in Taken(members)
      BY <1>1, <2>2 DEF HoldsSeat, Taken
    <3>2. CASE CloseRoom(MarkDisconnected(o.peer), socks)
      BY <1>2, <3>1, <3>2, MarkDisconnectedKeeps DEF CloseRoom, RoomStaysOpen, Taken
    <3>3. CASE LeavePlay(o.peer) \/ LeaveLobby(o.peer)
      BY <3>1, <3>3, MarkDisconnectedKeeps DEF LeavePlay, LeaveLobby, Without, Taken
    <3> QED
      BY <1>3, <2>2, <3>2, <3>3 DEF RemoveSocket
  <2> QED
    BY <1>3, <2>1, <2>2
<1>4. ASSUME NEW s \in sockets, CompletePlayerConnection(s)
      PROVE  o \in sockets'
  BY <1>4 DEF CompletePlayerConnection, Rephased
<1>5. ASSUME NEW s \in sockets, OnClose(s) \/ OnError(s)
      PROVE  SocketKept(o)
  <2>1. s # o => o \in sockets \ {s} /\ o \in Rephased(s, "errored")
    BY DEF Rephased
  <2> QED
    BY <1>3, <1>5, <2>1 DEF OnClose, OnError
<1>6. CASE Alarm \/ ForceClose
  BY <1>2, <1>6 DEF Alarm, ForceClose, CloseRoom, RoomStaysOpen
<1>7. ASSUME NEW i \in Identities, BanPlayer(i)
      PROVE  SocketKept(o)
  BY <1>2, <1>7 DEF BanPlayer, CloseRoom, RoomStaysOpen
<1>8. ASSUME NEW i \in Identities, Reserve(i) \/ Rereserve(i)
      PROVE  UNCHANGED sockets
  BY <1>8 DEF Reserve, Rereserve
<1>9. ASSUME NEW p \in Peers, AgeReservation(p) \/ Ready(p) \/ Unready(p) \/ RecordScore(p)
      PROVE  UNCHANGED sockets
  BY <1>9 DEF AgeReservation, Ready, Unready, RecordScore
<1> QED
  BY <1>2, <1>4, <1>5, <1>6, <1>7, <1>8, <1>9
     DEF Next, Initialize, Upgrade, StartPlay, RecordPlayStarted, BeginPlay, StartTimeComes, EndPlay,
         RecoverExpiredRoom, vars

(* A connected seat keeps the socket that joined it. *)
LEMMA SocketStep ==
  ASSUME TypeOK, PlayIdSet, SeatsOnlyOpen, ConnectedSeatHasSocket, [Next]_vars
  PROVE  ConnectedSeatHasSocket'
<1> USE DEF ConnectedSeatHasSocket, Connected, Taken
<1> SUFFICES ASSUME NEW p \in Peers, members'[p] # NoSeat, members'[p].connected
             PROVE  \E s \in sockets' : /\ s.phase = "registered" /\ s.peer = p
                                        /\ s.identity = members'[p].identity
                                        /\ s.ticket = members'[p].ticket
  OBVIOUS
<1>0. status' \in Open
  BY SeatsOnlyOpenStep DEF SeatsOnlyOpen, NoSeats
<1>1. ASSUME members[p] # NoSeat, SameSeat(members[p], members'[p])
      PROVE  \E s \in sockets' : /\ s.phase = "registered" /\ s.peer = p
                                 /\ s.identity = members'[p].identity
                                 /\ s.ticket = members'[p].ticket
  <2> PICK s \in sockets : /\ s.phase = "registered" /\ s.peer = p
                           /\ s.identity = members[p].identity /\ s.ticket = members[p].ticket
    BY <1>1 DEF SameSeat
  <2>1. HoldsSeat(s)
    BY <1>1 DEF HoldsSeat, SeatsOnlyOpen, NoSeats
  <2> QED
    BY <1>0, <1>1, <2>1, SocketSteps DEF SocketKept, SameSeat
<1>2. CASE RosterKept
  BY <1>1, <1>2 DEF RosterKept
<1>3. ASSUME NEW i \in Identities, Reserve(i)
      PROVE  members[p] # NoSeat /\ SameSeat(members[p], members'[p])
  <2> PICK q \in Peers, t \in Tickets :
        LowestFree(q) /\ (ReserveSeat(i, q, t) \/ ReserveFails)
    BY <1>3 DEF Reserve
  <2> QED
    BY DEF ReserveSeat, ReserveFails, TypeOK, SameSeat
<1>4. ASSUME NEW s \in sockets, Joins(s)
      PROVE  \E r \in sockets' : /\ r.phase = "registered" /\ r.peer = p
                                 /\ r.identity = members'[p].identity
                                 /\ r.ticket = members'[p].ticket
  <2>1. s \in Socket /\ s.peer \in Peers /\ members[s.peer] \in Seat
    BY <1>4 DEF TypeOK, Socket, Joins, ReservationStands
  <2>2. CASE p # s.peer
    <3>1. members'[p] = members[p]
      BY <1>4, <2>1, <2>2 DEF Joins, Join, TypeOK
    <3> QED
      BY <1>1, <3>1 DEF SameSeat
  <2>3. CASE p = s.peer
    <3>1. /\ members'[p].identity = s.identity /\ members'[p].ticket = s.ticket
      BY <1>4, <2>1, <2>3 DEF Joins, Join, ReservationStands, TypeOK, Seat
    <3>2. [s EXCEPT !.phase = "registered"] \in sockets'
      BY <1>4 DEF Joins, CompletePlayerConnection, Rephased
    <3> QED
      BY <2>1, <2>3, <3>1, <3>2 DEF Socket
  <2> QED
    BY <2>2, <2>3
<1> QED
  BY <1>1, <1>2, <1>3, <1>4, RosterSteps

-----------------------------------------------------------------------------
(* Seats and their durable rows. *)

(* A row that a remaining seat may rely on. *)
RowKept(p) ==
    \/ rows'[p] = rows[p]
    \/ /\ rows[p] # NoRow => rows'[p] # NoRow /\ rows'[p].identity = rows[p].identity
       /\ rows[p] # NoRow /\ rows[p].connected => rows'[p].connected

(* markConnected keeps every durable row and its player. *)
LEMMA RowConnectedKeeps ==
  ASSUME TypeOK, NEW q \in Peers, rows' = RowConnected(q), NEW p \in Peers
  PROVE  RowKept(p)
<1>1. rows[p] # NoRow => /\ [rows[p] EXCEPT !.connected = TRUE] # NoRow
                         /\ [rows[p] EXCEPT !.connected = TRUE].identity = rows[p].identity
                         /\ [rows[p] EXCEPT !.connected = TRUE].connected
  BY ConstantsAssumption DEF TypeOK, Row
<1> QED
  BY <1>1 DEF RowConnected, RowKept, TypeOK

(* A step takes a row away, or rewrites it, only with the seat it backs. *)
LEMMA RowSteps ==
  ASSUME TypeOK, SeatBacked, DownLeavesOpen, [Next]_vars, status' \in Open,
         NEW p \in Peers, members'[p] # NoSeat,
         RosterKept
  PROVE  RowKept(p)
<1> USE DEF RowKept
<1>1. ASSUME NEW mem, NEW socks, CloseRoom(mem, socks)
      PROVE  UNCHANGED rows
  BY <1>1 DEF CloseRoom, RoomCloses, RoomStaysOpen, durable, Open
<1>2. ASSUME NEW s \in sockets, NEW socks, RemoveSocket(s, socks)
      PROVE  rows'[p] = rows[p]
  BY <1>1, <1>2 DEF RemoveSocket, LeavePlay, LeaveLobby, Without, live, durable
<1>3. ASSUME NEW s \in sockets, CompletePlayerConnection(s)
      PROVE  RowKept(p)
  <2>1. s.peer \in Peers
    BY DEF TypeOK, Socket
  <2> QED
    BY <1>3, <2>1, RowConnectedKeeps DEF CompletePlayerConnection, Join, JoinFails
<1>4. ASSUME NEW i \in Identities, BanPlayer(i)
      PROVE  rows'[p] = rows[p]
  BY <1>1, <1>4 DEF BanPlayer, RemoveBanned, BanFails, Without, TypeOK
<1>5. CASE StartPlay \/ RecordPlayStarted
  <2>1. CASE UNCHANGED rows
    BY <2>1
  <2>2. CASE Opens
    <3>1. p \in Connected(members)
      BY <2>2 DEF Opens, PlayOpens, Without
    <3>2. rows[p] # NoRow /\ rows[p].connected
      BY <2>2, <3>1 DEF Opens, SeatBacked, Connected, Open
    <3> QED
      BY <2>2, <3>2 DEF Opens, PlayOpens
  <2>3. up /\ status = "recruiting" /\ HostPeer \in Connected(members)
    BY <1>5 DEF StartPlay, RecordPlayStarted, Speaks
  <2>4. PICK n \in PlayIds, started \in BOOLEAN :
            /\ NextPlay(n) /\ (PlayOpens(n, started) \/ PlayRolledBack)
            /\ UNCHANGED <<scores, alarm, sockets, up>>
    BY <1>5 DEF StartPlay, RecordPlayStarted, BeginPlay
  <2> QED
    BY <2>1, <2>2, <2>3, <2>4 DEF Opens, PlayRolledBack, durable
<1>6. CASE Alarm \/ ForceClose
  BY <1>1, <1>6 DEF Alarm, ForceClose, Sweep, Without
<1>7. ASSUME NEW i \in Identities, Reserve(i) \/ Rereserve(i)
      PROVE  rows'[p] = rows[p]
  <2>1. CASE Rereserve(i)
    BY <2>1 DEF Rereserve, durable
  <2>2. CASE Reserve(i)
    <3> PICK q \in Peers, t \in Tickets :
          LowestFree(q) /\ (ReserveSeat(i, q, t) \/ ReserveFails)
      BY <2>2 DEF Reserve
    <3>1. ~ReserveSeat(i, q, t) \/ p # q
      BY ConstantsAssumption DEF ReserveSeat, LowestFree, Taken, RosterKept, TypeOK, Seat
    <3> QED
      BY <3>1 DEF ReserveSeat, ReserveFails, TypeOK
  <2> QED
    BY <1>7, <2>1, <2>2
<1>8. ASSUME NEW q \in Peers, AgeReservation(q) \/ Ready(q) \/ Unready(q) \/ RecordScore(q)
      PROVE  UNCHANGED rows
  BY <1>8 DEF AgeReservation, Ready, Unready, RecordScore, durable
<1>9. CASE Initialize \/ StartTimeComes \/ EndPlay
  BY <1>9 DEF Initialize, StartTimeComes, EndPlay, durable
<1>10. ~Crash /\ ~RecoverExpiredRoom
  BY DEF Crash, RecoverExpiredRoom, DownLeavesOpen, live, Open
<1> QED
  BY <1>2, <1>3, <1>4, <1>5, <1>6, <1>7, <1>8, <1>9, <1>10
     DEF Next, Upgrade, OnClose, OnError, live, durable, vars

(* Every seat stays backed by its durable row. *)
LEMMA SeatBackedStep ==
  ASSUME TypeOK, SeatsOnlyOpen, DownLeavesOpen, SeatBacked, [Next]_vars
  PROVE  SeatBacked'
<1> USE DEF SeatBacked, Taken
<1> DEFINE Backed(p) == /\ rows[p] # NoRow
                        /\ rows[p].identity = members[p].identity
                        /\ members[p].connected => rows[p].connected
<1> SUFFICES ASSUME status' \in Open, NEW p \in Peers, members'[p] # NoSeat
             PROVE  Backed(p)'
  OBVIOUS
<1>1. members[p] # NoSeat => Backed(p)
  BY DEF SeatsOnlyOpen, NoSeats
<1>2. CASE RosterKept
  <2>1. members[p] # NoSeat /\ SameSeat(members[p], members'[p])
    BY <1>2 DEF RosterKept
  <2> QED
    BY <1>1, <1>2, <2>1, RowSteps DEF RowKept, SameSeat
<1>3. ASSUME NEW i \in Identities, Reserve(i)
      PROVE  Backed(p)'
  <2> PICK q \in Peers, t \in Tickets :
        LowestFree(q) /\ (ReserveSeat(i, q, t) \/ ReserveFails)
    BY <1>3 DEF Reserve
  <2>1. [identity |-> i, connected |-> FALSE] \in Row
    BY DEF Row
  <2>2. CASE ReserveSeat(i, q, t) /\ p = q
    BY <2>1, <2>2, ConstantsAssumption DEF ReserveSeat, TypeOK
  <2>3. CASE ReserveSeat(i, q, t) /\ p # q
    BY <1>1, <2>3 DEF ReserveSeat, TypeOK
  <2>4. CASE ReserveFails
    BY <1>1, <2>4 DEF ReserveFails
  <2> QED
    BY <2>2, <2>3, <2>4
<1>4. ASSUME NEW s \in sockets, Joins(s)
      PROVE  Backed(p)'
  <2>1. s.peer \in Peers /\ members[s.peer] \in Seat /\ members[s.peer] # NoSeat
    BY <1>4 DEF TypeOK, Socket, Joins, ReservationStands
  <2>2. CASE p # s.peer
    BY <1>1, <1>4, <2>1, <2>2 DEF Joins, Join, RowConnected, TypeOK
  <2>3. CASE p = s.peer
    <3>1. rows[p] \in Row /\ members'[p].identity = members[p].identity
      BY <1>1, <1>4, <2>1, <2>3 DEF Joins, Join, TypeOK, Seat
    <3>2. /\ [rows[p] EXCEPT !.connected = TRUE] \in Row
          /\ [rows[p] EXCEPT !.connected = TRUE].identity = rows[p].identity
          /\ [rows[p] EXCEPT !.connected = TRUE].connected
      BY <3>1 DEF Row
    <3>3. rows'[p] = [rows[p] EXCEPT !.connected = TRUE]
      BY <1>1, <1>4, <2>1, <2>3 DEF Joins, Join, RowConnected, TypeOK
    <3> QED
      BY <1>1, <2>1, <2>3, <3>1, <3>2, <3>3, ConstantsAssumption
  <2> QED
    BY <2>2, <2>3
<1> QED
  BY <1>2, <1>3, <1>4, RosterSteps

-----------------------------------------------------------------------------
(* Frozen scores. *)

On(p)  == members[p] # NoSeat /\ members[p].connected

(* How a step in a play treats a guest: it leaves connection and score as
   they are, drops both, or records a score of a connected guest. *)
GuestKept(p) ==
    \/ (scores'[p].dropped <=> scores[p].dropped) /\ (On(p)' <=> On(p))
    \/ scores'[p].dropped /\ ~On(p)'
    \/ ~scores'[p].dropped /\ On(p)'

(* Freezing the scores of S changes no other score. *)
LEMMA MarkScoreDroppedKeeps ==
  ASSUME TypeOK, NEW S, scores' = MarkScoreDropped(S), NEW p \in Peers
  PROVE  /\ p \in S => scores'[p].dropped
         /\ p \notin S => scores'[p] = scores[p]
<1>1. scores[p] \in Score
  BY DEF TypeOK
<1>2. [scores[p] EXCEPT !.dropped = TRUE].dropped = TRUE
  BY <1>1 DEF Score
<1>3. CASE p \in S
  BY <1>2, <1>3 DEF MarkScoreDropped
<1>4. CASE p \notin S
  BY <1>4 DEF MarkScoreDropped
<1> QED
  BY <1>3, <1>4

(* A row rewritten with the same connected flag connects nobody else. *)
LEMMA FlagKeepsConnection ==
  ASSUME TypeOK, NEW q \in Taken(members), NEW row \in Seat,
         row.connected = members[q].connected, members' = [members EXCEPT ![q] = row],
         NEW p \in Peers
  PROVE  On(p)' <=> On(p)
  BY ConstantsAssumption DEF TypeOK, Taken, On

(* During a play a guest's connection and frozen score change together. *)
LEMMA GuestSteps ==
  ASSUME TypeOK, [Next]_vars, status = "playing", status' = "playing",
         NEW p \in Peers \ {HostPeer}
  PROVE  GuestKept(p)
<1> USE DEF GuestKept
<1>1. CASE UNCHANGED <<members, scores>>
  BY <1>1 DEF On
<1>2. ASSUME NEW mem, NEW socks, CloseRoom(mem, socks),
             mem = members \/ (HostPeer \in Taken(members) /\ mem = MarkDisconnected(HostPeer))
      PROVE  GuestKept(p)
  <2>1. UNCHANGED scores /\ members' = mem
    BY <1>2 DEF CloseRoom, RoomCloses, RoomStaysOpen
  <2>2. members'[p] = members[p]
    BY <1>2, <2>1 DEF MarkDisconnected, TypeOK
  <2> QED
    BY <2>1, <2>2 DEF On
<1>3. ASSUME NEW s \in sockets, NEW socks, RemoveSocket(s, socks)
      PROVE  GuestKept(p)
  <2>1. s.peer \in Peers /\ (HoldsSeat(s) => s.peer \in Taken(members))
    BY DEF TypeOK, Socket, HoldsSeat, Taken
  <2>2. CASE HoldsSeat(s) /\ LeavePlay(s.peer)
    <3>1. /\ p = s.peer => scores'[p].dropped
          /\ p # s.peer => scores'[p] = scores[p]
      BY <2>1, <2>2, MarkScoreDroppedKeeps DEF LeavePlay
    <3>2. CASE p = s.peer
      BY <2>1, <2>2, <3>1, <3>2, MarkDisconnectedKeeps DEF LeavePlay, Without, On
    <3>3. CASE p # s.peer
      BY <2>1, <2>2, <3>1, <3>3 DEF LeavePlay, Without, MarkDisconnected, TypeOK, On
    <3> QED
      BY <3>2, <3>3
  <2> QED
    BY <1>1, <1>2, <1>3, <2>1, <2>2 DEF RemoveSocket, live
<1>4. ASSUME NEW i \in Identities, BanPlayer(i)
      PROVE  GuestKept(p)
  <2> PICK q \in SeatsOf(i) :
        IF q = HostPeer THEN CloseRoom(members, sockets) ELSE RemoveBanned(q) \/ BanFails
    BY <1>4 DEF BanPlayer
  <2>1. CASE q # HostPeer /\ RemoveBanned(q)
    <3>1. /\ p = q => scores'[p].dropped
          /\ p # q => scores'[p] = scores[p]
      BY <2>1, MarkScoreDroppedKeeps DEF RemoveBanned
    <3> QED
      BY <2>1, <3>1 DEF RemoveBanned, Without, On
  <2> QED
    BY <1>1, <1>2, <2>1 DEF BanFails
<1>5. CASE Alarm
  <2>1. CASE Sweep
    <3> PICK cut : /\ members' = Without(members, Swept(cut), NoSeat)
                   /\ scores' = MarkScoreDropped({q \in Tried(cut) : members[q].reserved = "dropped"})
      BY <2>1 DEF Sweep
    <3>1. \/ p \in Tried(cut) /\ scores'[p].dropped
          \/ scores'[p] = scores[p]
      BY MarkScoreDroppedKeeps
    <3>2. On(p)' <=> On(p)
      BY DEF Without, Swept, Stale, Connected, Taken, On
    <3>3. p \in Tried(cut) => ~On(p)
      BY DEF Tried, Stale, Connected, On
    <3> QED
      BY <3>1, <3>2, <3>3
  <2> QED
    BY <1>2, <1>5, <2>1 DEF Alarm
<1>6. ASSUME NEW q \in Peers, RecordScore(q)
      PROVE  GuestKept(p)
  <2>1. UNCHANGED members /\ q \in Connected(members)
    BY <1>6 DEF RecordScore, Speaks
  <2>2. CASE p = q
    BY <1>6, <2>1, <2>2 DEF RecordScore, Connected, Taken, On, TypeOK
  <2>3. CASE p # q
    BY <1>6, <2>1, <2>3 DEF RecordScore, On, TypeOK
  <2> QED
    BY <2>2, <2>3
<1>7. ASSUME NEW q \in Peers, AgeReservation(q)
      PROVE  GuestKept(p)
  <2>1. q \in Taken(members) /\ members[q] \in Seat
    BY <1>7 DEF AgeReservation, TypeOK, Taken
  <2>2. /\ [members[q] EXCEPT !.reserved = "aged"] \in Seat
        /\ [members[q] EXCEPT !.reserved = "aged"].connected = members[q].connected
    BY <2>1 DEF Seat
  <2> QED
    BY <1>7, <2>1, <2>2, FlagKeepsConnection DEF AgeReservation
<1>8. CASE EndPlay
  BY <1>1, <1>8 DEF EndPlay, PlayEnds, live
<1>9. CASE ForceClose
  BY <1>2, <1>9 DEF ForceClose
<1>10. ASSUME NEW s \in sockets, CompletePlayerConnection(s)
       PROVE  UNCHANGED <<members, scores>>
  BY <1>10 DEF CompletePlayerConnection, ReservationStands
<1>11. ASSUME NEW q \in Peers, Ready(q) \/ Unready(q)
       PROVE  FALSE
  BY <1>11 DEF Ready, Unready
<1>12. ASSUME NEW i \in Identities, Reserve(i) \/ Rereserve(i)
       PROVE  FALSE
  BY <1>12 DEF Reserve, Rereserve
<1> QED
  BY <1>1, <1>3, <1>4, <1>5, <1>6, <1>7, <1>8, <1>9, <1>10, <1>11, <1>12
     DEF Next, Initialize, Upgrade, OnClose, OnError, StartPlay, RecordPlayStarted, StartTimeComes, Crash,
         RecoverExpiredRoom, live, vars

(* A guest of the play has a frozen score exactly if it is not connected. *)
LEMMA DropStep ==
  ASSUME TypeOK, DownLeavesOpen, ScoresOnlyPlaying, DropFrozen, [Next]_vars
  PROVE  DropFrozen'
<1> USE DEF DropFrozen
<1> SUFFICES ASSUME status' = "playing", NEW p \in Peers \ {HostPeer},
                    (plays[playId].cast[p] # Nobody)'
             PROVE  scores'[p].dropped <=> ~On(p)'
  BY DEF On, Connected, Taken
<1>1. CASE KeepsPhase
  <2>1. scores[p].dropped <=> ~On(p)
    BY <1>1 DEF KeepsPhase, On, Connected, Taken
  <2> QED
    BY <1>1, <2>1, GuestSteps DEF KeepsPhase, GuestKept
<1>2. CASE Opens
  <2> PICK n \in PlayIds, started \in BOOLEAN : PlayOpens(n, started)
    BY <1>2 DEF Opens
  <2>1. plays'[playId'].cast = CastOf(Connected(members))
    BY DEF PlayOpens, NoPlayRow, TypeOK
  <2>2. p \in Connected(members)
    BY <2>1 DEF CastOf
  <2>3. On(p)'
    BY <2>2 DEF PlayOpens, Without, On, Connected, Taken
  <2>4. ~scores'[p].dropped
    BY <1>2 DEF Opens, ScoresOnlyPlaying, NoScores, NoScore
  <2> QED
    BY <2>3, <2>4
<1>3. KeepsPhase \/ Opens
  BY PhaseSteps DEF Initialize, Settles, RoomCloses, Ends, PlayEnds, Crash, RecoverExpiredRoom,
                    DownLeavesOpen, live
<1> QED
  BY <1>1, <1>2, <1>3

-----------------------------------------------------------------------------
(* What is settled stays settled. *)

(* No handler writes anything about a closed room. *)
LEMMA ClosedIsIdle ==
  ASSUME TypeOK, up, status \notin Open, room.status = "closed", [Next]_vars
  PROVE  UNCHANGED <<room, rows, plays, status>>
<1> USE DEF Open
<1>1. ASSUME NEW s \in sockets, CompletePlayerConnection(s) \/ OnClose(s) \/ OnError(s)
      PROVE  UNCHANGED <<room, rows, plays, status>>
  BY <1>1 DEF CompletePlayerConnection, ReservationStands, OnClose, OnError, RemoveSocket, HoldsSeat,
              live, durable
<1>2. ASSUME NEW p \in Peers, AgeReservation(p) \/ Ready(p) \/ Unready(p) \/ RecordScore(p)
      PROVE  FALSE
  BY <1>2 DEF AgeReservation, Ready, Unready, RecordScore
<1>3. ASSUME NEW i \in Identities, Reserve(i) \/ Rereserve(i) \/ BanPlayer(i)
      PROVE  FALSE
  BY <1>3 DEF Reserve, Rereserve, BanPlayer
<1> QED
  BY <1>1, <1>2, <1>3
     DEF Next, Initialize, ForceClose, Upgrade, StartPlay, RecordPlayStarted, StartTimeComes, EndPlay,
         Alarm, Crash, RecoverExpiredRoom, live, durable, vars

(* No step changes a finished play or a closed room. *)
LEMMA SettledStep ==
  ASSUME TypeOK, PlayIdSet, DownLeavesOpen, StatusAgreement, OpenPlayIsCurrent, [Next]_vars
  PROVE  /\ \A n \in PlayIds : plays[n].state \in {"ended", "deleted"} => plays'[n] = plays[n]
         /\ room.status = "closed" => room' = room /\ rows' = rows /\ plays' = plays
                                      /\ status' \notin Open
<1>1. ASSUME NEW n \in PlayIds, plays[n].state \in {"ended", "deleted"}
      PROVE  plays'[n] = plays[n]
  <2> USE DEF TypeOK
  <2>1. up => ~(status = "playing" /\ playId = n)
    BY <1>1 DEF OpenPlayIsCurrent
  <2>2. CASE Settles
    BY <2>1, <2>2 DEF Settles, RoomCloses, PlaysSettled, PlayIdSet
  <2>3. CASE Opens
    BY <1>1, <2>3 DEF Opens, PlayOpens, NextPlay
  <2>4. CASE Ends
    BY <2>1, <2>4, FinishedRow DEF Ends, PlayIdSet
  <2>5. CASE RecoverExpiredRoom
    BY <1>1, <2>5 DEF RecoverExpiredRoom
  <2> QED
    BY <2>2, <2>3, <2>4, <2>5, PhaseSteps DEF KeepsPhase, Initialize, Crash, durable
<1>2. ASSUME room.status = "closed"
      PROVE  room' = room /\ rows' = rows /\ plays' = plays /\ status' \notin Open
  <2>1. up /\ status \notin Open
    BY <1>2 DEF DownLeavesOpen, StatusAgreement, Open
  <2> QED
    BY <1>2, <2>1, ClosedIsIdle
<1> QED
  BY <1>1, <1>2

-----------------------------------------------------------------------------
(* The theorems. *)

(* The invariant holds at the start. *)
LEMMA InitIInv == Init => IInv
<1> SUFFICES ASSUME Init
             PROVE  IInv
  OBVIOUS
<1> USE DEF Init
<1>1. TypeOK
  <2>1. status \in Statuses /\ playId \in PlayIds \cup {NoPlay} /\ faults \in 0..MaxFaults
    BY ConstantsAssumption DEF Statuses
  <2>2. /\ rows \in [Peers -> Row \cup {NoRow}] /\ plays \in [PlayIds -> Play]
        /\ members \in [Peers -> Seat \cup {NoSeat}] /\ scores \in [Peers -> Score]
    BY EmptyTypes
  <2> QED
    BY <2>1, <2>2 DEF TypeOK
<1>2. PlayIdSet /\ DownLeavesOpen /\ SeatsOnlyOpen /\ ScoresOnlyPlaying /\ StatusAgreement
  BY DEF PlayIdSet, DownLeavesOpen, SeatsOnlyOpen, ScoresOnlyPlaying, StatusAgreement
<1>3. OpenPlayIsCurrent /\ HistoryIsOwn
  BY DEF OpenPlayIsCurrent, HistoryIsOwn, NoPlayRow
<1>4. SeatBacked /\ SeatsAreCast /\ DropFrozen /\ OpenRoomIsWatched
  BY DEF SeatBacked, SeatsAreCast, DropFrozen, OpenRoomIsWatched, Open
<1>5. ConnectedSeatHasSocket
  BY DEF ConnectedSeatHasSocket, Connected, Taken, NoSeats
<1>6. ScoresOfThisPlay /\ HostSeated
  BY DEF ScoresOfThisPlay, NoScores, NoScore, HostSeated, Open
<1> QED
  BY <1>1, <1>2, <1>3, <1>4, <1>5, <1>6 DEF IInv

(* The invariant is inductive. *)
LEMMA StepIInv == IInv /\ [Next]_vars => IInv'
  BY TypeStep, StatusStep, OpenPlayStep, CastStep, ScoresIdleStep, ScoresStep, HistoryStep,
     SeatsOnlyOpenStep, WatchStep, SocketStep, SeatBackedStep, DropStep,
     HostSeatedStep DEF IInv

(* The inductive invariant holds throughout every behaviour of the room.     *)
THEOREM Invariance == Spec => []IInv
  BY InitIInv, StepIInv, PTL DEF Spec

(* The state always has its type; no handler leaves a room "closing". *)
THEOREM TypeCorrect == Spec => []TypeOK
<1>1. IInv => TypeOK
  BY DEF IInv
<1> QED
  BY <1>1, Invariance, PTL

(* What the directory and the match endpoint read about a room is what the  *)
(* room is doing, whichever writes failed.                                  *)
THEOREM StatusesAgree == Spec => []DurableAgrees
<1>1. IInv => DurableAgrees
  BY DEF IInv, DurableAgrees
<1> QED
  BY <1>1, Invariance, PTL

(* Every seat of an open room is backed by its durable row, and a connected *)
(* seat by a socket whose close event is to come.                           *)
THEOREM SeatsAreBacked == Spec => []SeatsAreHeld
<1>1. IInv => SeatsAreHeld
  BY DEF IInv, SeatsAreHeld
<1> QED
  BY <1>1, Invariance, PTL

(* While anyone has a seat the host has one, so nobody inherits a room.      *)
THEOREM HostIsSeated == Spec => []HostSeated
<1>1. IInv => HostSeated
  BY DEF IInv
<1> QED
  BY <1>1, Invariance, PTL

(* The seats of a running play are its cast's, and a guest's score is       *)
(* frozen exactly if the guest is gone.                                     *)
THEOREM CastAndDrops == Spec => []CastIsFrozen
<1>1. IInv => CastIsFrozen
  BY DEF IInv, CastIsFrozen
<1> QED
  BY <1>1, Invariance, PTL

(* The history shows a player only what that player reported in that play.  *)
THEOREM HistoryIsTrue == Spec => []HistoryIsOwn
<1>1. IInv => HistoryIsOwn
  BY DEF IInv
<1> QED
  BY <1>1, Invariance, PTL

(* An open room is never without an armed alarm. *)
THEOREM RoomsAreWatched == Spec => []OpenRoomIsWatched
<1>1. IInv => OpenRoomIsWatched
  BY DEF IInv
<1> QED
  BY <1>1, Invariance, PTL

(* The host of an open room never changes. *)
THEOREM HostIsStable == Spec => HostSeatStable
<1>1. IInv /\ [Next]_vars =>
        [/\ status \in Open /\ status' \in Open
         /\ HostOf(members) # Nobody
         => HostOf(members') = HostOf(members)]_vars
  BY HostSeatStep DEF IInv
<1> QED
  BY <1>1, Invariance, PTL DEF Spec, HostSeatStable

(* Finished plays and closed rooms never change. *)
THEOREM SettledStaysSettled == Spec => SettledIsFinal
<1>1. IInv /\ [Next]_vars =>
        [/\ \A n \in PlayIds : plays[n].state \in {"ended", "deleted"} => plays'[n] = plays[n]
         /\ room.status = "closed" => room' = room /\ rows' = rows /\ plays' = plays
                                      /\ status' \notin Open]_vars
  BY SettledStep DEF IInv
<1> QED
  BY <1>1, Invariance, PTL DEF Spec, SettledIsFinal

-----------------------------------------------------------------------------
(* Without failures the durable projection is the live room. *)

MirrorRow(seat) ==
    IF seat = NoSeat THEN NoRow
    ELSE [identity |-> seat.identity, connected |-> seat.connected]

(* A room that was never written has no member rows. *)
UnwrittenIsEmpty == room.status = "absent" => rows = [p \in Peers |-> NoRow]

Mirrors == /\ \A p \in Peers : rows[p] = MirrorRow(members[p])
           /\ room.count = Cardinality(Taken(members))

(* DurableMirrorsLive, with its bookkeeping named. *)
LEMMA MirrorsMeaning ==
  ASSUME TypeOK
  PROVE  DurableMirrorsLive <=> (faults = 0 /\ status \in Open => Mirrors)
  BY DEF DurableMirrorsLive, Mirrors, Mirror, MirrorRow, TypeOK

(* A failure is counted. *)
LEMMA NoFailures ==
  ASSUME TypeOK, faults' = 0
  PROVE  ~Faulty
  BY ConstantsAssumption DEF TypeOK, Faulty

(* A failure is counted for ever. *)
LEMMA FailuresStay ==
  ASSUME TypeOK, [Next]_vars
  PROVE  faults' \in {faults, faults + 1}
<1> USE DEF Sound, Faulty
<1>1. CASE Initialize \/ ForceClose
  BY <1>1 DEF Initialize, ForceClose, CloseRoom, RoomCloses, RoomStaysOpen
<1>2. ASSUME NEW i \in Identities, Reserve(i) \/ Rereserve(i) \/ BanPlayer(i)
      PROVE  faults' \in {faults, faults + 1}
  BY <1>2 DEF Reserve, ReserveSeat, ReserveFails, Rereserve, BanPlayer, RemoveBanned, BanFails,
              CloseRoom, RoomCloses, RoomStaysOpen
<1>3. ASSUME NEW p \in Peers, AgeReservation(p) \/ Ready(p) \/ Unready(p) \/ RecordScore(p)
      PROVE  faults' \in {faults, faults + 1}
  BY <1>3 DEF AgeReservation, Ready, Unready, RecordScore
<1>4. ASSUME NEW p \in Peers, NEW c \in Copies, Upgrade(p, c)
      PROVE  faults' \in {faults, faults + 1}
  BY <1>4 DEF Upgrade
<1>5. ASSUME NEW s \in sockets, CompletePlayerConnection(s)
      PROVE  faults' \in {faults, faults + 1}
  BY <1>5 DEF CompletePlayerConnection, Join, JoinFails
<1>6. ASSUME NEW s \in sockets, OnClose(s) \/ OnError(s)
      PROVE  faults' \in {faults, faults + 1}
  BY <1>6 DEF OnClose, OnError, RemoveSocket, LeavePlay, LeaveLobby, CloseRoom, RoomCloses,
              RoomStaysOpen
<1>7. CASE StartPlay \/ RecordPlayStarted
  BY <1>7 DEF StartPlay, RecordPlayStarted, BeginPlay, PlayOpens, PlayRolledBack
<1>8. CASE StartTimeComes \/ EndPlay
  BY <1>8 DEF StartTimeComes, EndPlay, PlayEnds
<1>9. CASE Alarm
  BY <1>9 DEF Alarm, Sweep, CloseRoom, RoomCloses, RoomStaysOpen
<1>10. CASE Crash \/ RecoverExpiredRoom \/ UNCHANGED vars
  BY <1>10 DEF Crash, RecoverExpiredRoom, vars
<1> QED
  BY <1>1, <1>2, <1>3, <1>4, <1>5, <1>6, <1>7, <1>8, <1>9, <1>10 DEF Next

(* A step that moves neither seats nor rows keeps the mirror. *)
LEMMA MirrorUnchanged ==
  ASSUME TypeOK, Mirrors, rows' = rows, room'.count = room.count,
         \A p \in Peers : MirrorRow(members'[p]) = MirrorRow(members[p]),
         \A p \in Peers : members'[p] = NoSeat <=> members[p] = NoSeat
  PROVE  Mirrors'
<1>1. Taken(members') = Taken(members)
  BY DEF Taken
<1> QED
  BY <1>1 DEF Mirrors

(* Rewriting a live flag that is not mirrored keeps the mirror. *)
LEMMA MirrorFlag ==
  ASSUME TypeOK, Mirrors, NEW p \in Taken(members), NEW row \in Seat,
         row.identity = members[p].identity, row.connected = members[p].connected,
         members' = [members EXCEPT ![p] = row], UNCHANGED <<rows, room>>
  PROVE  Mirrors'
<1>1. \A q \in Peers : /\ MirrorRow(members'[q]) = MirrorRow(members[q])
                       /\ members'[q] = NoSeat <=> members[q] = NoSeat
  BY ConstantsAssumption DEF TypeOK, Taken, MirrorRow
<1> QED
  BY <1>1, MirrorUnchanged

(* Removing seats with their rows and count keeps the mirror. *)
LEMMA MirrorRemoval ==
  ASSUME TypeOK, Mirrors, NEW S,
         members' = Without(members, S, NoSeat), rows' = Without(rows, S, NoRow),
         room'.count = Cardinality(Taken(members) \ S)
  PROVE  Mirrors'
<1>1. Taken(members') = Taken(members) \ S
  BY DEF Taken, Without
<1>2. \A p \in Peers : rows'[p] = MirrorRow(members'[p])
  BY DEF Mirrors, MirrorRow, Without
<1> QED
  BY <1>1, <1>2 DEF Mirrors

(* Every handler whose writes succeed keeps the mirror of an open room. *)
LEMMA MirrorStep ==
  ASSUME TypeOK, PlayIdSet, faults' = 0, DownLeavesOpen, SeatsOnlyOpen, SeatBacked,
         UnwrittenIsEmpty, status \in Open => Mirrors, [Next]_vars, status' \in Open
  PROVE  Mirrors'
<1> USE NoFailures
<1>1. CASE Initialize
  <2>1. members' = NoSeats /\ rows' = [p \in Peers |-> NoRow] /\ room'.count = 0
    BY <1>1 DEF Initialize, UnwrittenIsEmpty, SeatsOnlyOpen, Open
  <2>2. Taken(members') = {}
    BY <2>1 DEF Taken, NoSeats
  <2> QED
    BY <2>1, <2>2, FS_EmptySet DEF Mirrors, MirrorRow, NoSeats
<1> SUFFICES ASSUME ~Initialize
             PROVE  Mirrors'
  BY <1>1
<1>2. status \in Open /\ Mirrors /\ ~RecoverExpiredRoom /\ ~Crash
  BY PhaseSteps DEF KeepsPhase, Settles, Opens, Ends, Crash, RecoverExpiredRoom, DownLeavesOpen,
                    live, Open
<1> USE <1>2
<1>3. ASSUME NEW mem, NEW socks, CloseRoom(mem, socks)
      PROVE  FALSE
  BY <1>3 DEF CloseRoom, RoomCloses, RoomStaysOpen, Open
<1>4. CASE UNCHANGED <<members, rows, room>>
  BY <1>4, MirrorUnchanged
<1>5. ASSUME NEW i \in Identities, Reserve(i)
      PROVE  Mirrors'
  <2> PICK p \in Peers, t \in Tickets : LowestFree(p) /\ ReserveSeat(i, p, t)
    BY <1>5 DEF Reserve, ReserveFails
  <2> DEFINE seat == [identity |-> i, ticket |-> t, connected |-> FALSE, ready |-> FALSE,
                      reserved |-> "fresh"]
  <2>0. seat # NoSeat
    <3>1. seat \in Seat
      BY DEF Seat
    <3> QED
      BY <3>1, ConstantsAssumption
  <2>1. Taken(members') = Taken(members) \cup {p} /\ p \notin Taken(members)
    BY <2>0 DEF ReserveSeat, LowestFree, Taken, TypeOK
  <2>2. Cardinality(Taken(members')) = Cardinality(Taken(members)) + 1
    <3>1. IsFiniteSet(Taken(members))
      BY SeatCounts DEF Taken
    <3> QED
      BY <2>1, <3>1, FS_AddElement
  <2>3. \A q \in Peers : rows'[q] = MirrorRow(members'[q])
    BY <2>0 DEF ReserveSeat, Mirrors, MirrorRow, TypeOK
  <2>4. room'.count = Cardinality(Taken(members)) + 1
    BY DEF ReserveSeat, TypeOK
  <2> QED
    BY <2>2, <2>3, <2>4 DEF Mirrors
<1>6. ASSUME NEW i \in Identities, Rereserve(i)
      PROVE  Mirrors'
  <2> PICK p \in SeatsOf(i), t \in Tickets :
        members' = [members EXCEPT ![p] = [@ EXCEPT !.ticket = t, !.reserved = "fresh"]]
    BY <1>6 DEF Rereserve
  <2>1. p \in Taken(members) /\ members[p] \in Seat
    BY DEF SeatsOf, Taken, TypeOK
  <2>2. [members[p] EXCEPT !.ticket = t, !.reserved = "fresh"] \in Seat
    BY <2>1 DEF Seat
  <2>3. /\ [members[p] EXCEPT !.ticket = t, !.reserved = "fresh"].identity = members[p].identity
        /\ [members[p] EXCEPT !.ticket = t, !.reserved = "fresh"].connected = members[p].connected
    BY <2>1 DEF Seat
  <2> QED
    BY <1>6, <2>1, <2>2, <2>3, MirrorFlag DEF Rereserve, durable
<1>7. ASSUME NEW i \in Identities, BanPlayer(i)
      PROVE  Mirrors'
  <2> PICK p \in SeatsOf(i) : p # HostPeer /\ RemoveBanned(p)
    BY <1>3, <1>7 DEF BanPlayer, BanFails
  <2>1. p \in Taken(members) /\ p \in Peers
    BY DEF SeatsOf, Taken
  <2>2. rows[p] # NoRow /\ rows[p].identity = members[p].identity
    BY <2>1 DEF SeatBacked
  <2>3. rows' = Without(rows, {p}, NoRow)
    BY <2>1, <2>2 DEF RemoveBanned, Without, TypeOK
  <2>4. Cardinality(Taken(members) \ {p}) = Cardinality(Taken(members)) - 1
    <3>1. IsFiniteSet(Taken(members))
      BY SeatCounts DEF Taken
    <3> QED
      BY <2>1, <3>1, FS_RemoveElement
  <2>5. room'.count = Cardinality(Taken(members) \ {p})
    BY <2>4 DEF RemoveBanned, TypeOK
  <2> QED
    BY <2>3, <2>5, MirrorRemoval DEF RemoveBanned
<1>8. ASSUME NEW p \in Peers, AgeReservation(p) \/ Ready(p) \/ Unready(p)
      PROVE  Mirrors'
  <2>1. p \in Taken(members) /\ members[p] \in Seat
    BY <1>8 DEF AgeReservation, Ready, Unready, Speaks, Connected, Taken, TypeOK
  <2>2. /\ [members[p] EXCEPT !.reserved = "aged"] \in Seat
        /\ [members[p] EXCEPT !.ready = TRUE] \in Seat
        /\ [members[p] EXCEPT !.ready = FALSE] \in Seat
    BY <2>1 DEF Seat
  <2>3. /\ [members[p] EXCEPT !.reserved = "aged"].identity = members[p].identity
        /\ [members[p] EXCEPT !.ready = TRUE].identity = members[p].identity
        /\ [members[p] EXCEPT !.ready = FALSE].identity = members[p].identity
        /\ [members[p] EXCEPT !.reserved = "aged"].connected = members[p].connected
        /\ [members[p] EXCEPT !.ready = TRUE].connected = members[p].connected
        /\ [members[p] EXCEPT !.ready = FALSE].connected = members[p].connected
    BY <2>1 DEF Seat
  <2>4. UNCHANGED <<rows, room>>
    BY <1>8 DEF AgeReservation, Ready, Unready, durable
  <2> QED
    BY <1>8, <2>1, <2>2, <2>3, <2>4, MirrorFlag DEF AgeReservation, Ready, Unready
<1>9. ASSUME NEW s \in sockets, CompletePlayerConnection(s)
      PROVE  Mirrors'
  <2>1. CASE UNCHANGED <<members, rows>>
    BY <1>4, <1>9, <2>1 DEF CompletePlayerConnection
  <2>2. CASE ReservationStands(s.peer, s.identity, s.ticket) /\ Join(s.peer)
    <3> DEFINE p == s.peer
    <3>1. p \in Peers /\ members[p] \in Seat /\ members[p] # NoSeat
      BY <2>2 DEF ReservationStands, TypeOK, Socket
    <3>2. [members[p] EXCEPT !.connected = TRUE, !.reserved = "fresh"] \in Seat
      BY <3>1 DEF Seat
    <3>3. /\ [members[p] EXCEPT !.connected = TRUE, !.reserved = "fresh"].identity
                = members[p].identity
          /\ [members[p] EXCEPT !.connected = TRUE, !.reserved = "fresh"].connected = TRUE
      BY <3>1 DEF Seat
    <3>4. Taken(members') = Taken(members)
      BY <2>2, <3>1, <3>2, ConstantsAssumption DEF Join, Taken, TypeOK
    <3>5. rows[p] = [identity |-> members[p].identity, connected |-> members[p].connected]
      BY <3>1 DEF Mirrors, MirrorRow
    <3>6. rows[p] # NoRow
      BY <3>1 DEF SeatBacked, Taken
    <3>7. rows' = [rows EXCEPT ![p] = [identity |-> members[p].identity, connected |-> TRUE]]
      <4>1. [rows[p] EXCEPT !.connected = TRUE]
              = [identity |-> members[p].identity, connected |-> TRUE]
        <5>1. rows[p] \in Row
          BY <3>1, <3>6 DEF TypeOK
        <5>2. rows[p].identity = members[p].identity
          BY <3>5
        <5> DEFINE r == [rows[p] EXCEPT !.connected = TRUE]
        <5>3. r \in Row /\ r.identity = rows[p].identity /\ r.connected = TRUE
          BY <5>1 DEF Row
        <5>4. r = [identity |-> r.identity, connected |-> r.connected]
          <6> HIDE DEF r
          <6> QED
            BY <5>3 DEF Row
        <5> QED
          BY <5>2, <5>3, <5>4
      <4> QED
        BY <2>2, <3>1, <3>6, <4>1 DEF Join, RowConnected, TypeOK
    <3>8. \A q \in Peers : rows'[q] = MirrorRow(members'[q])
      BY <2>2, <3>1, <3>2, <3>3, <3>7, ConstantsAssumption DEF Join, Mirrors, MirrorRow, TypeOK
    <3> QED
      BY <1>9, <3>4, <3>8 DEF Mirrors, CompletePlayerConnection
  <2> QED
    BY <1>9, <2>1, <2>2 DEF CompletePlayerConnection, JoinFails
<1>10. ASSUME NEW s \in sockets, NEW socks, RemoveSocket(s, socks)
       PROVE  Mirrors'
  <2>1. CASE UNCHANGED <<live, durable, alarm, faults>>
    BY <1>4, <2>1 DEF live, durable
  <2>2. CASE LeavePlay(s.peer) \/ LeaveLobby(s.peer)
    <3>1. /\ members' = Without(members, {s.peer}, NoSeat) /\ rows' = Without(rows, {s.peer}, NoRow)
          /\ room' = [room EXCEPT !.count = Cardinality(Taken(members) \ {s.peer})]
      BY <2>2 DEF LeavePlay, LeaveLobby
    <3> QED
      BY <3>1, MirrorRemoval DEF TypeOK
  <2> QED
    BY <1>3, <1>10, <2>1, <2>2 DEF RemoveSocket
<1>11. CASE Opens
  <2> PICK n \in PlayIds, started \in BOOLEAN : PlayOpens(n, started)
    BY <1>11 DEF Opens
  <2>1. Taken(members') = Connected(members)
    BY DEF PlayOpens, Without, Taken, Connected
  <2>2. room'.count = Cardinality(Connected(members))
    BY DEF PlayOpens
  <2>3. ASSUME NEW p \in Peers
        PROVE  rows'[p] = MirrorRow(members'[p])
    <3>1. CASE p \in Connected(members)
      <4>1. rows[p] # NoRow /\ rows[p].connected
        BY <3>1 DEF SeatBacked, Connected
      <4> QED
        BY <3>1, <4>1 DEF PlayOpens, Without, Mirrors
    <3>2. CASE p \notin Connected(members)
      <4>1. rows[p] = NoRow \/ ~rows[p].connected
        <5>1. CASE members[p] = NoSeat
          BY <5>1 DEF Mirrors, MirrorRow
        <5>2. CASE members[p] # NoSeat
          <6>1. rows[p].connected = members[p].connected
            <7>1. rows[p] = [identity |-> members[p].identity, connected |-> members[p].connected]
              BY <5>2 DEF Mirrors, MirrorRow
            <7> QED
              BY <7>1
          <6>2. ~members[p].connected
            BY <3>2, <5>2 DEF Connected, Taken
          <6> QED
            BY <6>1, <6>2
        <5> QED
          BY <5>1, <5>2
      <4> QED
        BY <3>2, <4>1 DEF PlayOpens, Without, MirrorRow
    <3> QED
      BY <3>1, <3>2
  <2> QED
    BY <2>1, <2>2, <2>3 DEF Mirrors
<1>12. CASE StartPlay \/ RecordPlayStarted
  <2>1. up /\ status = "recruiting" /\ HostPeer \in Connected(members)
    BY <1>12 DEF StartPlay, RecordPlayStarted, Speaks
  <2>2. PICK n \in PlayIds, started \in BOOLEAN :
            NextPlay(n) /\ PlayOpens(n, started) /\ UNCHANGED <<scores, alarm, sockets, up>>
    BY <1>12 DEF StartPlay, RecordPlayStarted, BeginPlay, PlayRolledBack
  <2> QED
    BY <1>11, <2>1, <2>2 DEF Opens
<1>13. CASE EndPlay
  <2>1. members' = ReadyCleared /\ rows' = rows /\ room'.count = room.count
    BY <1>13 DEF EndPlay, PlayEnds, TypeOK
  <2>2. ASSUME NEW p \in Peers
        PROVE  /\ MirrorRow(members'[p]) = MirrorRow(members[p])
               /\ members'[p] = NoSeat <=> members[p] = NoSeat
    <3>1. members[p] # NoSeat => [members[p] EXCEPT !.ready = FALSE] \in Seat
      BY DEF TypeOK, Seat
    <3>2. members[p] # NoSeat =>
            /\ [members[p] EXCEPT !.ready = FALSE].identity = members[p].identity
            /\ [members[p] EXCEPT !.ready = FALSE].connected = members[p].connected
      BY DEF TypeOK, Seat
    <3> QED
      BY <2>1, <3>1, <3>2, ConstantsAssumption DEF ReadyCleared, MirrorRow
  <2> QED
    BY <2>1, <2>2, MirrorUnchanged
<1>14. CASE Alarm
  <2> PICK cut \in 1..(MaxPeers + 2) :
        /\ cut = MaxPeers + 2
        /\ members' = Without(members, Swept(cut), NoSeat)
        /\ rows' = Without(rows, Swept(cut), NoRow)
        /\ room' = [room EXCEPT !.count = SweptCount(cut)]
    BY <1>3, <1>14 DEF Alarm, Sweep
  <2>1. room'.count = Cardinality(Taken(members) \ Swept(cut))
    BY DEF SweptCount, TypeOK
  <2> QED
    BY <2>1, MirrorRemoval
<1>15. CASE ForceClose
  BY <1>3, <1>15 DEF ForceClose
<1>16. ASSUME NEW p \in Peers, RecordScore(p)
       PROVE  UNCHANGED <<members, rows, room>>
  BY <1>16 DEF RecordScore, durable
<1>17. ASSUME NEW p \in Peers, NEW c \in Copies, Upgrade(p, c)
       PROVE  UNCHANGED <<members, rows, room>>
  BY <1>17 DEF Upgrade, live, durable
<1>18. CASE StartTimeComes \/ UNCHANGED vars
  BY <1>4, <1>18 DEF StartTimeComes, durable, vars
<1> QED
  BY <1>4, <1>5, <1>6, <1>7, <1>8, <1>9, <1>10, <1>12, <1>13, <1>14, <1>15, <1>16, <1>17, <1>18
     DEF Next, OnClose, OnError

(* A room that was never written stays without rows until it is written. *)
LEMMA UnwrittenStep ==
  ASSUME TypeOK, DownLeavesOpen, StatusAgreement, UnwrittenIsEmpty, [Next]_vars
  PROVE  UnwrittenIsEmpty'
<1> USE DEF UnwrittenIsEmpty
<1>1. CASE room.status = "absent"
  <2> USE DEF Open
  <2>1. up /\ status = "none"
    BY <1>1 DEF DownLeavesOpen, StatusAgreement, TypeOK, Statuses
  <2>2. ASSUME NEW s \in sockets, CompletePlayerConnection(s) \/ OnClose(s) \/ OnError(s)
        PROVE  UNCHANGED rows
    BY <2>1, <2>2 DEF CompletePlayerConnection, ReservationStands, OnClose, OnError, RemoveSocket,
                      HoldsSeat, live, durable
  <2>3. ASSUME NEW p \in Peers, AgeReservation(p) \/ Ready(p) \/ Unready(p) \/ RecordScore(p)
        PROVE  FALSE
    BY <2>1, <2>3 DEF AgeReservation, Ready, Unready, RecordScore
  <2>4. ASSUME NEW i \in Identities, Reserve(i) \/ Rereserve(i) \/ BanPlayer(i)
        PROVE  FALSE
    BY <2>1, <2>4 DEF Reserve, Rereserve, BanPlayer
  <2> QED
    BY <1>1, <2>1, <2>2, <2>3, <2>4
       DEF Next, Initialize, ForceClose, Upgrade, StartPlay, RecordPlayStarted, StartTimeComes, EndPlay,
           Alarm, Crash, RecoverExpiredRoom, live, durable, vars
<1>2. CASE room.status # "absent"
  <2>1. CASE KeepsPhase \/ Initialize \/ Crash
    BY <1>2, <2>1 DEF KeepsPhase, Initialize, Crash, durable
  <2>2. CASE Settles
    BY <2>2 DEF Settles, RoomCloses
  <2>3. CASE Opens
    BY <2>3 DEF Opens, PlayOpens
  <2>4. CASE Ends
    BY <1>2, <2>4 DEF Ends, PlayEnds, TypeOK
  <2>5. CASE RecoverExpiredRoom
    BY <2>5 DEF RecoverExpiredRoom
  <2> QED
    BY <2>1, <2>2, <2>3, <2>4, <2>5, PhaseSteps
<1> QED
  BY <1>1, <1>2

(* As long as no write failed the durable rows and the player count are the *)
(* live room, seat by seat, after every handler.                            *)
THEOREM FaultFreeMirror == Spec => []DurableMirrorsLive
<1> DEFINE MInv == IInv /\ UnwrittenIsEmpty /\ DurableMirrorsLive
<1>1. Init => MInv
  <2> SUFFICES ASSUME Init
               PROVE  MInv
    OBVIOUS
  <2>1. UnwrittenIsEmpty /\ DurableMirrorsLive
    BY DEF Init, UnwrittenIsEmpty, DurableMirrorsLive, Open
  <2> QED
    BY <2>1, InitIInv
<1>2. MInv /\ [Next]_vars => MInv'
  <2> SUFFICES ASSUME MInv, [Next]_vars
               PROVE  MInv'
    OBVIOUS
  <2>1. IInv' /\ TypeOK'
    BY StepIInv DEF IInv
  <2>2. UnwrittenIsEmpty'
    BY UnwrittenStep DEF IInv
  <2>3. faults = 0 /\ status \in Open => Mirrors
    BY MirrorsMeaning DEF IInv
  <2>4. ASSUME faults' = 0, status' \in Open
        PROVE  rows' = Mirror' /\ room'.count = Cardinality(Taken(members'))
    <3>1. faults = 0
      BY <2>4, FailuresStay, ConstantsAssumption DEF IInv, TypeOK
    <3>2. Mirrors'
      BY <2>3, <2>4, <3>1, MirrorStep DEF IInv
    <3> QED
      BY <2>1, <3>2 DEF Mirrors, Mirror, MirrorRow, TypeOK
  <2>5. DurableMirrorsLive'
    BY <2>4 DEF DurableMirrorsLive
  <2> QED
    BY <2>1, <2>2, <2>5
<1> QED
  BY <1>1, <1>2, PTL DEF Spec

-----------------------------------------------------------------------------
(* The refinement of RoomLifecycle. *)

(* A play that settles leaves the history or keeps its cast and its reports. *)
LEMMA SettlingRow ==
  ASSUME NEW n \in PlayIds, NEW before \in Play, NEW after \in Play,
         \/ after = [NoPlayRow EXCEPT !.state = "deleted"]
         \/ after.state = "ended" /\ after.cast \in {before.cast, NoPlayRow.cast},
         \A p \in Peers : after.result[p] \subseteq {<<n, after.cast[p]>>}
  PROVE  Lifecycle!Settles(n, before, after)
  BY DEF Lifecycle!Settles, Lifecycle!Unplayed, NoPlayRow

(* An ended row has its cast, or nobody's. *)
LEMMA EndedRow ==
  ASSUME NEW play \in Play, NEW reports
  PROVE  /\ LET row == [play EXCEPT !.state = "ended"]
            IN  row.state = "ended" /\ row.cast = play.cast
         /\ LET row == [play EXCEPT !.state = "ended", !.result = reports]
            IN  row.state = "ended" /\ row.cast = play.cast
         /\ LET row == [NoPlayRow EXCEPT !.state = "ended"]
            IN  row.state = "ended" /\ row.cast = NoPlayRow.cast
  BY DEF Play, NoPlayRow

(* The abstract specification and the room's speak of the same rows. *)
LEMMA SameRows == Lifecycle!Entry = Play /\ Lifecycle!Unplayed = NoPlayRow
  BY DEF Lifecycle!Entry, Lifecycle!Report, Lifecycle!Unplayed, Play, Report, NoPlayRow

(* The first state is the abstract one. *)
LEMMA LifecycleInit == Init => Lifecycle!Init
  BY SameRows DEF Init, Lifecycle!Init

(* Closing, ending or recovering settles what is open and nothing else. *)
LEMMA SettlingSteps ==
  ASSUME IInv, [Next]_vars, Settles \/ Ends \/ RecoverExpiredRoom
  PROVE  Lifecycle!OpenPlaySettles
<1>1. TypeOK' /\ HistoryIsOwn'
  BY StepIInv DEF IInv
<1>2. plays' \in [PlayIds -> Lifecycle!Entry]
  BY <1>1, SameRows DEF TypeOK
<1>3. ASSUME NEW n \in PlayIds, plays[n].state # "open"
      PROVE  plays'[n] = plays[n]
  <2>1. CASE RecoverExpiredRoom
    BY <1>3, <2>1 DEF RecoverExpiredRoom, IInv, TypeOK
  <2>2. CASE Settles
    BY <1>3, <2>2 DEF Settles, RoomCloses, PlaysSettled, IInv, TypeOK, OpenPlayIsCurrent,
                      PlayIdSet, Open
  <2>3. CASE Ends
    BY <1>3, <2>3, FinishedRow DEF Ends, IInv, TypeOK, OpenPlayIsCurrent, PlayIdSet
  <2> QED
    BY <2>1, <2>2, <2>3
<1>4. ASSUME NEW n \in PlayIds, plays[n].state = "open"
      PROVE  Lifecycle!Settles(n, plays[n], plays'[n])
  <2>1. plays[n] \in Play /\ plays'[n] \in Play
    BY <1>1 DEF IInv, TypeOK
  <2>2. \A p \in Peers : plays'[n].result[p] \subseteq {<<n, plays'[n].cast[p]>>}
    BY <1>1 DEF HistoryIsOwn
  <2> DEFINE gone   == [NoPlayRow EXCEPT !.state = "deleted"]
             lost   == [NoPlayRow EXCEPT !.state = "ended"]
             ended  == [plays[n] EXCEPT !.state = "ended"]
             frozen == [plays[n] EXCEPT !.state = "ended", !.result = Results(n)]
  <2>3. \/ plays'[n] = gone
        \/ plays'[n].state = "ended" /\ plays'[n].cast \in {plays[n].cast, NoPlayRow.cast}
    <3>1. CASE RecoverExpiredRoom
      BY <1>4, <2>1, <3>1 DEF RecoverExpiredRoom, Play
    <3>2. ASSUME Settles \/ Ends
          PROVE  status = "playing" /\ playId = n
      BY <1>4, <3>2 DEF Settles, Ends, IInv, OpenPlayIsCurrent
    <3> /\ ended.state = "ended" /\ ended.cast = plays[n].cast
        /\ frozen.state = "ended" /\ frozen.cast = plays[n].cast
        /\ lost.state = "ended" /\ lost.cast = NoPlayRow.cast
      BY <2>1, EndedRow
    <3>3. CASE Settles
      <4>1. playId = n /\ playId # NoPlay /\ plays' = PlaysSettled
        <5>1. playId = n /\ playId # NoPlay
          BY <3>2, <3>3, ConstantsAssumption DEF NoPlay, PlayIds
        <5> QED
          BY <3>3, <5>1 DEF Settles, RoomCloses
      <4>2. \E row \in {ended, gone} : plays' = [plays EXCEPT ![n] = row]
        BY <4>1 DEF PlaysSettled
      <4> HIDE DEF ended, gone, lost, frozen
      <4> QED
        BY <4>2 DEF IInv, TypeOK
    <3>4. CASE Ends
      <4>1. \E read \in BOOLEAN : plays' = PlayFinished(read)
        BY <3>4 DEF Ends, PlayEnds
      <4>2. \E row \in {gone, lost, frozen} : plays' = [plays EXCEPT ![n] = row]
        BY <3>2, <3>4, <4>1 DEF PlayFinished
      <4> HIDE DEF ended, gone, lost, frozen
      <4> QED
        BY <4>2 DEF IInv, TypeOK
    <3> QED
      BY <3>1, <3>3, <3>4
  <2> QED
    BY <2>1, <2>2, <2>3, SettlingRow
<1> QED
  BY <1>2, <1>3, <1>4 DEF Lifecycle!OpenPlaySettles

(* Every step of the room is a step of its life, or none. *)
LEMMA LifecycleStep ==
  ASSUME IInv, [Next]_vars
  PROVE  [Lifecycle!Next]_(Lifecycle!lifecycle)
<1> USE DEF Lifecycle!lifecycle, Lifecycle!Next
<1>1. CASE KeepsPhase \/ Crash
  BY <1>1 DEF KeepsPhase, Crash, durable
<1>2. CASE Initialize
  BY <1>2 DEF Initialize, Lifecycle!Opens, IInv, TypeOK, StatusAgreement
<1>3. CASE Opens
  <2>1. PICK n \in PlayIds, started \in BOOLEAN : NextPlay(n) /\ PlayOpens(n, started)
    BY <1>3 DEF Opens
  <2>2. CastOf(Connected(members)) \in [Peers -> Identities \cup {Nobody}]
    BY DEF CastOf, Connected, Taken, IInv, TypeOK, Seat
  <2>3. CastOf(Connected(members))[HostPeer] # Nobody
    BY <1>3, HostIsPeer, ConstantsAssumption
       DEF Opens, CastOf, Connected, Taken, IInv, TypeOK, Seat
  <2>4. room.status = "recruiting" /\ room'.status = "playing"
    BY <1>3, <2>1 DEF Opens, PlayOpens, IInv, StatusAgreement
  <2>5. plays[n].state = "none"
    BY <2>1 DEF NextPlay
  <2>6. plays' = [plays EXCEPT ![n] = [Lifecycle!Unplayed EXCEPT
                                    !.state = "open", !.cast = CastOf(Connected(members))]]
    BY <2>1, SameRows DEF PlayOpens
  <2> QED
    BY <2>2, <2>3, <2>4, <2>5, <2>6 DEF Lifecycle!Starts
<1>4. CASE Settles
  BY <1>4, SettlingSteps DEF Settles, RoomCloses, Lifecycle!Closes, IInv, StatusAgreement, Open
<1>5. CASE Ends
  BY <1>5, SettlingSteps DEF Ends, PlayEnds, Lifecycle!Ends, IInv, StatusAgreement, TypeOK
<1>6. CASE RecoverExpiredRoom
  BY <1>6, SettlingSteps DEF RecoverExpiredRoom, Lifecycle!Closes, IInv, DownLeavesOpen, Open
<1> QED
  BY <1>1, <1>2, <1>3, <1>4, <1>5, <1>6, PhaseSteps DEF IInv

(* What the database shows of a room is a life of RoomLifecycle, for every   *)
(* number of seats, players, plays and failures.                             *)
THEOREM RoomImplementsLifecycle == Spec => ImplementsLifecycle
<1>1. IInv /\ [Next]_vars => [Lifecycle!Next]_(Lifecycle!lifecycle)
  BY LifecycleStep
<1> QED
  BY <1>1, LifecycleInit, Invariance, PTL DEF Spec, ImplementsLifecycle, Lifecycle!Spec

=============================================================================
