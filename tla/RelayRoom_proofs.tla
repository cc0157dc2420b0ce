--------------------------- MODULE RelayRoom_proofs ---------------------------
(***************************************************************************)
(* The handlers of a room in a Durable Object, cut at their database calls: *)
(* what is proved holds for any number of players, plays and handlers that  *)
(* wait at a time, and whatever the order in which the calls take effect.   *)
(*                                                                         *)
(* The argument is about the waiting handlers.  Each keeps the status, the  *)
(* play and the scores it read, and what it kept is still good when its     *)
(* reply continues it: no handler but the one that closes the room leaves   *)
(* "closing", and the scores a handler carries were reported in its play.   *)
(***************************************************************************)
EXTENDS RelayRoom, TLAPS

(* Scores are of one play, or none. *)
OfPlay(of, k) == \A p \in Players : of[p] \in {NoPlay, k}

(* A waiting handler.  Without faults only a reservation is ever refused. *)
Sound(c) ==
    /\ c \in Call
    /\ c.by = "alarm" => c.op \in {"removeMember", "updatePlayerCount", "closeRoom"}
    /\ faults = 0 => /\ c.sent = "refused" => c.op = "reserveSeat"
                     /\ c.op \in {"readCast", "finishPlay"} => OfPlay(c.scores, c.play)

Calls == \A h \in Slots : call[h] # Idle => Sound(call[h])

(* Without faults the scores are of the play, and there are none while the room
   recruits. *)
ScoresFit ==
    faults = 0 => OfPlay(scores, play) /\ (status = "recruiting" => play = NoPlay)

Inv ==
    /\ TypeOK /\ call = [h \in Slots |-> call[h]] /\ Calls /\ ScoresFit
    /\ ClosingIsPending /\ HistoryIsOwn

-----------------------------------------------------------------------------
LEMMA InitSound == Init => Inv
<1> SUFFICES ASSUME Init PROVE Inv
  OBVIOUS
<1> USE RelayAssumption
<1>1. NoScores \in [Players -> Plays \cup {NoPlay}] /\ OfPlay(NoScores, NoPlay)
  BY DEF NoScores, OfPlay
<1>2. TypeOK
  BY <1>1 DEF Init, TypeOK, Players, Seats, NoPlay
<1>3. Calls /\ ScoresFit /\ HistoryIsOwn
  BY <1>1 DEF Init, Calls, ScoresFit, HistoryIsOwn
<1>4. ClosingIsPending
  BY DEF Init, ClosingIsPending
<1> QED
  BY <1>2, <1>3, <1>4 DEF Init, Inv

(* The fields of a call, and of one just asked for. *)
Fields(c) ==
    [op : {c.op}, who : {c.who}, play : {c.play}, scores : {c.scores}, back : {c.back},
     by : {c.by}, after : {c.after}, sent : {c.sent}]

LEMMA AskFields ==
  ASSUME NEW op \in Ops, NEW who \in SUBSET Players, NEW by \in {"event", "alarm", "admin"}
  PROVE  LET c == Ask(op, who, by)
         IN  /\ c \in Call /\ c.op = op /\ c.who = who /\ c.by = by /\ c.sent = "out"
             /\ c.play = NoPlay /\ c.scores = NoScores
<1>1. NoScores \in [Players -> Plays \cup {NoPlay}]
  BY DEF NoScores
<1>2. (IF InOrder THEN {h \in Busy : call[h].sent = "out"} ELSE {}) \in SUBSET Slots
  BY DEF Busy
<1> QED
  BY <1>1, <1>2 DEF Ask, Call

LEMMA CloseFields ==
  ASSUME NEW by \in {"event", "alarm", "admin"}, Open, play \in Plays \cup {NoPlay}
  PROVE  LET c == AskClose(by)
         IN  c \in Call /\ c.op = "closeRoom" /\ c.by = by /\ c.sent = "out"
<1> DEFINE c == Ask("closeRoom", {}, by)
<1>1. c \in Call /\ c.op = "closeRoom" /\ c.by = by /\ c.sent = "out"
  BY AskFields DEF Ops
<1> HIDE DEF c
<1>2. [c EXCEPT !.play = play, !.back = status] \in
        [op : {"closeRoom"}, who : SUBSET Players, play : Plays \cup {NoPlay},
         scores : [Players -> Plays \cup {NoPlay}], back : {"recruiting", "playing"},
         by : {by}, after : SUBSET Slots, sent : {"out"}]
  BY <1>1 DEF Call, Open
<1> DEFINE d == [c EXCEPT !.play = play, !.back = status]
<1> HIDE DEF d
<1>3. d \in Call /\ d.op = "closeRoom" /\ d.by = by /\ d.sent = "out"
  BY <1>2 DEF d, Call, Ops
<1> QED
  BY <1>3 DEF d, c, AskClose

(* A step of one slot that leaves the rest of what the calls rest on. *)
LEMMA SlotStep ==
  ASSUME Inv, NEW h \in Slots, NEW c, Send(h, c), c # Idle => Sound(c), UNCHANGED faults
  PROVE  /\ call' = [o \in Slots |-> call'[o]] /\ call'[h] = c
         /\ \A o \in Slots \ {h} : call'[o] = call[o]
         /\ Calls'
<1>1. /\ call' = [o \in Slots |-> call'[o]] /\ call'[h] = c
      /\ \A o \in Slots \ {h} : call'[o] = call[o]
  BY DEF Send, Inv
<1> QED
  BY <1>1 DEF Inv, Calls, Sound

(* The closing handler and the alarm's go on unless the step is theirs. *)
LEMMA OthersWait ==
  ASSUME Inv, NEW h \in Slots, \A o \in Slots \ {h} : call'[o] = call[o]
  PROVE  /\ h \notin Waiting("closeRoom") => Waiting("closeRoom") \subseteq Waiting("closeRoom")'
         /\ \A o \in Busy \ {h} : o \in Busy' /\ call'[o].by = call[o].by
BY DEF Waiting, Busy

(* What a handler's step must leave: the types of the live state, somebody who
   closes a closing room, and the alarm of an open one. *)
LiveTypes ==
    /\ status \in {"none", "recruiting", "playing", "closing", "closed"}
    /\ play \in Plays \cup {NoPlay}
    /\ seat \in [Players -> Seats]
    /\ scores \in [Players -> Plays \cup {NoPlay}]
    /\ sockets \subseteq Players
    /\ alarm \in BOOLEAN

Closes(h, c) ==
    status' = "closing" =>
        \/ c # Idle /\ c.op = "closeRoom"
        \/ status = "closing" /\ ~(h \in Busy /\ call[h].op = "closeRoom")

Watches(h, c) ==
    Open' =>
        \/ alarm'
        \/ c # Idle /\ c.by = "alarm"
        \/ Open /\ (alarm => alarm') /\ ~(h \in Busy /\ call[h].by = "alarm")

LEMMA SlotKeepsInv ==
  ASSUME Inv, NEW h \in Slots, NEW c, Send(h, c), c # Idle => Sound(c),
         UNCHANGED <<stored, faults>>, LiveTypes', ScoresFit', Closes(h, c)
  PROVE  Inv'
<1>1. /\ call' = [o \in Slots |-> call'[o]] /\ call'[h] = c
      /\ \A o \in Slots \ {h} : call'[o] = call[o]
      /\ Calls'
  BY SlotStep
<1>2. TypeOK'
  BY <1>1 DEF Inv, TypeOK, LiveTypes, stored, Calls, Sound
<1>3. HistoryIsOwn'
  BY DEF Inv, HistoryIsOwn, stored
<1>4. ClosingIsPending'
  <2> SUFFICES ASSUME status' = "closing" PROVE Waiting("closeRoom")' # {}
    BY DEF ClosingIsPending
  <2>1. CASE c # Idle /\ c.op = "closeRoom"
    BY <1>1, <2>1 DEF Waiting, Busy
  <2>2. CASE status = "closing" /\ ~(h \in Busy /\ call[h].op = "closeRoom")
    <3>1. PICK o \in Waiting("closeRoom") : TRUE
      BY <2>2 DEF Inv, ClosingIsPending
    <3> QED
      BY <1>1, <2>2, <3>1 DEF Waiting, Busy
  <2> QED
    BY <2>1, <2>2 DEF Closes
<1> QED
  BY <1>1, <1>2, <1>3, <1>4 DEF Inv

(* No step but one leaves an open room unwatched. *)
Kept == Inv' /\ (Unwatched' => Unwatched \/ (~Open /\ \E h \in Slots : StartTakenBack(h)))

LEMMA SlotKeeps ==
  ASSUME Inv, NEW h \in Slots, NEW c, Send(h, c), c # Idle => Sound(c),
         UNCHANGED <<stored, faults>>, LiveTypes', ScoresFit', Closes(h, c), Watches(h, c)
  PROVE  Kept
<1>1. call'[h] = c /\ \A o \in Slots \ {h} : call'[o] = call[o]
  BY SlotStep
<1>2. Unwatched' => Unwatched
  <2> SUFFICES ASSUME Open', ~alarm', \A o \in Busy' : call'[o].by # "alarm"
               PROVE  Unwatched
    BY DEF Unwatched
  <2>1. ~(c # Idle /\ c.by = "alarm")
    BY <1>1 DEF Busy
  <2>2. Open /\ ~alarm /\ ~(h \in Busy /\ call[h].by = "alarm")
    BY <2>1 DEF Watches
  <2>3. \A o \in Busy \ {h} : o \in Busy' /\ call'[o] = call[o]
    BY <1>1 DEF Busy
  <2> QED
    BY <2>2, <2>3 DEF Unwatched
<1> QED
  BY <1>2, SlotKeepsInv DEF Kept

(* The live state has its types, and a call that waits is sound. *)
LEMMA Facts ==
  ASSUME Inv
  PROVE  /\ LiveTypes /\ ScoresFit /\ faults \in Nat
         /\ \A h \in Busy : Sound(call[h]) /\ call[h] \in Call
BY RelayAssumption DEF Inv, TypeOK, LiveTypes, Calls, Busy, Sound

LEMMA AskSound ==
  ASSUME NEW op \in Ops \ {"readCast", "finishPlay"}, NEW who \in SUBSET Players,
         NEW by \in {"event", "alarm", "admin"},
         by = "alarm" => op \in {"removeMember", "updatePlayerCount", "closeRoom"}
  PROVE  LET c == Ask(op, who, by) IN c # Idle /\ Sound(c) /\ c.op = op /\ c.by = by
<1> DEFINE c == Ask(op, who, by)
<1>1. c \in Call /\ c.op = op /\ c.who = who /\ c.by = by /\ c.sent = "out"
  BY AskFields
<1> HIDE DEF c
<1>2. c # Idle /\ Sound(c)
  BY <1>1, RelayAssumption DEF Sound
<1> QED
  BY <1>1, <1>2 DEF c

LEMMA CloseSound ==
  ASSUME Inv, Open, NEW by \in {"event", "alarm", "admin"}
  PROVE  LET c == AskClose(by) IN c # Idle /\ Sound(c) /\ c.op = "closeRoom" /\ c.by = by
<1> DEFINE c == AskClose(by)
<1>1. c \in Call /\ c.op = "closeRoom" /\ c.by = by /\ c.sent = "out"
  BY CloseFields DEF Inv, TypeOK
<1> HIDE DEF c
<1>2. c # Idle /\ Sound(c)
  BY <1>1, RelayAssumption DEF Sound
<1> QED
  BY <1>1, <1>2 DEF c

-----------------------------------------------------------------------------
(* Events that reach the object. *)

LEMMA ReserveKeeps ==
  ASSUME Inv, NEW h \in Slots, NEW p \in Players, Reserve(h, p)
  PROVE  Kept
<1>1. LiveTypes' /\ ScoresFit' /\ UNCHANGED <<stored, faults>>
  BY Facts DEF Reserve, LiveTypes, ScoresFit, Seats
<1>2. call[h] = Idle /\ h \notin Busy /\ UNCHANGED <<status, alarm>>
  BY DEF Reserve, Event, Busy
<1>3. CASE Send(h, Ask("reserveSeat", {p}, "event"))
  <2> DEFINE c == Ask("reserveSeat", {p}, "event")
  <2>1. c # Idle /\ Sound(c)
    BY AskSound DEF Ops
  <2> HIDE DEF c
  <2>2. Closes(h, c) /\ Watches(h, c)
    BY <1>2 DEF Closes, Watches, Open
  <2>3. Send(h, c)
    BY <1>3 DEF c
  <2> QED
    BY <1>1, <2>1, <2>2, <2>3, SlotKeeps
<1>4. CASE UNCHANGED call
  <2>1. Send(h, Idle)
    BY <1>2, <1>4 DEF Send, Inv
  <2>2. Closes(h, Idle) /\ Watches(h, Idle)
    BY <1>2 DEF Closes, Watches, Open
  <2> QED
    BY <1>1, <2>1, <2>2, SlotKeeps
<1> QED
  BY <1>3, <1>4 DEF Reserve

LEMMA ConnectKeeps ==
  ASSUME Inv, NEW h \in Slots, NEW p \in Players, Connect(h, p)
  PROVE  Kept
<1> DEFINE c == Ask("markConnected", {p}, "event")
<1>1. LiveTypes' /\ ScoresFit' /\ UNCHANGED <<stored, faults>>
  BY Facts DEF Connect, LiveTypes, ScoresFit, Seats
<1>2. c # Idle /\ Sound(c) /\ Send(h, c)
  BY AskSound DEF Ops, Connect
<1> HIDE DEF c
<1>3. Closes(h, c) /\ Watches(h, c)
  BY DEF Connect, Event, Busy, Closes, Watches, Open
<1> QED
  BY <1>1, <1>2, <1>3, SlotKeeps

LEMMA SocketClosesKeeps ==
  ASSUME Inv, NEW h \in Slots, NEW p \in Players, SocketCloses(h, p)
  PROVE  Kept
<1>1. LiveTypes' /\ ScoresFit' /\ UNCHANGED <<stored, faults>> /\ h \notin Busy
  BY Facts DEF SocketCloses, Event, Busy, LiveTypes, ScoresFit, Seats
<1>2. ASSUME NEW c, c # Idle, Sound(c), Send(h, c), c.op = "closeRoom" \/ UNCHANGED status, alarm'
      PROVE  Kept
  BY <1>1, <1>2, SlotKeeps DEF Closes, Watches
<1>3. CASE UNCHANGED <<status, alarm, call>>
  <2>1. Send(h, Idle)
    BY <1>1, <1>3 DEF Busy, Send, Inv
  <2>2. Closes(h, Idle) /\ Watches(h, Idle)
    BY <1>1, <1>3 DEF Closes, Watches, Open
  <2> QED
    BY <1>1, <2>1, <2>2, SlotKeeps
<1>4. CASE Open /\ alarm' = TRUE /\ Send(h, AskClose("event"))
  BY <1>2, <1>4, CloseSound
<1>5. CASE alarm' = TRUE /\ UNCHANGED status /\ Send(h, Ask("removeMember", {p}, "event"))
  BY <1>2, <1>5, AskSound DEF Ops
<1> QED
  BY <1>3, <1>4, <1>5 DEF SocketCloses

LEMMA AdminKeeps ==
  ASSUME Inv, NEW h \in Slots, ForceClose(h) \/ \E p \in Players : BanPlayer(h, p)
  PROVE  Kept
<1>1. LiveTypes' /\ ScoresFit' /\ UNCHANGED <<stored, faults, alarm>> /\ h \notin Busy /\ Open
  BY Facts DEF ForceClose, BanPlayer, Event, Busy, LiveTypes, ScoresFit
<1>2. ASSUME NEW c, c # Idle, Sound(c), Send(h, c), c.op = "closeRoom" \/ UNCHANGED status
      PROVE  Kept
  BY <1>1, <1>2, SlotKeeps DEF Closes, Watches, Open
<1>3. CASE Send(h, AskClose("admin"))
  BY <1>1, <1>2, <1>3, CloseSound
<1>4. ASSUME NEW p \in Players, UNCHANGED status, Send(h, Ask("banRemoveMember", {p}, "admin"))
      PROVE  Kept
  BY <1>2, <1>4, AskSound DEF Ops
<1> QED
  BY <1>3, <1>4 DEF ForceClose, BanPlayer

(* A call that carries a play and scores. *)
LEMMA CarrySound ==
  ASSUME NEW op \in Ops, NEW k \in Plays \cup {NoPlay},
         NEW of \in [Players -> Plays \cup {NoPlay}],
         faults = 0 /\ op \in {"readCast", "finishPlay"} => OfPlay(of, k),
         NEW c, c = [Ask(op, {}, "event") EXCEPT !.play = k, !.scores = of]
  PROVE  c # Idle /\ Sound(c)
<1> DEFINE a == Ask(op, {}, "event")
<1>1. a \in Call /\ a.op = op /\ a.by = "event" /\ a.sent = "out"
  BY AskFields
<1>2. c = [a EXCEPT !.play = k, !.scores = of]
  OBVIOUS
<1> HIDE DEF a
<1>3. /\ c \in Call
      /\ c.op = op /\ c.by = "event" /\ c.sent = "out" /\ c.play = k /\ c.scores = of
  BY <1>1, <1>2 DEF Call
<1> QED
  BY <1>3, RelayAssumption DEF Sound

LEMMA StartPlayKeeps ==
  ASSUME Inv, NEW h \in Slots, NEW k \in Plays, StartPlay(h, k)
  PROVE  Kept
<1> DEFINE who == {p \in Players : seat[p] \in {"reserved", "left"}}
           c == [Ask("startPlay", who, "event") EXCEPT !.play = k]
           a == Ask("startPlay", who, "event")
<1>1. LiveTypes' /\ UNCHANGED <<stored, faults, alarm>> /\ h \notin Busy /\ Open
      /\ status = "recruiting" /\ status' = "playing" /\ play' = k /\ UNCHANGED scores
  BY Facts DEF StartPlay, Event, Busy, Open, LiveTypes
<1>2. ScoresFit'
  BY <1>1, Facts DEF ScoresFit, OfPlay
<1>3. a \in Call /\ a.op = "startPlay" /\ a.by = "event" /\ a.sent = "out"
  BY AskFields DEF Ops
<1>4. Send(h, c)
  BY DEF StartPlay
<1> HIDE DEF a
<1>5. c = [a EXCEPT !.play = k]
  BY DEF a
<1> HIDE DEF c
<1>6. c \in Call /\ c.op = "startPlay" /\ c.by = "event" /\ c.sent = "out"
  BY <1>3, <1>5 DEF Call
<1>7. c # Idle /\ Sound(c)
  BY <1>6, RelayAssumption DEF Sound
<1>8. Closes(h, c) /\ Watches(h, c)
  BY <1>1 DEF Closes, Watches
<1> QED
  BY <1>1, <1>2, <1>4, <1>7, <1>8, SlotKeeps

(* The host ends the play: first its cast is read, then the play finished. *)
LEMMA EndPlayKeeps ==
  ASSUME Inv, NEW h \in Slots, EndPlay(h) \/ CastRead(h)
  PROVE  Kept
<1>1. LiveTypes' /\ ScoresFit' /\ UNCHANGED <<stored, faults, alarm, status>>
      /\ ~(h \in Busy /\ (call[h].by = "alarm" \/ call[h].op = "closeRoom"))
  BY Facts DEF EndPlay, CastRead, Event, Answered, Waiting, Busy, LiveTypes, ScoresFit, live, Sound
<1>2. ASSUME NEW c, c # Idle, Sound(c), Send(h, c)
      PROVE  Kept
  BY <1>1, <1>2, SlotKeeps DEF Closes, Watches, Open
<1>3. CASE EndPlay(h)
  <2>1. faults = 0 => OfPlay(scores, play)
    BY Facts DEF ScoresFit
  <2> DEFINE c == [Ask("readCast", {}, "event") EXCEPT !.play = play, !.scores = scores]
  <2>2. Send(h, c)
    BY <1>3 DEF EndPlay
  <2>3. "readCast" \in Ops /\ play \in Plays \cup {NoPlay}
        /\ scores \in [Players -> Plays \cup {NoPlay}]
    BY Facts DEF Ops, LiveTypes
  <2>4. c = [Ask("readCast", {}, "event") EXCEPT !.play = play, !.scores = scores]
    OBVIOUS
  <2> HIDE DEF c
  <2>5. c # Idle /\ Sound(c)
    BY <2>1, <2>3, <2>4, CarrySound
  <2> QED
    BY <1>2, <2>2, <2>5
<1>4. CASE CastRead(h)
  <2> DEFINE of == IF call[h].sent = "stored" THEN call[h].scores ELSE NoScores
  <2>1. Sound(call[h]) /\ call[h] \in Call /\ call[h].op = "readCast"
    BY <1>4, Facts DEF CastRead, Answered, Waiting, Busy
  <2>2. of \in [Players -> Plays \cup {NoPlay}] /\ call[h].play \in Plays \cup {NoPlay}
    BY <2>1 DEF Call, NoScores
  <2>3. faults = 0 => OfPlay(of, call[h].play)
    BY <2>1 DEF Sound, OfPlay, NoScores
  <2> DEFINE c == [Ask("finishPlay", {}, "event") EXCEPT !.play = call[h].play, !.scores = of]
  <2>4. Send(h, c)
    BY <1>4 DEF CastRead
  <2> HIDE DEF of
  <2>5. c = [Ask("finishPlay", {}, "event") EXCEPT !.play = call[h].play, !.scores = of]
    OBVIOUS
  <2>6. "finishPlay" \in Ops
    BY DEF Ops
  <2> HIDE DEF c
  <2>7. c # Idle /\ Sound(c)
    BY <2>2, <2>3, <2>5, <2>6, CarrySound
  <2> QED
    BY <1>2, <2>4, <2>7
<1> QED
  BY <1>3, <1>4

LEMMA AlarmKeeps ==
  ASSUME Inv, NEW h \in Slots, Alarm(h)
  PROVE  Kept
<1>1. LiveTypes' /\ ScoresFit' /\ UNCHANGED <<stored, faults>> /\ h \notin Busy
  BY Facts DEF Alarm, Event, Busy, LiveTypes, ScoresFit
<1>2. ASSUME NEW c, c # Idle, Sound(c), Send(h, c), c.by = "alarm",
             c.op = "closeRoom" \/ UNCHANGED status
      PROVE  Kept
  BY <1>1, <1>2, SlotKeeps DEF Closes, Watches
<1>3. CASE UNCHANGED <<status, call>> /\ ~Open
  <2>1. Send(h, Idle)
    BY <1>1, <1>3 DEF Busy, Send, Inv
  <2>2. Closes(h, Idle) /\ Watches(h, Idle)
    BY <1>1, <1>3 DEF Closes, Watches, Open
  <2> QED
    BY <1>1, <2>1, <2>2, SlotKeeps
<1>4. CASE SweepNext(h, Left) /\ UNCHANGED status
  BY <1>2, <1>4, AskSound DEF SweepNext, Left, Ops
<1>5. CASE Open /\ Send(h, AskClose("alarm"))
  BY <1>2, <1>5, CloseSound
<1> QED
  BY <1>3, <1>4, <1>5 DEF Alarm, Open

-----------------------------------------------------------------------------
(* Replies that continue a handler. *)

(* A handler that ends, and is neither the closing one nor the alarm's. *)
LEMMA DoneKeeps ==
  ASSUME Inv, NEW h \in Slots, Done(h), h \in Busy, call[h].op # "closeRoom", call[h].by # "alarm",
         UNCHANGED <<stored, faults>>, LiveTypes', ScoresFit', alarm => alarm',
         status' \in {"recruiting", "playing"} => Open, status' = "closing" => status = "closing"
  PROVE  Kept
<1>1. Closes(h, Idle) /\ Watches(h, Idle)
  BY DEF Closes, Watches, Open
<1> QED
  BY <1>1, SlotKeeps DEF Done, Send

LEMMA SeatReplyKeeps ==
  ASSUME Inv, NEW h \in Slots,
         Reserved(h) \/ ConnectCompletes(h) \/ MemberRemoved(h) \/ Banned(h)
  PROVE  Kept
<1>1. /\ Done(h) /\ h \in Busy /\ call[h].op # "closeRoom" /\ call[h].by # "alarm"
      /\ UNCHANGED <<stored, faults, status, play, scores>> /\ (alarm => alarm')
  BY Facts DEF Reserved, ConnectCompletes, MemberRemoved, Banned, Answered, Waiting, Sound
<1>2. ASSUME NEW ps PROVE Without(ps) \in [Players -> Seats]
  BY Facts DEF Without, LiveTypes, Seats
<1>3. LiveTypes'
  BY <1>1, <1>2, Facts DEF Reserved, ConnectCompletes, MemberRemoved, Banned, LiveTypes, Seats
<1>4. ScoresFit'
  BY <1>1, Facts DEF ScoresFit
<1> QED
  BY <1>1, <1>3, <1>4, DoneKeeps DEF Open

LEMMA PlayReplyKeeps ==
  ASSUME Inv, NEW h \in Slots, PlayStarted(h) \/ PlayFinished(h)
  PROVE  Kept
<1>1. /\ h \in Busy /\ Sound(call[h]) /\ call[h].op \in {"startPlay", "finishPlay"}
      /\ call[h].by # "alarm" /\ Done(h) /\ UNCHANGED <<stored, faults, alarm>>
  BY Facts DEF PlayStarted, PlayFinished, Answered, Waiting, Sound
<1>2. NoScores \in [Players -> Plays \cup {NoPlay}] /\ OfPlay(NoScores, NoPlay)
  BY DEF NoScores, OfPlay
<1>3. LiveTypes'
  BY <1>2, Facts DEF PlayStarted, PlayFinished, LiveTypes, Without, Seats
<1>4. CASE UNCHANGED <<status, play, scores>>
  BY <1>1, <1>3, <1>4, Facts, DoneKeeps DEF ScoresFit, Open
<1>5. CASE PlayFinished(h) /\ status = "playing" /\ status' = "recruiting"
           /\ play' = NoPlay /\ scores' = NoScores
  BY <1>1, <1>2, <1>3, <1>5, DoneKeeps DEF ScoresFit, Open
<1>6. CASE Answered(h, "startPlay", "refused") /\ status' = "recruiting"
  <2>1. faults # 0 /\ ScoresFit'
    BY <1>1, <1>6 DEF Answered, Waiting, Sound, ScoresFit
  <2>2. Closes(h, Idle) /\ (Open => Watches(h, Idle))
    BY <1>1, <1>6 DEF Closes, Watches
  <2>3. Send(h, Idle)
    BY <1>1 DEF Done, Send
  <2>4. Inv'
    BY <1>1, <1>3, <2>1, <2>2, <2>3, SlotKeepsInv
  <2>5. CASE Open
    BY <1>1, <1>3, <2>1, <2>2, <2>3, <2>5, SlotKeeps
  <2>6. CASE ~Open
    BY <1>6, <2>4, <2>6 DEF Kept, StartTakenBack, PlayStarted, PlayFinished, Answered, Waiting
  <2> QED
    BY <2>5, <2>6
<1>7. CASE PlayStarted(h)
  BY <1>4, <1>6, <1>7 DEF PlayStarted
<1>8. CASE PlayFinished(h)
  BY <1>4, <1>5, <1>8 DEF PlayFinished
<1> QED
  BY <1>7, <1>8

(* The reply of the closing write: closed, or open again with its alarm. *)
LEMMA RoomClosedKeeps ==
  ASSUME Inv, NEW h \in Slots, RoomClosed(h)
  PROVE  Kept
<1>1. h \in Busy /\ Sound(call[h]) /\ call[h] \in Call /\ call[h].op = "closeRoom"
      /\ Send(h, Idle) /\ UNCHANGED <<stored, faults>>
  BY Facts DEF RoomClosed, Answered, Waiting, Done, Send
<1>2. NoScores \in [Players -> Plays \cup {NoPlay}] /\ OfPlay(NoScores, NoPlay)
  BY DEF NoScores, OfPlay
<1>3. CASE Answered(h, "closeRoom", "stored") /\ status' = "closed"
           /\ play' = NoPlay /\ scores' = NoScores /\ UNCHANGED alarm
  <2>1. LiveTypes' /\ ScoresFit'
    BY <1>2, <1>3, Facts DEF RoomClosed, LiveTypes, ScoresFit, Seats
  <2>2. Closes(h, Idle) /\ Watches(h, Idle)
    BY <1>3 DEF Closes, Watches, Open
  <2> QED
    BY <1>1, <2>1, <2>2, SlotKeeps
<1>4. CASE Answered(h, "closeRoom", "refused") /\ status' = call[h].back /\ alarm' = TRUE
           /\ UNCHANGED <<play, scores, seat, sockets>>
  <2>1. faults # 0
    BY <1>1, <1>4 DEF Answered, Sound
  <2>2. call[h].back \in {"recruiting", "playing"}
    BY <1>1 DEF Call
  <2>3. LiveTypes' /\ ScoresFit'
    BY <1>1, <1>4, <2>1, <2>2, Facts DEF LiveTypes, ScoresFit
  <2>4. Closes(h, Idle) /\ Watches(h, Idle)
    BY <1>4, <2>2 DEF Closes, Watches
  <2> QED
    BY <1>1, <2>3, <2>4, SlotKeeps
<1> QED
  BY <1>3, <1>4 DEF RoomClosed

LEMMA SweptKeeps ==
  ASSUME Inv, NEW h \in Slots, Swept(h)
  PROVE  Kept
<1>1. h \in Busy /\ call[h] \in Call /\ call[h].op # "closeRoom"
      /\ UNCHANGED <<stored, faults, status, play, scores, sockets>>
  BY Facts DEF Swept, Answered, Waiting
<1>2. LiveTypes' /\ ScoresFit'
  BY <1>1, Facts DEF Swept, LiveTypes, ScoresFit, Without, Seats
<1>3. ASSUME NEW c, c # Idle => Sound(c), Send(h, c), alarm' \/ (c # Idle /\ c.by = "alarm")
      PROVE  Kept
  BY <1>1, <1>2, <1>3, SlotKeeps DEF Closes, Watches
<1>4. CASE Done(h) /\ alarm' = TRUE
  BY <1>3, <1>4 DEF Done, Send
<1>5. CASE SweepNext(h, call[h].who \ {Subject(h)})
  <2> DEFINE ps == call[h].who \ {Subject(h)}
  <2>1. ps \in SUBSET Players
    BY <1>1 DEF Call
  <2> HIDE DEF ps
  <2>2. SweepNext(h, ps)
    BY <1>5 DEF ps
  <2> QED
    BY <1>3, <2>1, <2>2, AskSound DEF SweepNext, Ops
<1> QED
  BY <1>4, <1>5 DEF Swept

-----------------------------------------------------------------------------
(* Calls that take effect, and steps of no handler. *)

LEMMA BackSound ==
  ASSUME Inv, NEW h \in Slots, NEW how \in {"stored", "refused"}, Out(h), Back(h, how),
         faults' \in {faults, faults + 1},
         how = "refused" /\ faults' = 0 => call[h].op = "reserveSeat"
  PROVE  /\ call' = [o \in Slots |-> call'[o]] /\ Calls'
         /\ \A o \in Slots : (o \in Busy <=> o \in Busy')
                             /\ (o \in Busy => call'[o].op = call[o].op /\ call'[o].by = call[o].by)
<1>1. call' = [o \in Slots |-> call'[o]]
  BY DEF Back
<1>2. ASSUME NEW o \in Slots, call[o] = Idle PROVE call'[o] = Idle
  BY <1>2 DEF Back, Out, Busy
<1>3. ASSUME NEW o \in Slots, call[o] # Idle
      PROVE  /\ Sound(call[o])' /\ call'[o] # Idle
             /\ call'[o].op = call[o].op /\ call'[o].by = call[o].by
  <2> DEFINE d == call'[o]
  <2>1. call[o] \in Call /\ Sound(call[o]) /\ faults \in Nat
    BY <1>3, Facts DEF Busy
  <2>2. d \in [op : {call[o].op}, who : {call[o].who}, play : {call[o].play},
               scores : {call[o].scores}, back : {call[o].back}, by : {call[o].by},
               after : SUBSET Slots, sent : IF o = h THEN {how} ELSE {call[o].sent}]
    BY <1>3, <2>1 DEF Back, Call
  <2> HIDE DEF d
  <2>3. d \in Call
    BY <2>1, <2>2 DEF Call
  <2>4. /\ d.op = call[o].op /\ d.by = call[o].by /\ d.play = call[o].play
        /\ d.scores = call[o].scores /\ d.sent = IF o = h THEN how ELSE call[o].sent
    BY <2>2
  <2>5. d # Idle
    BY <2>3, RelayAssumption
  <2>6. faults' = 0 => faults = 0
    BY <2>1
  <2>7. /\ d.by = "alarm" => d.op \in {"removeMember", "updatePlayerCount", "closeRoom"}
        /\ faults' = 0 => /\ d.sent = "refused" => d.op = "reserveSeat"
                          /\ d.op \in {"readCast", "finishPlay"} => OfPlay(d.scores, d.play)
    BY <2>1, <2>4, <2>6 DEF Sound
  <2> QED
    BY <2>3, <2>4, <2>5, <2>7 DEF d, Sound
<1> QED
  BY <1>1, <1>2, <1>3 DEF Calls, Busy

(* A finished play is written with scores reported in it. *)
LEMMA EffectKeeps ==
  ASSUME Inv, NEW h \in Slots, h \in Busy, Effect(h) \/ UNCHANGED stored,
         faults' \in {faults, faults + 1}
  PROVE  /\ HistoryIsOwn'
         /\ room' \in {"recruiting", "playing", "closed"}
         /\ rows' \in [Players -> {"none", "reserved", "connected"}]
         /\ plays' \in [Plays -> {"none", "playing", "ended"}]
         /\ history' \in [Plays -> SUBSET (Players \X Plays)]
<1> DEFINE c == call[h]
           written == {<<q, c.scores[q]>> : q \in {r \in Players : c.scores[r] # NoPlay}}
<1>1. c \in Call /\ Sound(c) /\ faults \in Nat
  BY Facts
<1>2. /\ room \in {"recruiting", "playing", "closed"}
      /\ rows \in [Players -> {"none", "reserved", "connected"}]
      /\ plays \in [Plays -> {"none", "playing", "ended"}]
      /\ history \in [Plays -> SUBSET (Players \X Plays)] /\ HistoryIsOwn
  BY DEF Inv, TypeOK
<1>3. written \in SUBSET (Players \X Plays)
  BY <1>1 DEF Call, NoPlay
<1>4. c.op = "finishPlay" /\ faults = 0 => \A e \in written : e[2] = c.play
  BY <1>1 DEF Sound, OfPlay
<1>5. /\ room' \in {"recruiting", "playing", "closed"}
      /\ rows' \in [Players -> {"none", "reserved", "connected"}]
      /\ plays' \in [Plays -> {"none", "playing", "ended"}]
  BY <1>2 DEF Effect, stored
<1> HIDE DEF written
<1>6. history' = history \/ (c.op = "finishPlay" /\ history' = [history EXCEPT ![c.play] = written])
  BY DEF Effect, stored, written
<1> HIDE DEF c
<1>7. history' \in [Plays -> SUBSET (Players \X Plays)] /\ HistoryIsOwn'
  BY <1>1, <1>2, <1>3, <1>4, <1>6 DEF HistoryIsOwn
<1> QED
  BY <1>5, <1>7

LEMMA DatabaseKeeps ==
  ASSUME Inv, NEW h \in Slots, Store(h) \/ Reject(h) \/ Falter(h)
  PROVE  Kept
<1>1. PICK how \in {"stored", "refused"} :
        /\ Out(h) /\ Back(h, how) /\ faults' \in {faults, faults + 1}
        /\ how = "refused" /\ faults' = 0 => call[h].op = "reserveSeat"
        /\ Effect(h) \/ UNCHANGED stored
        /\ UNCHANGED live /\ faults' \in 0..MaxFaults
  BY Facts, RelayAssumption DEF Store, Reject, Falter, Duplicate, Inv, TypeOK
<1>2. /\ call' = [o \in Slots |-> call'[o]] /\ Calls'
      /\ \A o \in Slots : (o \in Busy <=> o \in Busy')
                          /\ (o \in Busy => call'[o].op = call[o].op /\ call'[o].by = call[o].by)
  BY <1>1, BackSound
<1>3. HistoryIsOwn' /\ TypeOK'
  BY <1>1, <1>2, EffectKeeps, Facts DEF Out, TypeOK, LiveTypes, live, Calls, Sound
<1>4. ScoresFit' /\ (faults' = 0 => faults = 0) /\ UNCHANGED <<status, alarm>>
  BY <1>1, Facts DEF ScoresFit, live
<1>5. ClosingIsPending'
  BY <1>2, <1>4 DEF Inv, ClosingIsPending, Waiting, Busy
<1>6. Unwatched' => Unwatched
  BY <1>2, <1>4 DEF Unwatched, Open, Busy
<1> QED
  BY <1>2, <1>3, <1>4, <1>5, <1>6 DEF Inv, Kept

LEMMA NobodyKeeps ==
  ASSUME Inv, UNCHANGED <<status, play, sockets, alarm, stored, call, faults>>,
         seat' \in [Players -> Seats],
         scores' \in [Players -> Plays \cup {NoPlay}], ScoresFit'
  PROVE  Kept
<1>1. TypeOK'
  BY DEF Inv, TypeOK, stored
<1>2. Calls' /\ ClosingIsPending' /\ HistoryIsOwn' /\ (Unwatched' => Unwatched)
  BY DEF Inv, Calls, Sound, ClosingIsPending, Waiting, Busy, Unwatched, Open, HistoryIsOwn, stored
<1> QED
  BY <1>1, <1>2 DEF Inv, Kept

LEMMA NextKeeps == Inv /\ [Next]_vars => Kept
<1> SUFFICES ASSUME Inv, [Next]_vars PROVE Kept
  OBVIOUS
<1>1. ASSUME NEW h \in Slots, Receive(h) PROVE Kept
  BY <1>1, ReserveKeeps, ConnectKeeps, SocketClosesKeeps, AdminKeeps, StartPlayKeeps,
     EndPlayKeeps, AlarmKeeps DEF Receive
<1>2. ASSUME NEW h \in Slots, Resume(h) PROVE Kept
  BY <1>2, SeatReplyKeeps, EndPlayKeeps, PlayReplyKeeps, RoomClosedKeeps, SweptKeeps DEF Resume
<1>3. ASSUME NEW h \in Slots, Store(h) \/ Reject(h) \/ Falter(h) PROVE Kept
  BY <1>3, DatabaseKeeps
<1>4. ASSUME NEW p \in Players, RecordScore(p) PROVE Kept
  <2>1. scores' \in [Players -> Plays \cup {NoPlay}] /\ ScoresFit'
    BY <1>4, Facts DEF RecordScore, LiveTypes, ScoresFit, OfPlay
  <2> QED
    BY <1>4, <2>1, Facts, NobodyKeeps DEF RecordScore, LiveTypes
<1>5. ASSUME NEW p \in Guests, ReservationAges(p) PROVE Kept
  <2>1. seat' \in [Players -> Seats] /\ ScoresFit'
    BY <1>5, Facts DEF ReservationAges, LiveTypes, ScoresFit, Seats
  <2> QED
    BY <1>5, <2>1, Facts, NobodyKeeps DEF ReservationAges, LiveTypes
<1>6. CASE UNCHANGED vars
  BY <1>6, Facts, NobodyKeeps DEF vars, stored, LiveTypes, ScoresFit
<1> QED
  BY <1>1, <1>2, <1>3, <1>4, <1>5, <1>6, RelayAssumption DEF Next, Players

LEMMA Invariance == Spec => []Inv
<1>1. Inv /\ [Next]_vars => Inv'
  BY NextKeeps DEF Kept
<1> QED
  BY <1>1, InitSound, PTL DEF Spec

(* The state has its types. *)
THEOREM TypeCorrect == Spec => []TypeOK
<1>1. Inv => TypeOK
  BY DEF Inv
<1> QED
  BY <1>1, Invariance, PTL

(* A room is closing only while a handler waits for the write that closes it
   (engine.ts closeRoom): for any number of handlers and faults. *)
THEOREM ClosingHasItsWrite == Spec => []ClosingIsPending
<1>1. Inv => ClosingIsPending
  BY DEF Inv
<1> QED
  BY <1>1, Invariance, PTL

(* The history of a play holds only scores reported in it, whichever handlers
   end it and in whatever order their calls take effect (engine.ts endPlay). *)
THEOREM HistoryKeepsPlaysApart == Spec => []HistoryIsOwn
<1>1. Inv => HistoryIsOwn
  BY DEF Inv
<1> QED
  BY <1>1, Invariance, PTL

(* An open room has its alarm set or in progress (engine.ts alarm), whatever
   fails, until the reply of a failed startPlay opens one that is being closed
   or has been. *)
THEOREM OpenRoomHasAnAlarm == Spec => OpenRoomIsWatched
<1>1. Init => ~Unwatched
  BY DEF Init, Unwatched
<1>2. Inv /\ [Next]_vars =>
         [Unwatched' => Unwatched \/ (~Open /\ \E h \in Slots : StartTakenBack(h))]_vars
  BY NextKeeps DEF Kept
<1> QED
  BY <1>1, <1>2, Invariance, PTL DEF Spec, OpenRoomIsWatched

(* No reply opens a closed room again but that of a failed startPlay and that of
   another failed close, which put back the status their handlers had found or
   want: the other handlers look at the status first or leave it alone. *)
THEOREM CloseIsFinal == Spec => LiveCloseIsFinal
<1>1. Inv /\ [Next]_vars => [status = "closed" => status' = "closed" \/ \E h \in Slots : StartTakenBack(h) \/ CloseTakenBack(h)]_vars
  <2> DEFINE PutBack == \E h \in Slots : StartTakenBack(h) \/ CloseTakenBack(h)
  <2> SUFFICES ASSUME Next, status = "closed" PROVE status' = "closed" \/ PutBack
    BY DEF vars
  <2>1. ASSUME NEW h \in Slots, Receive(h) PROVE status' = "closed"
    BY <2>1 DEF Receive, EndPlay, ForceClose, Alarm, StartPlay, Reserve, Connect, SocketCloses,
       BanPlayer, Open, Speaks, live
  <2>2. ASSUME NEW h \in Slots, PlayStarted(h) PROVE status' = "closed" \/ PutBack
    BY <2>2 DEF PlayStarted, StartTakenBack
  <2>3. ASSUME NEW h \in Slots, RoomClosed(h) PROVE status' = "closed" \/ PutBack
    BY <2>3 DEF RoomClosed, CloseTakenBack
  <2>4. ASSUME NEW h \in Slots, Resume(h), ~PlayStarted(h), ~RoomClosed(h) PROVE status' = "closed"
    BY <2>4 DEF Resume, Reserved, ConnectCompletes, MemberRemoved, Banned, CastRead,
       PlayFinished, Swept, live
  <2> QED
    BY <2>1, <2>2, <2>3, <2>4 DEF Next, Store, Reject, Falter, RecordScore, ReservationAges, live
<1> QED
  BY <1>1, Invariance, PTL DEF Spec, LiveCloseIsFinal
===============================================================================
