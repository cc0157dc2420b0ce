----------------------------- MODULE Access_proofs -----------------------------
(***************************************************************************)
(* Who may play, for any number of clients, requests in progress, rooms and *)
(* scenes.                                                                  *)
(*                                                                         *)
(* Two arguments that meet only in the requests.  The one is about the      *)
(* tables of identities and challenges: what a request read of them, and    *)
(* what it was told, stays bound to its client until an administrator       *)
(* resets the identity.  The other is about rooms: whoever is banned and    *)
(* still has a seat is being chased by a ban that will look at that room,   *)
(* or by its own match that will look at the ban again.                     *)
(***************************************************************************)
EXTENDS Access, FiniteSetTheorems, TLAPS

(* A request, and what its handler has by then. *)
Request(q) ==
    q \in [op : Kinds \cup {"none"}, at : Steps, who : Clients \cup {None},
           id : Accounts \cup {None}, row : Identity \cup {None}, nonce : Nonces \cup {None},
           room : Rooms \cup {None}, song : Songs \cup {None}, pool : Pools \cup {None}, todo : SUBSET Rooms]

Located == {"room", "reserve", "reenter", "retire", "recheck", "expel"}

Typed(q) ==
    /\ Request(q)
    /\ q.op \in {"register", "challenge", "session", "match", "admit"} => q.who \in Clients
    /\ q.op = "register" /\ q.at = "record" => q.id \in Ids
    /\ q.op = "challenge" => q.id \in Ids
    /\ q.op = "session" => q.id \in Ids /\ q.nonce \in Nonces /\ q.row \in Identity
    /\ q.op \in {"match", "admit", "ban"} => q.id \in Accounts
    /\ q.op = "match" => q.song \in Songs /\ q.pool \in Pools
    /\ q.op = "match" /\ q.at \in Located => q.room \in Rooms
    /\ q.op = "admit" => q.room \in Rooms

CallTypes ==
    /\ call = [s \in Slots |-> call[s]] /\ \A s \in Slots : Typed(call[s])
    /\ left \in [Kinds -> Nat]

-----------------------------------------------------------------------------
(* Identities and challenges *)

AccountTypes ==
    /\ card \in [Clients -> Cards] /\ required \in BOOLEAN
    /\ identities \subseteq Identity /\ challenges \subseteq Challenge
    /\ told \in [Clients -> Ids \cup {None}] /\ nonce \in [Clients -> Nonces \cup {None}]
    /\ token \in [Clients -> Ids \cup {None}]
    /\ born \in 0..MaxIds /\ asked \in 0..MaxNonces
    /\ deleted \subseteq Ids /\ issued \in [Nonces -> Nat]

(* Ids and nonces are fresh; an identity that was reset is gone. *)
Tables ==
    /\ \A row1, row2 \in identities : row1.card = row2.card => row1 = row2
    /\ \A row1, row2 \in identities : row1.id = row2.id => row1 = row2
    /\ \A row \in identities : row.id <= born /\ row.id \notin deleted
    /\ \A id \in deleted : id <= born
    /\ \A ch1, ch2 \in challenges : ch1.nonce = ch2.nonce => ch1 = ch2
    /\ \A ch \in challenges : /\ ch.nonce <= asked /\ (~ch.used => issued[ch.nonce] = 0)
                              /\ \E row \in identities : row.id = ch.id
    /\ \A n \in Nonces : n > asked => issued[n] = 0

(* The id is, or was before a reset, that of an identity of the client. *)
Owns(c, id) ==
    /\ id \in Ids /\ id <= born
    /\ (id \in deleted \/ \E row \in identities : row.id = id /\ row.key = c /\ row.card = card[c])

Proving(q) ==
    /\ q.op = "register" /\ q.at = "record" => Owns(q.who, q.id)
    /\ q.op = "session" =>
          /\ q.nonce <= asked /\ Owns(q.who, q.id)
          /\ q.row.id = q.id /\ q.row.key = q.who /\ q.row.card = card[q.who]
          /\ \A ch \in challenges : ch.nonce = q.nonce => ch.id = q.id
          /\ q.at = "consume" => \A row \in identities : row.id = q.id => row.hash = "host"

Proofs ==
    /\ AccountTypes /\ Tables
    /\ \A c \in Clients : told[c] # None => Owns(c, told[c])
    /\ \A s \in Slots : Proving(call[s])

-----------------------------------------------------------------------------
(* Rooms and bans *)

(* Who may have a lobby, and in which pool. *)
Owners == Accounts \X Pools

RoomTypes ==
    /\ controls \in [Accounts -> {"absent", "clear", "banned"}]
    /\ rooms \in [Rooms -> Room] /\ tickets \subseteq Ticket
    /\ kept \subseteq Accounts /\ excused \subseteq Owners
    /\ \A r \in Rooms : /\ rooms[r].joined \subseteq rooms[r].seats
                        /\ rooms[r].status \in {"recruiting", "playing"} => rooms[r].host \in rooms[r].seats

(* Somebody will still look at the seat of id in r. *)
Chases(q, id, r) ==
    /\ q.id = id
    /\ \/ q.op = "ban" /\ (q.at = "rooms" \/ (q.at = "expel" /\ r \in q.todo))
       \/ q.op = "match" /\ q.room = r /\ q.at \in {"recheck", "expel"}

Seated(id, r) == rooms[r].status \in {"recruiting", "playing"} /\ id \in rooms[r].seats

Bans ==
    \A id \in Accounts \ kept, r \in Rooms :
        controls[id] = "banned" /\ Seated(id, r) => \E s \in Slots : Chases(call[s], id, r)

(* A match that has looked for the lobby of its player in its pool. *)
Hosted(x) == {r \in Rooms : /\ rooms[r].status \in {"recruiting", "playing"}
                            /\ <<rooms[r].host, rooms[r].pool>> = x}
Searches(q, x) == q.op = "match" /\ <<q.id, q.pool>> = x /\ q.at \in {"reenter", "retire", "create"}

Lobbies ==
    \A x \in Owners \ excused :
        /\ \A r1, r2 \in Hosted(x) : r1 = r2
        /\ \A s \in Slots : Searches(call[s], x) =>
              \A r \in Hosted(x) : call[s].at # "create" /\ r = call[s].room
        /\ \A s, t \in Slots : Searches(call[s], x) /\ Searches(call[t], x) => s = t

Seating == RoomTypes /\ Bans /\ Lobbies

Inv == CallTypes /\ Proofs /\ Seating

-----------------------------------------------------------------------------
LEMMA TypesAreTypeOK == CallTypes /\ Proofs /\ Seating => TypeOK
<1> SUFFICES ASSUME CallTypes, Proofs, Seating PROVE TypeOK
  OBVIOUS
<1>1. call \in [Slots -> [op : Kinds \cup {"none"}, at : Steps, who : Clients \cup {None},
            id : Accounts \cup {None}, row : Identity \cup {None}, nonce : Nonces \cup {None},
            room : Rooms \cup {None}, song : Songs \cup {None}, pool : Pools \cup {None}, todo : SUBSET Rooms]]
  BY DEF CallTypes, Typed, Request
<1> QED
  BY <1>1 DEF CallTypes, Proofs, AccountTypes, Tables, Seating, RoomTypes, Owners, TypeOK

LEMMA IdleTyped ==
  /\ Typed(Idle) /\ Proving(Idle) /\ Idle.op = "none"
  /\ \A id, r : ~Chases(Idle, id, r) /\ ~Searches(Idle, id)
<1>1. Request(Idle)
  <2>1. "idle" \in Steps
    BY DEF Steps
  <2> QED
    BY <2>1 DEF Request, Idle
<1>2. Idle.op = "none"
  BY DEF Idle
<1> QED
  BY <1>1, <1>2 DEF Typed, Proving, Chases, Searches

(* A scene's rows are the first ids. *)
LEMMA FirstIds ==
  ASSUME NEW scene \in Scenes, NEW i \in Ids, scene.rows[i] # None
  PROVE  LET known == {j \in Ids : scene.rows[j] # None}
         IN  Cardinality(known) \in 0..MaxIds /\ i <= Cardinality(known)
<1> USE AccessAssumption
<1> DEFINE known == {j \in Ids : scene.rows[j] # None}
<1>1. IsFiniteSet(Ids) /\ Cardinality(Ids) = MaxIds
  BY FS_Interval DEF Ids
<1>2. IsFiniteSet(known) /\ Cardinality(known) <= MaxIds /\ Cardinality(known) \in Nat
  BY <1>1, FS_Subset, FS_CardinalityType
<1>3. 1..i \subseteq known
  BY DEF Ids
<1>4. Cardinality(1..i) = i
  BY FS_Interval DEF Ids
<1> HIDE DEF known
<1>5. Cardinality(1..i) <= Cardinality(known)
  BY <1>2, <1>3, FS_Subset
<1> QED
  BY <1>2, <1>4, <1>5 DEF known, Ids

LEMMA InitSound == Init => Inv
<1> SUFFICES ASSUME Init PROVE Inv
  OBVIOUS
<1> USE AccessAssumption
<1>1. PICK scene \in Scenes :
        /\ card = scene.card /\ required = scene.required /\ left = scene.left
        /\ born = Cardinality({i \in Ids : scene.rows[i] # None})
        /\ identities = {[Bound(i, scene.rows[i]) EXCEPT !.hash = IF i \in scene.legacy THEN "uri" ELSE @] :
                          i \in {j \in Ids : scene.rows[j] # None}}
        /\ controls = [a \in Accounts |-> IF a \in Ids /\ a <= born THEN "clear" ELSE "absent"]
        /\ told = [c \in Clients |-> IF \E i \in Ids : scene.rows[i] = c
                                     THEN CHOOSE i \in Ids : scene.rows[i] = c ELSE None]
        /\ challenges = {} /\ asked = 0 /\ deleted = {}
        /\ rooms = [r \in Rooms |-> [status |-> "unused", song |-> None, pool |-> None, host |-> None,
                                     seats |-> {}, joined |-> {}]]
        /\ nonce = [c \in Clients |-> None] /\ token = [c \in Clients |-> None]
        /\ issued = [n \in Nonces |-> 0] /\ tickets = {}
        /\ call = [s \in Slots |-> Idle] /\ kept = {} /\ excused = {}
  BY DEF Init
<1> DEFINE known == {j \in Ids : scene.rows[j] # None}
           Row(j) == [Bound(j, scene.rows[j]) EXCEPT !.hash = IF j \in scene.legacy THEN "uri" ELSE @]
<1>2. scene.card \in [Clients -> Cards] /\ scene.rows \in [Ids -> Clients \cup {None}]
      /\ scene.required \in BOOLEAN /\ scene.left \in [Kinds -> Nat]
  BY DEF Ids
<1>3. born \in 0..MaxIds /\ \A j \in known : j <= born
  <2>1. IsFiniteSet(Ids) /\ Cardinality(Ids) = MaxIds
    BY FS_Interval DEF Ids
  <2>2. Cardinality(known) <= MaxIds /\ Cardinality(known) \in Nat
    BY <2>1, FS_Subset, FS_CardinalityType
  <2> QED
    BY <1>1, <2>2, FirstIds
<1>4. \A j \in known : /\ Row(j) \in Identity
                       /\ Row(j).id = j /\ Row(j).key = scene.rows[j]
                       /\ Row(j).card = card[scene.rows[j]]
  BY <1>1, <1>2 DEF Bound, Identity
<1>5. identities = {Row(j) : j \in known}
  BY <1>1
<1> HIDE DEF Row
<1>6. identities \subseteq Identity
  BY <1>4, <1>5
<1>7. CallTypes
  BY <1>1, <1>2, IdleTyped DEF CallTypes
<1>8. AccountTypes
  <2>1. told \in [Clients -> Ids \cup {None}]
    BY <1>1
  <2> QED
    BY <1>1, <1>2, <1>3, <1>6, <2>1 DEF AccountTypes
<1>9. Tables
  <2>1. ASSUME NEW i \in known, NEW j \in known, Row(i).card = Row(j).card PROVE i = j
    <3>1. ~(i < j) /\ ~(j < i)
      BY <1>1, <1>4, <2>1
    <3> QED
      BY <3>1 DEF Ids
  <2>2. \A row1, row2 \in identities : row1.card = row2.card \/ row1.id = row2.id => row1 = row2
    BY <1>4, <1>5, <2>1
  <2>3. \A row \in identities : row.id <= born
    BY <1>3, <1>4, <1>5
  <2> QED
    BY <1>1, <2>2, <2>3 DEF Tables
<1>10. ASSUME NEW c \in Clients, told[c] # None PROVE Owns(c, told[c])
  <2>1. told[c] \in Ids /\ scene.rows[told[c]] = c
    BY <1>1, <1>10
  <2>2. told[c] \in known /\ Row(told[c]) \in identities
    BY <1>5, <2>1
  <2> QED
    BY <1>3, <1>4, <2>1, <2>2 DEF Owns
<1>11. Proofs
  BY <1>1, <1>8, <1>9, <1>10, IdleTyped DEF Proofs
<1>12. RoomTypes /\ Bans /\ Lobbies
  <2>1. RoomTypes
    BY <1>1 DEF RoomTypes, Room
  <2>2. Bans /\ Lobbies
    BY <1>1, IdleTyped DEF Bans, Seated, Lobbies, Hosted
  <2> QED
    BY <2>1, <2>2
<1> QED
  BY <1>7, <1>11, <1>12 DEF Inv, Seating

-----------------------------------------------------------------------------
(* Steps of one request, and what they leave alone. *)

OneCall(s) == call' = [t \in Slots |-> call'[t]] /\ \A t \in Slots \ {s} : call'[t] = call[t]

LEMMA SlotStep ==
  ASSUME CallTypes, NEW s \in Slots, NEW q, call' = [call EXCEPT ![s] = q]
  PROVE  OneCall(s) /\ call'[s] = q
BY DEF CallTypes, OneCall

LEMMA CallTypesKeep ==
  ASSUME CallTypes, NEW s \in Slots, OneCall(s), Typed(call'[s]), left' \in [Kinds -> Nat]
  PROVE  CallTypes'
<1>1. ASSUME NEW t \in Slots PROVE Typed(call[t])'
  BY <1>1 DEF OneCall, CallTypes, Typed, Request
<1> QED
  BY <1>1 DEF OneCall, CallTypes

LEMMA SpendKeeps ==
  ASSUME CallTypes, UNCHANGED left \/ \E kind \in Kinds : Spend(kind)
  PROVE  left' \in [Kinds -> Nat]
BY DEF CallTypes, Spend

(* A handler at its next await, and at its end. *)
LEMMA GoesTo ==
  ASSUME CallTypes, NEW s \in Slots, NEW at \in Steps, Goes(s, at)
  PROVE  /\ OneCall(s) /\ Request(call'[s])
         /\ call'[s] \in [op : {call[s].op}, at : {at}, who : {call[s].who}, id : {call[s].id},
                          row : {call[s].row}, nonce : {call[s].nonce}, room : {call[s].room},
                          song : {call[s].song}, pool : {call[s].pool}, todo : {call[s].todo}]
<1>1. OneCall(s) /\ call'[s] = [call[s] EXCEPT !.at = at]
  BY DEF Goes, CallTypes, OneCall
<1>2. Request(call[s])
  BY DEF CallTypes, Typed
<1> QED
  BY <1>1, <1>2 DEF Request

LEMMA EndsIdle ==
  ASSUME CallTypes, NEW s \in Slots, Ends(s)
  PROVE  OneCall(s) /\ call'[s] = Idle
BY SlotStep DEF Ends

(* The tables are as they were, and no request of theirs moves. *)
LEMMA ProofsRest ==
  ASSUME Proofs, UNCHANGED <<card, accounts, answers>>, required' \in BOOLEAN,
         NEW s \in Slots, OneCall(s), call'[s] = call[s] \/ Proving(call'[s])
  PROVE  Proofs'
<1>1. AccountTypes' /\ Tables'
  BY DEF Proofs, AccountTypes, Tables, accounts, answers
<1>2. ASSUME NEW c, NEW id, Owns(c, id) PROVE Owns(c, id)'
  BY <1>2 DEF Owns, accounts
<1>3. ASSUME NEW t \in Slots PROVE Proving(call[t])'
  <2>1. Proving(call'[t])
    BY DEF Proofs, OneCall
  <2> QED
    BY <2>1 DEF Proving, Owns, accounts
<1> QED
  BY <1>1, <1>2, <1>3 DEF Proofs, answers

(* The rooms are as they were, and no match or ban moves. *)
LEMMA SeatingRests ==
  ASSUME Seating, UNCHANGED <<rooms, tickets, excused, kept>>,
         controls' \in [Accounts -> {"absent", "clear", "banned"}],
         \A id \in Accounts : controls'[id] = "banned" => controls[id] = "banned",
         NEW s \in Slots, OneCall(s),
         call[s].op \notin {"match", "ban"}, call'[s].op \notin {"match", "ban"}
  PROVE  Seating'
<1>1. RoomTypes'
  BY DEF Seating, RoomTypes
<1>2. Bans'
  BY DEF Seating, Bans, Seated, Chases, OneCall
<1>3. Lobbies'
  BY DEF Seating, Lobbies, Hosted, Searches, OneCall
<1> QED
  BY <1>1, <1>2, <1>3 DEF Seating

-----------------------------------------------------------------------------
(* Registration *)

(* A row that is found by the card alone is the one that matches. *)
LEMMA RetryKeeps ==
  ASSUME Inv, NEW s \in Slots, NEW c \in Clients, RetryOrConflict(s, c, FindBinding(c))
  PROVE  /\ OneCall(s) /\ Typed(call'[s]) /\ Proving(call'[s])
         /\ call'[s].op \notin {"match", "ban"}
<1>1. CASE Ends(s)
  BY <1>1, EndsIdle, IdleTyped DEF Inv
<1>2. ASSUME NEW row \in FindBinding(c), \E found \in FindBinding(c) : SameBinding(found, c),
             call' = [call EXCEPT ![s] =
                        [Idle EXCEPT !.op = "register", !.at = "record", !.who = c, !.id = row.id]]
      PROVE  /\ OneCall(s) /\ Typed(call'[s]) /\ Proving(call'[s])
             /\ call'[s].op \notin {"match", "ban"}
  <2> DEFINE q == [Idle EXCEPT !.op = "register", !.at = "record", !.who = c, !.id = row.id]
  <2>1. OneCall(s) /\ call'[s] = q
    BY <1>2, SlotStep DEF Inv
  <2>2. row \in identities /\ row \in Identity /\ row.key = c /\ row.card = card[c]
    BY <1>2 DEF FindBinding, SameBinding, Inv, Proofs, Tables, AccountTypes
  <2>3. row.id \in Ids
    BY <2>2 DEF Identity
  <2>4. q \in [op : {"register"}, at : {"record"}, who : {c}, id : {row.id}, row : {None},
               nonce : {None}, room : {None}, song : {None}, pool : {None}, todo : {{}}]
    BY IdleTyped DEF Idle
  <2> HIDE DEF q
  <2>5. Typed(q)
    BY <2>3, <2>4 DEF Typed, Request, Kinds, Steps, Accounts
  <2>6. Proving(q)
    BY <2>2, <2>3, <2>4 DEF Proving, Owns, Inv, Proofs, Tables
  <2> QED
    BY <2>1, <2>4, <2>5, <2>6
<1> QED
  BY <1>1, <1>2 DEF RetryOrConflict

LEMMA RegisterKeeps ==
  ASSUME Inv, NEW s \in Slots, Register(s) \/ Rebind(s)
  PROVE  Inv'
<1>1. /\ UNCHANGED <<card, accounts, answers, play, bans, required>>
      /\ call[s].op \notin {"match", "ban"} /\ left' \in [Kinds -> Nat]
  BY SpendKeeps, IdleTyped DEF Register, Rebind, At, Kinds, Inv
<1>2. OneCall(s) /\ Typed(call'[s]) /\ Proving(call'[s]) /\ call'[s].op \notin {"match", "ban"}
  <2>1. ASSUME NEW c \in Clients,
               call' = [call EXCEPT ![s] = [Idle EXCEPT !.op = "register", !.at = "create", !.who = c]]
        PROVE  /\ OneCall(s) /\ Typed(call'[s]) /\ Proving(call'[s])
               /\ call'[s].op \notin {"match", "ban"}
    <3> DEFINE q == [Idle EXCEPT !.op = "register", !.at = "create", !.who = c]
    <3>1. OneCall(s) /\ call'[s] = q
      BY <2>1, SlotStep DEF Inv
    <3>2. q \in [op : {"register"}, at : {"create"}, who : {c}, id : {None}, row : {None},
                 nonce : {None}, room : {None}, song : {None}, pool : {None}, todo : {{}}]
      BY DEF Idle
    <3> HIDE DEF q
    <3>3. Typed(q) /\ Proving(q)
      BY <3>2 DEF Typed, Request, Proving, Kinds, Steps
    <3> QED
      BY <3>1, <3>2, <3>3
  <2>2. CASE Register(s)
    BY <2>1, <2>2, RetryKeeps DEF Register
  <2>3. CASE Rebind(s)
    BY <2>3, RetryKeeps DEF Rebind, At, Inv, CallTypes, Typed
  <2> QED
    BY <2>2, <2>3
<1>3. CallTypes'
  BY <1>1, <1>2, CallTypesKeep DEF Inv
<1>4. Proofs'
  BY <1>1, <1>2, ProofsRest DEF Inv, Proofs, AccountTypes
<1>5. Seating'
  BY <1>1, <1>2, SeatingRests DEF Inv, Seating, RoomTypes, play, bans
<1> QED
  BY <1>3, <1>4, <1>5 DEF Inv

LEMMA CreateIdentityKeeps ==
  ASSUME Inv, NEW s \in Slots, CreateIdentity(s)
  PROVE  Inv'
<1> USE AccessAssumption
<1> DEFINE q == call[s]
<1>1. /\ Typed(q) /\ q.op = "register" /\ q.who \in Clients /\ UNCHANGED left
      /\ left' \in [Kinds -> Nat]
      /\ UNCHANGED <<rooms, tickets, excused, kept, controls>>
  BY DEF CreateIdentity, At, Inv, CallTypes, Typed, play, bans
<1>2. CASE Goes(s, "rebind") /\ UNCHANGED <<identities, born>>
  <2>1. OneCall(s) /\ Request(call'[s]) /\ call'[s].op = "register" /\ call'[s].at = "rebind"
        /\ call'[s].who = q.who
    BY <1>1, <1>2, GoesTo DEF Inv, Steps
  <2>2. Typed(call'[s]) /\ Proving(call'[s])
    BY <1>1, <2>1 DEF Typed, Proving
  <2>3. CallTypes' /\ Proofs' /\ Seating'
    BY <1>1, <1>2, <2>1, <2>2, CallTypesKeep, ProofsRest, SeatingRests
       DEF CreateIdentity, accounts, Inv, Proofs, AccountTypes, Seating, RoomTypes
  <2> QED
    BY <2>3 DEF Inv
<1>3. CASE /\ FindBinding(q.who) = {} /\ born < MaxIds /\ born' = born + 1
           /\ identities' = identities \cup {Bound(born', q.who)}
           /\ call' = [call EXCEPT ![s].at = "record", ![s].id = born']
  <2> DEFINE new == Bound(born + 1, q.who)
  <2>1. OneCall(s) /\ call'[s] = [q EXCEPT !.at = "record", !.id = born + 1]
    BY <1>3 DEF Inv, CallTypes, OneCall
  <2>2. born \in Nat /\ born + 1 \in Ids
    BY <1>3 DEF Inv, Proofs, AccountTypes, Ids
  <2>3. call'[s] \in [op : {"register"}, at : {"record"}, who : {q.who}, id : {born + 1},
                      row : {q.row}, nonce : {q.nonce}, room : {q.room}, song : {q.song}, pool : {q.pool},
                      todo : {q.todo}]
    BY <1>1, <2>1 DEF Typed, Request
  <2>4. Typed(call'[s])
    BY <1>1, <2>2, <2>3 DEF Typed, Request, Steps, Accounts
  <2>5. /\ new \in Identity /\ new.id = born + 1 /\ new.key = q.who /\ new.card = card[q.who]
        /\ new.hash = "host"
    BY <1>1, <2>2 DEF Bound, Identity, Inv, Proofs, AccountTypes
  <2>6. identities' = identities \cup {new}
    BY <1>3
  <2> HIDE DEF new
  <2>7. AccountTypes'
    BY <1>3, <2>2, <2>5, <2>6 DEF CreateIdentity, answers, Ids, Inv, Proofs, AccountTypes
  <2>8. Tables'
    BY <1>3, <2>2, <2>5, <2>6 DEF CreateIdentity, answers, FindBinding, Inv, Proofs, Tables,
       AccountTypes, Ids, Identity
  <2>9. ASSUME NEW c, NEW id, Owns(c, id) PROVE Owns(c, id)'
    BY <1>3, <2>2, <2>6, <2>9 DEF CreateIdentity, Owns, Ids
  <2>10. ASSUME NEW t \in Slots PROVE Proving(call[t])'
    <3>1. CASE t = s
      <4>1. call'[s].op = "register" /\ call'[s].who = q.who /\ call'[s].id = born + 1
        BY <2>3
      <4>2. new \in identities' /\ born + 1 <= born' /\ UNCHANGED card
        BY <1>3, <2>2, <2>6 DEF CreateIdentity
      <4>3. Owns(call[s].who, call[s].id)'
        BY <2>2, <2>5, <4>1, <4>2 DEF Owns
      <4> QED
        BY <3>1, <4>1, <4>3 DEF Proving
    <3>2. CASE t # s
      <4>1. Proving(call[t]) /\ call'[t] = call[t] /\ Typed(call[t])
        BY <2>1, <3>2 DEF OneCall, Inv, Proofs, CallTypes
      <4>2. call[t].op = "session" => call[t].id # born + 1
        BY <2>2, <4>1 DEF Proving, Owns, Typed, Ids
      <4> QED
        BY <2>5, <2>6, <2>9, <4>1, <4>2 DEF CreateIdentity, answers, Proving
    <3> QED
      BY <3>1, <3>2
  <2>11. Proofs'
    BY <2>7, <2>8, <2>9, <2>10 DEF CreateIdentity, answers, Inv, Proofs
  <2>12. CallTypes' /\ Seating'
    BY <1>1, <2>1, <2>3, <2>4, CallTypesKeep, SeatingRests DEF Inv, Seating, RoomTypes
  <2> QED
    BY <2>11, <2>12 DEF Inv
<1> QED
  BY <1>2, <1>3 DEF CreateIdentity

LEMMA RecordRegisteredKeeps ==
  ASSUME Inv, NEW s \in Slots, RecordRegistered(s)
  PROVE  Inv'
<1> DEFINE q == call[s]
<1>1. /\ Typed(q) /\ Proving(q) /\ q.op = "register" /\ q.at = "record" /\ UNCHANGED left
      /\ OneCall(s) /\ call'[s] = Idle
  BY EndsIdle DEF RecordRegistered, At, Inv, CallTypes, Proofs
<1>2. CallTypes'
  BY <1>1, IdleTyped, CallTypesKeep DEF Inv, CallTypes
<1>3. /\ controls' \in [Accounts -> {"absent", "clear", "banned"}]
      /\ \A id \in Accounts : controls'[id] = "banned" => controls[id] = "banned"
  BY DEF RecordRegistered, Recorded, Inv, Seating, RoomTypes
<1>4. Seating'
  BY <1>1, <1>3, IdleTyped, SeatingRests DEF RecordRegistered, play, Inv
<1>5. AccountTypes' /\ Tables'
  BY <1>1 DEF RecordRegistered, accounts, Typed, Inv, Proofs, AccountTypes, Tables
<1>6. ASSUME NEW c, NEW id, Owns(c, id) PROVE Owns(c, id)'
  BY <1>6 DEF RecordRegistered, accounts, Owns
<1>7. \A c \in Clients : told'[c] # None => Owns(c, told'[c])
  BY <1>1 DEF RecordRegistered, Typed, Proving, Inv, Proofs, AccountTypes
<1>8. ASSUME NEW t \in Slots PROVE Proving(call[t])'
  <2>1. Proving(call'[t])
    BY <1>1, IdleTyped DEF OneCall, Inv, Proofs
  <2> QED
    BY <2>1 DEF RecordRegistered, accounts, Proving, Owns
<1>9. Proofs'
  BY <1>5, <1>6, <1>7, <1>8 DEF RecordRegistered, Proofs
<1> QED
  BY <1>2, <1>4, <1>9 DEF Inv

-----------------------------------------------------------------------------
(* Challenge and session *)

LEMMA AskChallengeKeeps ==
  ASSUME Inv, NEW s \in Slots, AskChallenge(s)
  PROVE  Inv'
<1>1. PICK c \in Clients :
        /\ told[c] # None
        /\ Begins(s, "challenge", [Idle EXCEPT !.op = "challenge", !.at = "create", !.who = c, !.id = told[c]])
  BY DEF AskChallenge
<1> DEFINE q == [Idle EXCEPT !.op = "challenge", !.at = "create", !.who = c, !.id = told[c]]
<1>2. /\ UNCHANGED <<card, accounts, answers, play, bans, required>>
      /\ call[s] = Idle /\ left' \in [Kinds -> Nat] /\ OneCall(s) /\ call'[s] = q
  BY <1>1, SpendKeeps, SlotStep DEF AskChallenge, Begins, Kinds, Inv
<1>3. q \in [op : {"challenge"}, at : {"create"}, who : {c}, id : {told[c]}, row : {None},
             nonce : {None}, room : {None}, song : {None}, pool : {None}, todo : {{}}]
  BY DEF Idle
<1> HIDE DEF q
<1>4. Typed(q) /\ Proving(q)
  BY <1>1, <1>3 DEF Typed, Request, Proving, Kinds, Steps, Accounts, Inv, Proofs, AccountTypes
<1>5. CallTypes' /\ Proofs' /\ Seating'
  BY <1>2, <1>3, <1>4, IdleTyped, CallTypesKeep, ProofsRest, SeatingRests
     DEF play, bans, Inv, Proofs, AccountTypes, Seating, RoomTypes
<1> QED
  BY <1>5 DEF Inv

LEMMA CreateChallengeKeeps ==
  ASSUME Inv, NEW s \in Slots, CreateChallenge(s)
  PROVE  Inv'
<1> USE AccessAssumption
<1> DEFINE q == call[s]
<1>1. /\ Typed(q) /\ q.op = "challenge" /\ q.who \in Clients /\ q.id \in Ids /\ UNCHANGED left
      /\ OneCall(s) /\ call'[s] = Idle
      /\ UNCHANGED <<card, identities, born, deleted, told, token, issued, required>>
      /\ UNCHANGED <<rooms, tickets, excused, kept, controls>>
  BY EndsIdle DEF CreateChallenge, At, Inv, CallTypes, Typed, play, bans
<1>2. CallTypes' /\ Seating'
  BY <1>1, IdleTyped, CallTypesKeep, SeatingRests DEF Inv, CallTypes, Seating, RoomTypes
<1>3. CASE UNCHANGED <<challenges, asked, nonce>>
  <2>1. Proofs'
    BY <1>1, <1>3, IdleTyped, ProofsRest DEF accounts, answers, Inv, Proofs, AccountTypes
  <2> QED
    BY <1>2, <2>1 DEF Inv
<1>4. CASE /\ FindById(q.id) # {} /\ asked < MaxNonces /\ asked' = asked + 1
           /\ challenges' = challenges \cup {[nonce |-> asked', id |-> q.id, used |-> FALSE]}
           /\ nonce' = [nonce EXCEPT ![q.who] = asked']
  <2> DEFINE new == [nonce |-> asked + 1, id |-> q.id, used |-> FALSE]
  <2>1. asked \in Nat /\ asked + 1 \in Nonces
    BY <1>4 DEF Inv, Proofs, AccountTypes, Nonces
  <2>2. new \in Challenge /\ new.nonce = asked + 1 /\ new.id = q.id
    BY <1>1, <2>1 DEF Challenge
  <2>3. challenges' = challenges \cup {new}
    BY <1>4
  <2> HIDE DEF new
  <2>4. AccountTypes'
    BY <1>1, <1>4, <2>1, <2>2, <2>3 DEF Inv, Proofs, AccountTypes, Nonces
  <2>5. \A ch \in challenges : ch.nonce <= asked /\ ch.nonce \in Nat
    BY DEF Inv, Proofs, Tables, AccountTypes, Challenge, Nonces
  <2>6. Tables'
    <3>1. \A ch1, ch2 \in challenges' : ch1.nonce = ch2.nonce => ch1 = ch2
      BY <2>1, <2>2, <2>3, <2>5 DEF Inv, Proofs, Tables
    <3>2. \A ch \in challenges' : /\ ch.nonce <= asked' /\ (~ch.used => issued[ch.nonce] = 0)
                                  /\ \E row \in identities : row.id = ch.id
      BY <1>4, <2>1, <2>2, <2>3, <2>5 DEF FindById, Inv, Proofs, Tables
    <3>3. \A n \in Nonces : n > asked' => issued[n] = 0
      BY <1>4, <2>1 DEF Nonces, Inv, Proofs, Tables
    <3> QED
      BY <1>1, <3>1, <3>2, <3>3 DEF Inv, Proofs, Tables
  <2>7. ASSUME NEW c, NEW id, Owns(c, id) PROVE Owns(c, id)'
    BY <1>1, <2>7 DEF Owns
  <2>8. ASSUME NEW t \in Slots PROVE Proving(call[t])'
    <3>1. Proving(call'[t]) /\ Typed(call'[t])
      BY <1>1, IdleTyped DEF OneCall, Inv, Proofs, CallTypes
    <3>2. call'[t].op = "session" => call'[t].nonce # asked + 1
      BY <2>1, <3>1 DEF Proving, Typed, Nonces
    <3>3. call'[t].op = "session" => call'[t].nonce <= asked'
      BY <1>4, <2>1, <3>1 DEF Proving, Typed, Nonces
    <3>4. \A c, id : Owns(c, id) => Owns(c, id)'
      BY <1>1 DEF Owns
    <3> QED
      BY <1>1, <2>2, <2>3, <3>1, <3>2, <3>3 DEF Proving, Owns
  <2>9. Proofs'
    BY <1>1, <2>4, <2>6, <2>7, <2>8 DEF Inv, Proofs
  <2> QED
    BY <1>2, <2>9 DEF Inv
<1> QED
  BY <1>3, <1>4 DEF CreateChallenge

(* What a session request proved of the row it read. *)
LEMMA SessionKeeps ==
  ASSUME Inv, NEW s \in Slots, Session(s)
  PROVE  Inv'
<1>0. PICK c \in Clients : \E row \in FindById(told[c]) :
        /\ [nonce |-> nonce[c], id |-> row.id, used |-> FALSE] \in challenges
        /\ row.key = c /\ row.card = card[c]
        /\ Begins(s, "session", [Idle EXCEPT !.op = "session", !.who = c, !.id = row.id,
               !.nonce = nonce[c], !.row = row, !.at = IF row.hash = "host" THEN "consume" ELSE "migrate"])
  BY DEF Session
<1>1. PICK row \in FindById(told[c]) :
        /\ [nonce |-> nonce[c], id |-> row.id, used |-> FALSE] \in challenges
        /\ row.key = c /\ row.card = card[c]
        /\ Begins(s, "session", [Idle EXCEPT !.op = "session", !.who = c, !.id = row.id,
               !.nonce = nonce[c], !.row = row, !.at = IF row.hash = "host" THEN "consume" ELSE "migrate"])
  BY <1>0
<1> DEFINE at == IF row.hash = "host" THEN "consume" ELSE "migrate"
           q == [Idle EXCEPT !.op = "session", !.who = c, !.id = row.id,
                             !.nonce = nonce[c], !.row = row, !.at = at]
<1>2. /\ UNCHANGED <<card, accounts, answers, play, bans, required>>
      /\ call[s] = Idle /\ left' \in [Kinds -> Nat] /\ OneCall(s) /\ call'[s] = q
  <2>1. call' = [call EXCEPT ![s] = q]
    BY <1>1 DEF Begins
  <2> HIDE DEF q
  <2>2. OneCall(s) /\ call'[s] = q
    BY <2>1, SlotStep DEF Inv
  <2>3. Spend("session") /\ call[s] = Idle
    BY <1>1 DEF Begins
  <2> QED
    BY <2>2, <2>3, SpendKeeps DEF Session, Kinds, Inv
<1>3. q \in [op : {"session"}, at : {at}, who : {c}, id : {row.id}, row : {row},
             nonce : {nonce[c]}, room : {None}, song : {None}, pool : {None}, todo : {{}}]
  BY DEF Idle
<1>4. /\ row \in identities /\ row \in Identity /\ row.id \in Ids /\ row.id <= born
      /\ nonce[c] \in Nonces /\ nonce[c] <= asked
      /\ \A ch \in challenges : ch.nonce = nonce[c] => ch.id = row.id
  <2>1. row \in identities /\ row \in Identity /\ row.id \in Ids /\ row.id <= born
    BY DEF FindById, Inv, Proofs, AccountTypes, Tables, Identity
  <2> DEFINE open == [nonce |-> nonce[c], id |-> row.id, used |-> FALSE]
  <2>2. open \in challenges /\ open.nonce = nonce[c] /\ open.id = row.id
    BY <1>1
  <2> HIDE DEF open
  <2> QED
    BY <2>1, <2>2 DEF Inv, Proofs, AccountTypes, Tables, Challenge
<1> HIDE DEF q
<1>5. at \in {"consume", "migrate"}
  OBVIOUS
<1>6. \A other \in identities : other.id = row.id => other = row
  BY <1>4 DEF Inv, Proofs, Tables
<1>7. Proving(q)
  BY <1>1, <1>3, <1>4, <1>6 DEF Proving, Owns
<1> HIDE DEF at
<1>8. Typed(q)
  BY <1>3, <1>4, <1>5 DEF Typed, Request, Kinds, Steps, Accounts
<1>9. CallTypes' /\ Proofs' /\ Seating'
  BY <1>2, <1>3, <1>7, <1>8, IdleTyped, CallTypesKeep, ProofsRest, SeatingRests
     DEF play, bans, Inv, Proofs, AccountTypes, Seating, RoomTypes
<1> QED
  BY <1>9 DEF Inv

(* A session request at its next await. *)
LEMMA SessionGoes ==
  ASSUME Inv, NEW s \in Slots, call[s].op = "session", NEW at \in Steps, Goes(s, at)
  PROVE  /\ OneCall(s) /\ Typed(call'[s])
         /\ call'[s].op = "session" /\ call'[s].at = at /\ call'[s].who = call[s].who
         /\ call'[s].id = call[s].id /\ call'[s].row = call[s].row /\ call'[s].nonce = call[s].nonce
<1>1. /\ OneCall(s) /\ Request(call'[s])
      /\ call'[s].op = "session" /\ call'[s].at = at /\ call'[s].who = call[s].who
      /\ call'[s].id = call[s].id /\ call'[s].row = call[s].row /\ call'[s].nonce = call[s].nonce
  BY GoesTo DEF Inv
<1> QED
  BY <1>1 DEF Typed, Inv, CallTypes

LEMMA MigrateKeeps ==
  ASSUME Inv, NEW s \in Slots, MigrateServerHash(s)
  PROVE  Inv'
<1> DEFINE q == call[s]
<1>1. /\ Typed(q) /\ Proving(q) /\ q.op = "session" /\ UNCHANGED left
      /\ UNCHANGED <<card, challenges, born, asked, deleted, answers, required>>
      /\ UNCHANGED <<rooms, tickets, excused, kept, controls>>
  BY DEF MigrateServerHash, At, Inv, CallTypes, Proofs, play, bans
<1>2. CASE q.row \notin identities /\ Goes(s, "latest") /\ UNCHANGED identities
  <2>1. /\ OneCall(s) /\ Typed(call'[s])
        /\ call'[s].op = "session" /\ call'[s].at = "latest" /\ call'[s].who = q.who
        /\ call'[s].id = q.id /\ call'[s].row = q.row /\ call'[s].nonce = q.nonce
    BY <1>1, <1>2, SessionGoes DEF Steps
  <2>2. Proving(call'[s])
    BY <1>1, <2>1 DEF Proving
  <2>3. CallTypes' /\ Proofs' /\ Seating'
    BY <1>1, <1>2, <2>1, <2>2, CallTypesKeep, ProofsRest, SeatingRests
       DEF accounts, Inv, CallTypes, Proofs, AccountTypes, Seating, RoomTypes
  <2> QED
    BY <2>3 DEF Inv
<1>3. CASE /\ q.row \in identities /\ Goes(s, "consume")
           /\ identities' = (identities \ {q.row}) \cup {[q.row EXCEPT !.hash = "host"]}
  <2> DEFINE new == [q.row EXCEPT !.hash = "host"]
             old == q.row
  <2>1. /\ OneCall(s) /\ Typed(call'[s])
        /\ call'[s].op = "session" /\ call'[s].at = "consume" /\ call'[s].who = q.who
        /\ call'[s].id = q.id /\ call'[s].row = q.row /\ call'[s].nonce = q.nonce
    BY <1>1, <1>3, SessionGoes DEF Steps
  <2>2. /\ old \in identities /\ new \in Identity /\ new.id = old.id /\ new.key = old.key
        /\ new.card = old.card /\ new.hash = "host"
    BY <1>1, <1>3 DEF Typed, Identity
  <2>3. identities' = (identities \ {old}) \cup {new}
    BY <1>3
  <2>4. old.id = q.id
    BY <1>1 DEF Proving
  <2> HIDE DEF new, old
  <2>5. AccountTypes'
    BY <1>1, <2>2, <2>3 DEF answers, Inv, Proofs, AccountTypes
  <2>6. Tables'
    BY <1>1, <2>2, <2>3 DEF answers, Inv, Proofs, Tables
  <2>7. ASSUME NEW c, NEW id, Owns(c, id) PROVE Owns(c, id)'
    BY <1>1, <2>2, <2>3, <2>7 DEF Owns
  <2>8. ASSUME NEW t \in Slots PROVE Proving(call[t])'
    <3>1. CASE t = s
      <4>1. \A row \in identities' : row.id = q.id => row.hash = "host"
        BY <2>2, <2>3, <2>4 DEF Inv, Proofs, Tables
      <4>2. Owns(q.who, q.id) /\ q.who \in Clients
        BY <1>1 DEF Proving, Typed
      <4>3. Owns(call[s].who, call[s].id)'
        BY <2>1, <2>7, <4>2
      <4> QED
        BY <1>1, <2>1, <3>1, <4>1, <4>3 DEF Proving
    <3>2. CASE t # s
      <4>1. Proving(call[t]) /\ call'[t] = call[t]
        BY <2>1, <3>2 DEF OneCall, Inv, Proofs
      <4>2. Owns(call[t].who, call[t].id) => Owns(call[t].who, call[t].id)'
        BY <2>7, <4>1
      <4> QED
        BY <1>1, <2>2, <2>3, <4>1, <4>2 DEF Proving
    <3> QED
      BY <3>1, <3>2
  <2>9. Proofs'
    BY <1>1, <2>5, <2>6, <2>7, <2>8 DEF answers, Inv, Proofs
  <2>10. CallTypes' /\ Seating'
    BY <1>1, <2>1, CallTypesKeep, SeatingRests DEF Inv, CallTypes, Seating, RoomTypes
  <2> QED
    BY <2>9, <2>10 DEF Inv
<1> QED
  BY <1>2, <1>3 DEF MigrateServerHash

LEMMA LatestHashKeeps ==
  ASSUME Inv, NEW s \in Slots, LatestHash(s)
  PROVE  Inv'
<1> DEFINE q == call[s]
<1>1. /\ Typed(q) /\ Proving(q) /\ q.op = "session" /\ UNCHANGED left
      /\ UNCHANGED <<card, accounts, answers, required>>
      /\ UNCHANGED <<rooms, tickets, excused, kept, controls>>
  BY DEF LatestHash, At, Inv, CallTypes, Proofs, play, bans
<1>2. OneCall(s) /\ Typed(call'[s]) /\ Proving(call'[s]) /\ call'[s].op \notin {"match", "ban"}
  <2>1. CASE (\E row \in FindById(q.id) : row.hash = "host") /\ Goes(s, "consume")
    <3>1. /\ OneCall(s) /\ Typed(call'[s])
          /\ call'[s].op = "session" /\ call'[s].at = "consume" /\ call'[s].who = q.who
          /\ call'[s].id = q.id /\ call'[s].row = q.row /\ call'[s].nonce = q.nonce
      BY <1>1, <2>1, SessionGoes DEF Steps
    <3>2. \A row \in identities : row.id = q.id => row.hash = "host"
      BY <2>1 DEF FindById, Inv, Proofs, Tables
    <3> QED
      BY <1>1, <3>1, <3>2 DEF Proving
  <2>2. CASE Ends(s)
    BY <2>2, EndsIdle, IdleTyped DEF Inv
  <2> QED
    BY <2>1, <2>2 DEF LatestHash
<1>3. CallTypes' /\ Proofs' /\ Seating'
  BY <1>1, <1>2, CallTypesKeep, ProofsRest, SeatingRests
     DEF Inv, CallTypes, Proofs, AccountTypes, Seating, RoomTypes
<1> QED
  BY <1>3 DEF Inv

(* A challenge is used once, and its identity is that of the request. *)
LEMMA ConsumeKeeps ==
  ASSUME Inv, NEW s \in Slots, Consume(s)
  PROVE  Inv'
<1> DEFINE q == call[s]
<1>1. /\ Typed(q) /\ Proving(q) /\ q.op = "session" /\ q.at = "consume" /\ UNCHANGED left
      /\ OneCall(s) /\ call'[s] = Idle
      /\ UNCHANGED <<card, identities, born, asked, deleted, told, nonce, required>>
      /\ UNCHANGED <<rooms, tickets, excused, kept, controls>>
  BY EndsIdle DEF Consume, At, Inv, CallTypes, Proofs, play, bans
<1>2. CallTypes' /\ Seating'
  BY <1>1, IdleTyped, CallTypesKeep, SeatingRests DEF Inv, CallTypes, Seating, RoomTypes
<1>3. CASE UNCHANGED <<challenges, token, issued>>
  <2>1. Proofs'
    BY <1>1, <1>3, IdleTyped, ProofsRest DEF accounts, answers, Inv, Proofs, AccountTypes
  <2> QED
    BY <1>2, <2>1 DEF Inv
<1>4. CASE /\ challenges' = (challenges \ OpenChallenge(s)) \cup
                              {[ch EXCEPT !.used = TRUE] : ch \in OpenChallenge(s)}
           /\ token' = [token EXCEPT ![q.who] = q.id]
           /\ issued' = [issued EXCEPT ![q.nonce] = @ + 1]
  <2>1. /\ q.nonce \in Nonces /\ q.nonce <= asked /\ q.id \in Ids /\ q.who \in Clients
        /\ asked \in Nat /\ issued \in [Nonces -> Nat] /\ challenges \subseteq Challenge
    BY <1>1 DEF Typed, Proving, Inv, Proofs, AccountTypes
  <2>2. \A new \in challenges' : \E ch \in challenges :
          /\ new.nonce = ch.nonce /\ new.id = ch.id /\ new \in Challenge
          /\ IF ch.nonce = q.nonce THEN new.used ELSE new = ch
          /\ new = ch \/ (ch.nonce = q.nonce /\ new = [ch EXCEPT !.used = TRUE])
    BY <1>4, <2>1 DEF OpenChallenge, Challenge
  <2>3. AccountTypes'
    BY <1>1, <1>4, <2>1, <2>2 DEF Inv, Proofs, AccountTypes
  <2>4. Tables'
    <3>1. \A ch1, ch2 \in challenges' : ch1.nonce = ch2.nonce => ch1 = ch2
      BY <2>1, <2>2 DEF Inv, Proofs, Tables, Challenge
    <3>2. \A ch \in challenges' : /\ ch.nonce <= asked /\ (~ch.used => issued'[ch.nonce] = 0)
                                  /\ \E row \in identities : row.id = ch.id
      BY <1>4, <2>1, <2>2 DEF Inv, Proofs, Tables, Challenge
    <3>3. \A n \in Nonces : n > asked => issued'[n] = 0
      BY <1>4, <2>1 DEF Nonces, Inv, Proofs, Tables
    <3> QED
      BY <1>1, <3>1, <3>2, <3>3 DEF Inv, Proofs, Tables
  <2>5. ASSUME NEW c, NEW id, Owns(c, id) PROVE Owns(c, id)'
    BY <1>1, <2>5 DEF Owns
  <2>6. ASSUME NEW t \in Slots PROVE Proving(call[t])'
    <3>1. Proving(call'[t])
      BY <1>1, IdleTyped DEF OneCall, Inv, Proofs
    <3>2. Owns(call'[t].who, call'[t].id) => Owns(call[t].who, call[t].id)'
      BY <1>1 DEF Owns
    <3> QED
      BY <1>1, <2>2, <3>1, <3>2 DEF Proving
  <2>7. Proofs'
    BY <1>1, <2>3, <2>4, <2>5, <2>6 DEF Inv, Proofs
  <2> QED
    BY <1>2, <2>7 DEF Inv
<1> QED
  BY <1>3, <1>4 DEF Consume

LEMMA AdminResetKeeps ==
  ASSUME Inv, AdminReset
  PROVE  Inv'
<1>1. PICK id \in Ids :
        /\ FindById(id) # {} /\ Spend("reset")
        /\ identities' = identities \ FindById(id)
        /\ challenges' = {ch \in challenges : ch.id # id}
        /\ deleted' = deleted \cup {id}
  BY DEF AdminReset
<1>2. /\ UNCHANGED <<card, born, asked, told, nonce, token, issued, required, call>>
      /\ UNCHANGED <<rooms, tickets, excused, kept, controls>>
      /\ \A row \in identities : row \in identities' <=> row.id # id
      /\ identities' \subseteq identities /\ challenges' \subseteq challenges
      /\ id <= born
  BY <1>1 DEF AdminReset, answers, play, bans, FindById, Inv, Proofs, Tables
<1>3. AccountTypes'
  BY <1>1, <1>2 DEF Inv, Proofs, AccountTypes
<1>4. Tables'
  BY <1>1, <1>2 DEF Inv, Proofs, Tables
<1>5. ASSUME NEW c, NEW other, Owns(c, other) PROVE Owns(c, other)'
  BY <1>1, <1>2, <1>5 DEF Owns
<1>6. ASSUME NEW t \in Slots PROVE Proving(call[t])'
  <2>1. Proving(call[t]) /\ call'[t] = call[t]
    BY <1>2 DEF Inv, Proofs
  <2>2. Owns(call[t].who, call[t].id) => Owns(call[t].who, call[t].id)'
    BY <1>5, <2>1
  <2> QED
    BY <1>2, <2>1, <2>2 DEF Proving
<1>7. Proofs'
  BY <1>2, <1>3, <1>4, <1>5, <1>6 DEF Inv, Proofs
<1>8. CallTypes'
  BY <1>1, <1>2, SpendKeeps DEF Kinds, Inv, CallTypes
<1>9. Seating'
  BY <1>2 DEF Inv, Seating, RoomTypes, Bans, Seated, Lobbies, Hosted
<1> QED
  BY <1>7, <1>8, <1>9 DEF Inv

-----------------------------------------------------------------------------
(* What a step of a match, an admission or a ban must leave. *)

(* Whoever is banned and seated afterwards is chased by this request now, or
   was before by another one. *)
ChaseGoesOn(s) ==
    \A id \in Accounts \ kept', r \in Rooms : controls'[id] = "banned" /\ Seated(id, r)' =>
        \/ Chases(call'[s], id, r)
        \/ id \notin kept /\ controls[id] = "banned" /\ Seated(id, r) /\ ~Chases(call[s], id, r)

SearchGoesOn(s) ==
    \A x \in Owners \ excused' : Searches(call'[s], x) =>
        /\ \A t \in Slots \ {s} : ~Searches(call[t], x)
        /\ \A r \in Hosted(x)' : call'[s].at # "create" /\ r = call'[s].room

NoNewLobby == excused \subseteq excused' /\ \A x \in Owners : Hosted(x)' \subseteq Hosted(x)

LEMMA BansStep ==
  ASSUME Seating, NEW s \in Slots, OneCall(s), ChaseGoesOn(s)
  PROVE  Bans'
<1> SUFFICES ASSUME NEW id \in Accounts \ kept', NEW r \in Rooms,
                    controls'[id] = "banned", Seated(id, r)'
             PROVE  \E t \in Slots : Chases(call'[t], id, r)
  BY DEF Bans
<1>1. CASE Chases(call'[s], id, r)
  BY <1>1
<1>2. CASE id \notin kept /\ controls[id] = "banned" /\ Seated(id, r) /\ ~Chases(call[s], id, r)
  <2>1. PICK t \in Slots : Chases(call[t], id, r)
    BY <1>2 DEF Seating, Bans
  <2> QED
    BY <1>2, <2>1 DEF OneCall
<1> QED
  BY <1>1, <1>2 DEF ChaseGoesOn

LEMMA SeatingStep ==
  ASSUME Seating, NEW s \in Slots, OneCall(s), RoomTypes',
         ChaseGoesOn(s), SearchGoesOn(s), NoNewLobby
  PROVE  Seating'
<1>1. Bans'
  BY BansStep
<1>2. Lobbies'
  <2> SUFFICES ASSUME NEW x \in Owners \ excused'
               PROVE  /\ \A r1, r2 \in Hosted(x)' : r1 = r2
                      /\ \A t \in Slots : Searches(call'[t], x) =>
                           \A r \in Hosted(x)' : call'[t].at # "create" /\ r = call'[t].room
                      /\ \A t, u \in Slots : Searches(call'[t], x) /\ Searches(call'[u], x) => t = u
    BY DEF Lobbies, Searches
  <2>1. x \notin excused /\ Hosted(x)' \subseteq Hosted(x)
    BY DEF NoNewLobby
  <2>2. /\ \A r1, r2 \in Hosted(x) : r1 = r2
        /\ \A t \in Slots : Searches(call[t], x) =>
              \A r \in Hosted(x) : call[t].at # "create" /\ r = call[t].room
        /\ \A t, u \in Slots : Searches(call[t], x) /\ Searches(call[u], x) => t = u
    BY <2>1 DEF Seating, Lobbies
  <2> QED
    BY <2>1, <2>2 DEF SearchGoesOn, OneCall
<1> QED
  BY <1>1, <1>2 DEF Seating

LEMMA StepKeeps ==
  ASSUME Inv, NEW s \in Slots, OneCall(s), Typed(call'[s]), call'[s].op \notin {"register", "session"},
         UNCHANGED <<card, accounts, answers, required>>,
         UNCHANGED left \/ \E kind \in Kinds : Spend(kind),
         RoomTypes', ChaseGoesOn(s), SearchGoesOn(s), NoNewLobby
  PROVE  Inv'
<1>1. CallTypes'
  BY SpendKeeps, CallTypesKeep DEF Inv
<1>2. Proofs'
  BY ProofsRest DEF Proving, Inv, Proofs, AccountTypes
<1>3. Seating'
  BY SeatingStep DEF Inv
<1> QED
  BY <1>1, <1>2, <1>3 DEF Inv

(* A step that leaves the rooms, of a request that neither chases nor searches. *)
LEMMA PlainKeeps ==
  ASSUME Inv, NEW s \in Slots, OneCall(s), Typed(call'[s]), call'[s].op \notin {"register", "session"},
         UNCHANGED <<card, accounts, answers, required>>,
         UNCHANGED left \/ \E kind \in Kinds : Spend(kind),
         UNCHANGED <<rooms, kept, excused>>, tickets' \subseteq Ticket,
         controls' \in [Accounts -> {"absent", "clear", "banned"}],
         \A id \in Accounts : controls'[id] = "banned" => controls[id] = "banned",
         \A id \in Accounts, r \in Rooms : ~Chases(call[s], id, r) \/ controls'[id] # "banned",
         \A x \in Owners : ~Searches(call'[s], x)
  PROVE  Inv'
<1>1. RoomTypes'
  BY DEF Inv, Seating, RoomTypes
<1>2. ChaseGoesOn(s)
  BY DEF ChaseGoesOn, Seated
<1>3. SearchGoesOn(s)
  BY DEF SearchGoesOn
<1>4. NoNewLobby
  BY DEF NoNewLobby, Hosted
<1> QED
  BY <1>1, <1>2, <1>3, <1>4, StepKeeps

(* A match at its next await. *)
LEMMA MatchGoes ==
  ASSUME Inv, NEW s \in Slots, call[s].op = "match", NEW at \in Steps, Goes(s, at),
         at \in Located => call[s].at \in Located \/ call[s].room \in Rooms
  PROVE  /\ OneCall(s) /\ Typed(call'[s])
         /\ call'[s].op = "match" /\ call'[s].at = at /\ call'[s].id = call[s].id
         /\ call'[s].room = call[s].room /\ call'[s].pool = call[s].pool
<1>1. /\ OneCall(s) /\ Request(call'[s])
      /\ call'[s].op = "match" /\ call'[s].at = at /\ call'[s].who = call[s].who
      /\ call'[s].id = call[s].id /\ call'[s].song = call[s].song /\ call'[s].room = call[s].room
      /\ call'[s].pool = call[s].pool
  BY GoesTo DEF Inv
<1> QED
  BY <1>1 DEF Typed, Inv, CallTypes

(* What there is to know of the match or ban a step is about. *)
LEMMA Facts ==
  ASSUME Inv, NEW s \in Slots
  PROVE  /\ CallTypes /\ RoomTypes /\ Bans /\ Lobbies /\ Typed(call[s])
BY DEF Inv, Seating, CallTypes

-----------------------------------------------------------------------------
(* Matching *)

LEMMA MatchKeeps ==
  ASSUME Inv, NEW s \in Slots, Match(s)
  PROVE  Inv'
<1>1. PICK c \in Clients, song \in Songs, pool \in Pools, to \in {None} \cup {r \in Rooms : rooms[r].status # "unused"} :
        /\ required => token[c] # None
        /\ Begins(s, "match", [Idle EXCEPT !.op = "match", !.who = c, !.song = song, !.pool = pool,
               !.room = to, !.id = IF required THEN token[c] ELSE c, !.at = IF required THEN "identity" ELSE "record"])
  BY DEF Match
<1> DEFINE id == IF required THEN token[c] ELSE c
           at == IF required THEN "identity" ELSE "record"
           q == [Idle EXCEPT !.op = "match", !.who = c, !.song = song, !.pool = pool, !.room = to,
                             !.id = id, !.at = at]
<1>2. id \in Accounts /\ at \in {"identity", "record"}
  BY <1>1 DEF Accounts, Inv, Proofs, AccountTypes
<1>3. call' = [call EXCEPT ![s] = q] /\ call[s] = Idle /\ Spend("match")
  BY <1>1 DEF Begins
<1> HIDE DEF id, at
<1>4. q \in [op : {"match"}, at : {at}, who : {c}, id : {id}, row : {None},
             nonce : {None}, room : {to}, song : {song}, pool : {pool}, todo : {{}}]
  BY DEF Idle
<1> HIDE DEF q
<1>5. Typed(q) /\ q.op = "match" /\ q.at \in {"identity", "record"}
  BY <1>2, <1>4 DEF Typed, Request, Kinds, Steps, Located
<1>6. OneCall(s) /\ call'[s] = q
  BY <1>3, SlotStep DEF Inv
<1>7. /\ UNCHANGED <<card, accounts, answers, required, rooms, kept, excused, controls, tickets>>
      /\ \E kind \in Kinds : Spend(kind)
  BY <1>3 DEF Match, play, bans, Kinds
<1> QED
  BY <1>3, <1>5, <1>6, <1>7, IdleTyped, PlainKeeps, Facts DEF RoomTypes, Searches

LEMMA LookKeeps ==
  ASSUME Inv, NEW s \in Slots,
         FindSessionIdentity(s) \/ RecordPlayer(s) \/ CheckBan(s) \/ FindRoom(s)
  PROVE  Inv'
<1>1. /\ call[s].op = "match" /\ call[s].at \in {"identity", "record", "banned", "room"}
      /\ UNCHANGED <<card, accounts, answers, required, left, rooms, kept, excused, tickets>>
  BY DEF FindSessionIdentity, RecordPlayer, CheckBan, FindRoom, At, play, bans
<1>2. /\ controls' \in [Accounts -> {"absent", "clear", "banned"}]
      /\ \A id \in Accounts : controls'[id] = "banned" => controls[id] = "banned"
  BY Facts DEF FindSessionIdentity, RecordPlayer, CheckBan, FindRoom, bans, Recorded, RoomTypes
<1>3. \/ Ends(s) \/ Goes(s, "record") \/ Goes(s, "banned") \/ Goes(s, "own")
      \/ Goes(s, "room") /\ call[s].room # None
      \/ Goes(s, "reserve") /\ call[s].at = "room"
  BY DEF FindSessionIdentity, RecordPlayer, CheckBan, FindRoom, At
<1>4. OneCall(s) /\ Typed(call'[s]) /\ call'[s].op \in {"match", "none"}
      /\ \A x \in Owners : ~Searches(call'[s], x)
  <2>1. CASE Ends(s)
    BY <2>1, EndsIdle, IdleTyped, Facts
  <2>2. ASSUME NEW at \in {"record", "banned", "own", "room", "reserve"}, Goes(s, at),
               at \in {"room", "reserve"} => call[s].room # None
        PROVE  OneCall(s) /\ Typed(call'[s]) /\ call'[s].op \in {"match", "none"}
               /\ \A x \in Owners : ~Searches(call'[s], x)
    <3>1. at \in Steps /\ (at \in Located => call[s].room \in Rooms)
      BY <2>2, Facts DEF Steps, Located, Typed, Request
    <3> QED
      BY <1>1, <2>2, <3>1, MatchGoes DEF Searches
  <2>3. CASE Goes(s, "reserve") /\ call[s].at = "room"
    BY <1>1, <2>3, MatchGoes DEF Searches, Located, Steps
  <2> QED
    BY <1>3, <2>1, <2>2, <2>3
<1>5. \A id, r : ~Chases(call[s], id, r)
  BY <1>1 DEF Chases
<1> QED
  BY <1>1, <1>2, <1>4, <1>5, PlainKeeps, Facts DEF RoomTypes

LEMMA ReserveKeeps ==
  ASSUME Inv, NEW s \in Slots, Reserve(s) \/ ReserveOwn(s)
  PROVE  Inv'
<1> DEFINE id == call[s].id
           room == call[s].room
<1>1. /\ call[s].op = "match" /\ call[s].at \in {"reserve", "reenter"}
      /\ room \in Rooms /\ id \in Accounts
      /\ UNCHANGED <<card, accounts, answers, required, left, kept, excused, tickets, controls>>
  BY Facts DEF Reserve, ReserveOwn, At, bans, Typed, Located
<1>2. CASE rooms' = [rooms EXCEPT ![room].seats = @ \cup {id}] /\ Goes(s, "recheck")
           /\ rooms[room].status = "recruiting"
  <2>1. /\ OneCall(s) /\ Typed(call'[s]) /\ call'[s].op = "match" /\ call'[s].at = "recheck"
        /\ call'[s].id = id /\ call'[s].room = room /\ call'[s].pool = call[s].pool
    BY <1>1, <1>2, MatchGoes DEF Steps, Located
  <2>2. \A r \in Rooms : /\ rooms'[r].status = rooms[r].status /\ rooms'[r].host = rooms[r].host
                         /\ rooms'[r].joined = rooms[r].joined /\ rooms'[r].pool = rooms[r].pool
                         /\ rooms'[r].seats = IF r = room THEN rooms[r].seats \cup {id} ELSE rooms[r].seats
    BY <1>1, <1>2, Facts DEF RoomTypes, Room
  <2>3. rooms' \in [Rooms -> Room]
    BY <1>1, <1>2, Facts DEF RoomTypes, Room
  <2>4. RoomTypes'
    BY <1>1, <2>2, <2>3, Facts DEF RoomTypes
  <2>5. ChaseGoesOn(s)
    <3> SUFFICES ASSUME NEW x \in Accounts \ kept, NEW r \in Rooms,
                        controls[x] = "banned", Seated(x, r)'
                 PROVE  Chases(call'[s], x, r) \/ (Seated(x, r) /\ ~Chases(call[s], x, r))
      BY <1>1 DEF ChaseGoesOn
    <3>1. ~Chases(call[s], x, r)
      BY <1>1 DEF Chases
    <3>2. CASE x = id /\ r = room
      BY <2>1, <3>2 DEF Chases
    <3>3. CASE x # id \/ r # room
      <4>1. rooms'[r].status = rooms[r].status
        BY <2>2
      <4>2. rooms'[r].seats = IF r = room THEN rooms[r].seats \cup {id} ELSE rooms[r].seats
        BY <2>2
      <4>3. x \in rooms'[r].seats => x \in rooms[r].seats
        <5> HIDE DEF id, room
        <5> QED
          BY <3>3, <4>2
      <4> QED
        BY <3>1, <4>1, <4>3 DEF Seated
    <3> QED
      BY <3>2, <3>3
  <2>6. SearchGoesOn(s) /\ NoNewLobby
    BY <1>1, <2>1, <2>2 DEF SearchGoesOn, Searches, NoNewLobby, Hosted
  <2> QED
    BY <1>1, <2>1, <2>4, <2>5, <2>6, StepKeeps
<1>3. CASE Ends(s) /\ UNCHANGED rooms
  BY <1>1, <1>3, EndsIdle, IdleTyped, PlainKeeps, Facts DEF Chases, RoomTypes
<1>4. CASE call[s].at = "reenter" /\ Goes(s, "retire") /\ UNCHANGED rooms
  <2>1. /\ OneCall(s) /\ Typed(call'[s]) /\ call'[s].op = "match" /\ call'[s].at = "retire"
        /\ call'[s].id = id /\ call'[s].room = room /\ call'[s].pool = call[s].pool
    BY <1>1, <1>4, MatchGoes DEF Steps, Located
  <2>2. RoomTypes'
    BY <1>1, <1>4, Facts DEF RoomTypes
  <2>3. ChaseGoesOn(s)
    BY <1>1, <1>4, <2>1 DEF ChaseGoesOn, Chases, Seated
  <2>4. SearchGoesOn(s) /\ NoNewLobby
    BY <1>1, <1>4, <2>1, Facts DEF SearchGoesOn, Searches, NoNewLobby, Hosted, Lobbies
  <2> QED
    BY <1>1, <2>1, <2>2, <2>3, <2>4, StepKeeps
<1> QED
  BY <1>2, <1>3, <1>4 DEF Reserve, ReserveOwn, At, MayReserve, AfterRefusal

(* Without another match of this player, and no play of its own, a lobby found
   is the only one, and where none is found there is none. *)
LEMMA FindOwnRoomKeeps ==
  ASSUME Inv, NEW s \in Slots, FindOwnRoom(s)
  PROVE  Inv'
<1> DEFINE id == call[s].id
           pool == call[s].pool
           x == <<id, pool>>
<1>1. /\ call[s].op = "match" /\ call[s].at = "own" /\ id \in Accounts /\ pool \in Pools
      /\ UNCHANGED <<card, accounts, answers, required, left, kept, rooms, tickets, controls>>
      /\ excused \subseteq excused' /\ excused' \subseteq Owners
      /\ x \notin excused' => ~Overlaps(s) /\ \A r \in Hosted(x) : rooms[r].status = "recruiting"
  BY Facts DEF FindOwnRoom, At, bans, Typed, RoomTypes, Hosted, Owners
<1>2. \A r \in Hosted(x) : rooms[r].status = "recruiting" => r \in FindOwnRecruitingHost(id, pool)
  BY Facts DEF FindOwnRecruitingHost, RoomTypes, Hosted
<1>3. /\ OneCall(s) /\ Typed(call'[s]) /\ call'[s].op = "match" /\ call'[s].id = id /\ call'[s].pool = pool
      /\ \/ FindOwnRecruitingHost(id, pool) = {} /\ call'[s].at = "create"
         \/ call'[s].at # "create" /\ call'[s].room \in FindOwnRecruitingHost(id, pool)
      /\ call'[s].at \in {"create", "reenter", "retire"}
  <2>1. CASE FindOwnRecruitingHost(id, pool) = {} /\ Goes(s, "create")
    BY <1>1, <2>1, MatchGoes DEF Steps, Located
  <2>2. ASSUME NEW own \in FindOwnRecruitingHost(id, pool), NEW at \in {"reenter", "retire"},
               call' = [call EXCEPT ![s].room = own, ![s].at = at]
        PROVE  /\ OneCall(s) /\ Typed(call'[s]) /\ call'[s].op = "match" /\ call'[s].id = id /\ call'[s].pool = pool
               /\ call'[s].at = at /\ call'[s].room = own
    <3>1. own \in Rooms /\ at \in Steps
      BY DEF FindOwnRecruitingHost, Steps
    <3>2. OneCall(s) /\ call'[s] = [call[s] EXCEPT !.room = own, !.at = at]
      BY <2>2, Facts DEF CallTypes, OneCall
    <3>3. /\ Request(call'[s]) /\ call'[s].op = call[s].op /\ call'[s].at = at
          /\ call'[s].who = call[s].who /\ call'[s].id = id /\ call'[s].pool = pool /\ call'[s].room = own
          /\ call'[s].song = call[s].song
      BY <3>1, <3>2, Facts DEF Typed, Request
    <3> QED
      BY <1>1, <3>1, <3>2, <3>3, Facts DEF Typed
  <2> QED
    BY <2>1, <2>2 DEF FindOwnRoom
<1>4. RoomTypes'
  BY <1>1, Facts DEF RoomTypes
<1>5. ChaseGoesOn(s)
  BY <1>1, <1>3 DEF ChaseGoesOn, Chases, Seated
<1>6. NoNewLobby
  BY <1>1 DEF NoNewLobby, Hosted
<1>7. SearchGoesOn(s)
  <2> SUFFICES ASSUME x \notin excused'
               PROVE  /\ \A t \in Slots \ {s} : ~Searches(call[t], x)
                      /\ \A r \in Hosted(x)' : call'[s].at # "create" /\ r = call'[s].room
    BY <1>3 DEF SearchGoesOn, Searches
  <2>1. Hosted(x)' = Hosted(x) /\ Hosted(x) \subseteq FindOwnRecruitingHost(id, pool)
    BY <1>1, <1>2, <1>3 DEF Hosted
  <2>2. \A r \in FindOwnRecruitingHost(id, pool) : r \in Hosted(x)
    BY DEF Hosted, FindOwnRecruitingHost
  <2>3. \A r1, r2 \in Hosted(x) : r1 = r2
    BY <1>1, Facts DEF Lobbies, Owners
  <2>4. \A t \in Slots \ {s} : ~Searches(call[t], x)
    BY <1>1 DEF Overlaps, Searches
  <2> QED
    BY <1>3, <2>1, <2>2, <2>3, <2>4
<1> QED
  BY <1>1, <1>3, <1>4, <1>5, <1>6, <1>7, StepKeeps

(* Closing a room seats nobody and opens nothing. *)
LEMMA ClosedRoom ==
  ASSUME RoomTypes, NEW room \in Rooms, rooms' = Closed(room), UNCHANGED <<controls, tickets, kept, excused>>
  PROVE  /\ RoomTypes' /\ NoNewLobby
         /\ \A x \in Owners : room \notin Hosted(x)'
         /\ \A id \in Accounts, r \in Rooms : Seated(id, r)' => Seated(id, r) /\ r # room
<1>1. \A r \in Rooms : IF r = room
        THEN /\ rooms'[r].status \notin {"recruiting", "playing"} /\ rooms'[r].joined = {}
        ELSE rooms'[r] = rooms[r]
  BY DEF Closed, RoomTypes, Room
<1>2. rooms' \in [Rooms -> Room]
  <2> DEFINE new == [rooms[room] EXCEPT
                       !.status = IF @ \in {"recruiting", "playing"} THEN "closed" ELSE @, !.joined = {}]
  <2>1. new \in Room
    BY DEF RoomTypes, Room
  <2>2. rooms' = [rooms EXCEPT ![room] = new]
    BY DEF Closed, RoomTypes
  <2> HIDE DEF new
  <2> QED
    BY <2>1, <2>2 DEF RoomTypes
<1>3. RoomTypes'
  BY <1>1, <1>2 DEF RoomTypes
<1> QED
  BY <1>1, <1>3 DEF NoNewLobby, Hosted, Seated

LEMMA RetireOwnKeeps ==
  ASSUME Inv, NEW s \in Slots, RetireOwn(s)
  PROVE  Inv'
<1> DEFINE id == call[s].id
           room == call[s].room
<1>1. /\ call[s].op = "match" /\ call[s].at = "retire" /\ room \in Rooms /\ id \in Accounts
      /\ rooms' = Closed(room) /\ Goes(s, "create")
      /\ UNCHANGED <<card, accounts, answers, required, left, kept, excused, tickets, controls>>
  BY Facts DEF RetireOwn, At, bans, Typed, Located
<1>2. /\ OneCall(s) /\ Typed(call'[s]) /\ call'[s].op = "match" /\ call'[s].at = "create"
      /\ call'[s].id = id /\ call'[s].pool = call[s].pool
  BY <1>1, MatchGoes DEF Steps, Located
<1>3. /\ RoomTypes' /\ NoNewLobby /\ \A x \in Owners : call[s].room \notin Hosted(x)'
      /\ \A x \in Accounts, r \in Rooms : Seated(x, r)' => Seated(x, r)
  BY <1>1, ClosedRoom, Facts
<1>4. ChaseGoesOn(s)
  BY <1>1, <1>3 DEF ChaseGoesOn, Chases
<1>5. SearchGoesOn(s)
  <2> SUFFICES ASSUME NEW x \in Owners \ excused', Searches(call'[s], x)
               PROVE  Hosted(x)' = {} /\ \A t \in Slots \ {s} : ~Searches(call[t], x)
    BY DEF SearchGoesOn
  <2>1. x \notin excused /\ Searches(call[s], x)
    BY <1>1, <1>2 DEF Searches
  <2>2. /\ \A r \in Hosted(x) : r = call[s].room
        /\ \A t \in Slots : Searches(call[t], x) => s = t
    BY <2>1, Facts DEF Lobbies
  <2>3. Hosted(x)' \subseteq Hosted(x)
    BY <1>3 DEF NoNewLobby
  <2> QED
    BY <1>3, <2>2, <2>3
<1> QED
  BY <1>1, <1>2, <1>3, <1>4, <1>5, StepKeeps

(* The lobby it opens is the only one: this match found, or left, none. *)
LEMMA CreateRoomKeeps ==
  ASSUME Inv, NEW s \in Slots, CreateRoom(s)
  PROVE  Inv'
<1> DEFINE id == call[s].id
           pool == call[s].pool
<1>1. /\ call[s].op = "match" /\ call[s].at = "create" /\ id \in Accounts /\ call[s].song \in Songs
      /\ pool \in Pools
      /\ UNCHANGED <<card, accounts, answers, required, left, kept, excused, tickets, controls>>
  BY Facts DEF CreateRoom, At, bans, Typed
<1>2. PICK room \in Rooms :
        /\ rooms[room].status = "unused"
        /\ rooms' = [rooms EXCEPT ![room] = NewRoom(id, call[s].song, pool)]
        /\ call' = [call EXCEPT ![s].room = room, ![s].at = "recheck"]
  BY DEF CreateRoom
<1>3. OneCall(s) /\ call'[s] = [call[s] EXCEPT !.room = room, !.at = "recheck"]
  BY <1>2, Facts DEF CallTypes, OneCall
<1>4. /\ Request(call'[s]) /\ call'[s].op = "match" /\ call'[s].at = "recheck"
      /\ call'[s].who = call[s].who /\ call'[s].id = id /\ call'[s].room = room
      /\ call'[s].song = call[s].song /\ call'[s].pool = pool
  <2>1. "recheck" \in Steps
    BY DEF Steps
  <2> QED
    BY <1>1, <1>3, <2>1, Facts DEF Typed, Request
<1>5. Typed(call'[s])
  BY <1>1, <1>4, Facts DEF Typed
<1>6. NewRoom(id, call[s].song, pool) \in Room
  BY <1>1 DEF NewRoom, Room
<1>7. \A r \in Rooms : IF r = room
        THEN /\ rooms'[r].status = "recruiting" /\ rooms'[r].host = id /\ rooms'[r].pool = pool
             /\ rooms'[r].seats = {id} /\ rooms'[r].joined = {}
        ELSE rooms'[r] = rooms[r]
  BY <1>2, Facts DEF NewRoom, RoomTypes
<1>8. rooms' \in [Rooms -> Room]
  BY <1>2, <1>6, Facts DEF RoomTypes
<1>9. RoomTypes'
  BY <1>1, <1>7, <1>8, Facts DEF RoomTypes
<1>10. ChaseGoesOn(s)
  BY <1>1, <1>4, <1>7 DEF ChaseGoesOn, Chases, Seated
<1>11. Bans'
  BY <1>3, <1>10, BansStep DEF Inv
<1>12. Lobbies'
  <2> SUFFICES ASSUME NEW x \in Owners \ excused
               PROVE  /\ \A r1, r2 \in Hosted(x)' : r1 = r2
                      /\ \A t \in Slots : Searches(call'[t], x) =>
                           \A r \in Hosted(x)' : call'[t].at # "create" /\ r = call'[t].room
                      /\ \A t, u \in Slots : Searches(call'[t], x) /\ Searches(call'[u], x) => t = u
    BY <1>1 DEF Lobbies, Searches
  <2>1. /\ \A r1, r2 \in Hosted(x) : r1 = r2
        /\ \A t \in Slots : Searches(call[t], x) =>
              \A r \in Hosted(x) : call[t].at # "create" /\ r = call[t].room
        /\ \A t, u \in Slots : Searches(call[t], x) /\ Searches(call[u], x) => t = u
    BY Facts DEF Lobbies
  <2>2. ~Searches(call'[s], x) /\ \A t \in Slots \ {s} : call'[t] = call[t]
    BY <1>3, <1>4 DEF Searches, OneCall
  <2>3. CASE x = <<id, pool>>
    <3>1. Searches(call[s], x)
      BY <1>1, <2>3 DEF Searches
    <3>2. Hosted(x) = {} /\ \A t \in Slots : ~Searches(call'[t], x)
      BY <1>1, <2>1, <2>2, <3>1
    <3>3. Hosted(x)' \subseteq {room}
      BY <1>7, <3>2 DEF Hosted
    <3> QED
      BY <3>2, <3>3
  <2>4. CASE x # <<id, pool>>
    <3>1. Hosted(x)' \subseteq Hosted(x)
      BY <1>7, <2>4 DEF Hosted
    <3> QED
      BY <2>1, <2>2, <3>1
  <2> QED
    BY <2>3, <2>4
<1>13. CallTypes' /\ Proofs'
  BY <1>1, <1>3, <1>4, <1>5, CallTypesKeep, ProofsRest DEF Proving, Inv, CallTypes, Proofs, AccountTypes
<1> QED
  BY <1>9, <1>11, <1>12, <1>13 DEF Inv, Seating

LEMMA CreateFailsKeeps ==
  ASSUME Inv, NEW s \in Slots, CreateFails(s)
  PROVE  Inv'
<1>1. /\ call[s].op = "match" /\ call[s].at = "create" /\ call[s].id \in Accounts
      /\ call[s].song \in Songs /\ call[s].pool \in Pools /\ OneCall(s) /\ call'[s] = Idle
      /\ UNCHANGED <<card, accounts, answers, required, kept, excused, tickets, controls>>
      /\ \E kind \in Kinds : Spend(kind)
  BY Facts, EndsIdle DEF CreateFails, At, bans, Typed, Kinds
<1>2. PICK room \in Rooms :
        /\ rooms[room].status = "unused"
        /\ rooms' = [rooms EXCEPT ![room] = [NewRoom(call[s].id, call[s].song, call[s].pool) EXCEPT !.status = "closed"]]
  BY DEF CreateFails
<1>3. [NewRoom(call[s].id, call[s].song, call[s].pool) EXCEPT !.status = "closed"] \in Room
  BY <1>1 DEF NewRoom, Room
<1>4. \A r \in Rooms : IF r = room
        THEN rooms'[r].status = "closed" /\ rooms'[r].joined = {}
        ELSE rooms'[r] = rooms[r]
  BY <1>2, Facts DEF NewRoom, RoomTypes
<1>5. rooms' \in [Rooms -> Room]
  BY <1>2, <1>3, Facts DEF RoomTypes
<1>6. RoomTypes'
  BY <1>1, <1>4, <1>5, Facts DEF RoomTypes
<1>7. ChaseGoesOn(s)
  BY <1>1, <1>4 DEF ChaseGoesOn, Chases, Seated
<1>8. SearchGoesOn(s) /\ NoNewLobby
  BY <1>1, <1>4, IdleTyped DEF SearchGoesOn, NoNewLobby, Hosted
<1> QED
  BY <1>1, <1>6, <1>7, <1>8, IdleTyped, StepKeeps

LEMMA RecheckKeeps ==
  ASSUME Inv, NEW s \in Slots, Recheck(s)
  PROVE  Inv'
<1> DEFINE id == call[s].id
           room == call[s].room
<1>1. /\ call[s].op = "match" /\ call[s].at = "recheck" /\ id \in Accounts /\ room \in Rooms
      /\ call[s].who \in Clients
      /\ UNCHANGED <<card, accounts, answers, required, left, rooms, kept, excused, controls>>
  BY Facts DEF Recheck, At, bans, Typed, Located
<1>2. CASE Goes(s, "expel") /\ UNCHANGED tickets
  <2>1. /\ OneCall(s) /\ Typed(call'[s]) /\ call'[s].op = "match" /\ call'[s].at = "expel"
        /\ call'[s].id = id /\ call'[s].room = room /\ call'[s].pool = call[s].pool
    BY <1>1, <1>2, MatchGoes DEF Steps, Located
  <2>2. RoomTypes' /\ NoNewLobby
    BY <1>1, <1>2, Facts DEF RoomTypes, NoNewLobby, Hosted
  <2>3. ChaseGoesOn(s) /\ SearchGoesOn(s)
    BY <1>1, <2>1 DEF ChaseGoesOn, Chases, Seated, SearchGoesOn, Searches
  <2> QED
    BY <1>1, <2>1, <2>2, <2>3, StepKeeps
<1>3. CASE /\ controls[id] = "clear" /\ Ends(s)
           /\ tickets' = tickets \cup {[who |-> call[s].who, id |-> id, room |-> room]}
  <2>1. tickets' \subseteq Ticket
    BY <1>1, <1>3, Facts DEF RoomTypes, Ticket
  <2>2. \A x \in Accounts, r \in Rooms : ~Chases(call[s], x, r) \/ controls'[x] # "banned"
    BY <1>1, <1>3 DEF Chases
  <2> QED
    BY <1>1, <1>3, <2>1, <2>2, EndsIdle, IdleTyped, PlainKeeps, Facts DEF RoomTypes
<1> QED
  BY <1>2, <1>3 DEF Recheck, BannedMeanwhile

(* Whoever banPlayer concerns has no seat in the room afterwards, or is one of
   those a failure left there. *)
LEMMA BanPlayerKeeps ==
  ASSUME RoomTypes, NEW room \in Rooms, NEW id \in Accounts, BanPlayer(room, id),
         UNCHANGED <<controls, tickets, excused>>
  PROVE  /\ RoomTypes' /\ NoNewLobby /\ kept \subseteq kept'
         /\ UNCHANGED left \/ \E kind \in Kinds : Spend(kind)
         /\ id \in kept' \/ ~Seated(id, room)'
         /\ \A x \in Accounts, r \in Rooms : Seated(x, r)' => Seated(x, r)
<1>1. CASE UNCHANGED rooms /\ kept' = kept \cup {id} /\ Spend("fault")
  BY <1>1 DEF RoomTypes, NoNewLobby, Hosted, Seated, Kinds
<1>2. CASE rooms' = Expelled(room, id) /\ UNCHANGED <<kept, left>>
  <2>1. CASE UNCHANGED rooms /\ ~Seated(id, room)
    BY <1>2, <2>1 DEF RoomTypes, NoNewLobby, Hosted, Seated
  <2>2. CASE rooms' = Closed(room)
    BY <1>2, <2>2, ClosedRoom
  <2>3. CASE /\ rooms' = [rooms EXCEPT ![room].seats = @ \ {id}, ![room].joined = @ \ {id}]
             /\ id # rooms[room].host
    <3>1. \A r \in Rooms : IF r = room
            THEN /\ rooms'[r].status = rooms[r].status /\ rooms'[r].host = rooms[r].host
                 /\ rooms'[r].seats = rooms[r].seats \ {id} /\ rooms'[r].joined = rooms[r].joined \ {id}
                 /\ rooms'[r].pool = rooms[r].pool
            ELSE rooms'[r] = rooms[r]
      BY <2>3 DEF RoomTypes, Room
    <3>2. rooms' \in [Rooms -> Room]
      <4> DEFINE new == [rooms[room] EXCEPT !.seats = @ \ {id}, !.joined = @ \ {id}]
      <4>1. new \in Room
        BY DEF RoomTypes, Room
      <4>2. rooms' = [rooms EXCEPT ![room] = new]
        BY <2>3 DEF RoomTypes
      <4> HIDE DEF new
      <4> QED
        BY <4>1, <4>2 DEF RoomTypes
    <3>3. RoomTypes'
      BY <1>2, <2>3, <3>1, <3>2 DEF RoomTypes
    <3> QED
      BY <1>2, <3>1, <3>3 DEF NoNewLobby, Hosted, Seated
  <2> QED
    BY <1>2, <2>1, <2>2, <2>3 DEF Expelled, Seated
<1> QED
  BY <1>1, <1>2 DEF BanPlayer

LEMMA ExpelOwnKeeps ==
  ASSUME Inv, NEW s \in Slots, ExpelOwn(s)
  PROVE  Inv'
<1>1. /\ call[s].op = "match" /\ call[s].at = "expel" /\ call[s].id \in Accounts /\ call[s].room \in Rooms
      /\ OneCall(s) /\ call'[s] = Idle /\ BanPlayer(call[s].room, call[s].id)
      /\ UNCHANGED <<card, accounts, answers, required, excused, tickets, controls>>
  BY Facts, EndsIdle DEF ExpelOwn, At, Typed, Located
<1>2. /\ RoomTypes' /\ NoNewLobby /\ kept \subseteq kept'
      /\ UNCHANGED left \/ \E kind \in Kinds : Spend(kind)
      /\ \A x \in Accounts, r \in Rooms : Seated(x, r)' =>
            Seated(x, r) /\ (x \in kept' \/ x # call[s].id \/ r # call[s].room)
  BY <1>1, BanPlayerKeeps, Facts
<1>3. ChaseGoesOn(s)
  BY <1>1, <1>2 DEF ChaseGoesOn, Chases
<1>4. SearchGoesOn(s)
  BY <1>1, IdleTyped DEF SearchGoesOn
<1> QED
  BY <1>1, <1>2, <1>3, <1>4, IdleTyped, StepKeeps

-----------------------------------------------------------------------------
(* Admission *)

LEMMA AdmitKeeps ==
  ASSUME Inv, NEW s \in Slots, Admit(s)
  PROVE  Inv'
<1>1. PICK t \in tickets :
        Begins(s, "admit", [Idle EXCEPT !.op = "admit", !.at = "banned", !.who = t.who,
               !.id = t.id, !.room = t.room])
  BY DEF Admit
<1> DEFINE q == [Idle EXCEPT !.op = "admit", !.at = "banned", !.who = t.who, !.id = t.id, !.room = t.room]
<1>2. t.who \in Clients /\ t.id \in Accounts /\ t.room \in Rooms
  BY Facts DEF RoomTypes, Ticket
<1>3. q \in [op : {"admit"}, at : {"banned"}, who : {t.who}, id : {t.id}, row : {None},
              nonce : {None}, room : {t.room}, song : {None}, pool : {None}, todo : {{}}]
  BY DEF Idle
<1>4. call[s] = Idle /\ Spend("admit") /\ OneCall(s) /\ call'[s] = q
  BY <1>1, SlotStep, Facts DEF Begins
<1> HIDE DEF q
<1>5. Typed(q) /\ q.op = "admit"
  BY <1>2, <1>3 DEF Typed, Request, Kinds, Steps
<1>6. /\ UNCHANGED <<card, accounts, answers, required, rooms, kept, excused, controls, tickets>>
      /\ \E kind \in Kinds : Spend(kind)
  BY <1>4 DEF Admit, play, bans, Kinds
<1> QED
  BY <1>4, <1>5, <1>6, IdleTyped, PlainKeeps, Facts DEF RoomTypes, Searches

LEMMA AdmitBanKeeps ==
  ASSUME Inv, NEW s \in Slots, AdmitBan(s)
  PROVE  Inv'
<1>1. /\ call[s].op = "admit"
      /\ UNCHANGED <<card, accounts, answers, required, left, rooms, kept, excused, controls, tickets>>
  BY DEF AdmitBan, At, play, bans
<1>2. OneCall(s) /\ Typed(call'[s]) /\ call'[s].op \in {"admit", "none"}
  <2>1. CASE Ends(s)
    BY <2>1, EndsIdle, IdleTyped, Facts
  <2>2. CASE Goes(s, "join")
    <3>1. /\ OneCall(s) /\ Request(call'[s]) /\ call'[s].op = "admit" /\ call'[s].who = call[s].who
          /\ call'[s].id = call[s].id /\ call'[s].room = call[s].room
      BY <1>1, <2>2, GoesTo, Facts DEF Steps
    <3> QED
      BY <1>1, <3>1, Facts DEF Typed
  <2> QED
    BY <2>1, <2>2 DEF AdmitBan
<1> QED
  BY <1>1, <1>2, PlainKeeps, Facts DEF RoomTypes, Chases, Searches

LEMMA JoinKeeps ==
  ASSUME Inv, NEW s \in Slots, Join(s)
  PROVE  Inv'
<1> DEFINE id == call[s].id
           room == call[s].room
<1>1. /\ call[s].op = "admit" /\ id \in Accounts /\ room \in Rooms
      /\ OneCall(s) /\ call'[s] = Idle
      /\ UNCHANGED <<card, accounts, answers, required, left, kept, excused, tickets, controls>>
  BY Facts, EndsIdle DEF Join, At, bans, Typed
<1>2. CASE UNCHANGED rooms
  BY <1>1, <1>2, IdleTyped, PlainKeeps, Facts DEF RoomTypes, Chases
<1>3. CASE rooms' = [rooms EXCEPT ![room].joined = @ \cup {id}] /\ id \in rooms[room].seats
  <2>1. \A r \in Rooms : /\ rooms'[r].status = rooms[r].status /\ rooms'[r].host = rooms[r].host
                         /\ rooms'[r].seats = rooms[r].seats /\ rooms'[r].pool = rooms[r].pool
                         /\ rooms'[r].joined = IF r = room THEN rooms[r].joined \cup {id} ELSE rooms[r].joined
    BY <1>1, <1>3, Facts DEF RoomTypes, Room
  <2>2. rooms' \in [Rooms -> Room]
    BY <1>1, <1>3, Facts DEF RoomTypes, Room
  <2>3. RoomTypes'
    BY <1>1, <1>3, <2>1, <2>2, Facts DEF RoomTypes
  <2>4. ChaseGoesOn(s)
    BY <1>1, <2>1 DEF ChaseGoesOn, Chases, Seated
  <2>5. SearchGoesOn(s) /\ NoNewLobby
    BY <1>1, <2>1, IdleTyped DEF SearchGoesOn, NoNewLobby, Hosted
  <2> QED
    BY <1>1, <2>3, <2>4, <2>5, IdleTyped, StepKeeps
<1> QED
  BY <1>2, <1>3 DEF Join

-----------------------------------------------------------------------------
(* Administration *)

LEMMA BanKeeps ==
  ASSUME Inv, NEW s \in Slots, Ban(s)
  PROVE  Inv'
<1>1. PICK id \in Accounts :
        /\ controls' = [controls EXCEPT ![id] = "banned"]
        /\ Begins(s, "ban", [Idle EXCEPT !.op = "ban", !.at = "rooms", !.id = id])
  BY DEF Ban
<1> DEFINE q == [Idle EXCEPT !.op = "ban", !.at = "rooms", !.id = id]
<1>2. q \in [op : {"ban"}, at : {"rooms"}, who : {None}, id : {id}, row : {None},
              nonce : {None}, room : {None}, song : {None}, pool : {None}, todo : {{}}]
  BY DEF Idle
<1>3. call[s] = Idle /\ Spend("ban") /\ OneCall(s) /\ call'[s] = q
  BY <1>1, SlotStep, Facts DEF Begins
<1> HIDE DEF q
<1>4. Typed(q) /\ q.op = "ban" /\ q.at = "rooms" /\ q.id = id
  BY <1>2 DEF Typed, Request, Kinds, Steps
<1>5. /\ UNCHANGED <<card, accounts, answers, required, rooms, kept, excused, tickets>>
      /\ \E kind \in Kinds : Spend(kind)
  BY <1>3 DEF Ban, play, Kinds
<1>6. RoomTypes'
  BY <1>1, <1>5, Facts DEF RoomTypes
<1>7. ChaseGoesOn(s)
  BY <1>1, <1>3, <1>4, <1>5, IdleTyped, Facts DEF ChaseGoesOn, Chases, Seated, RoomTypes
<1>8. SearchGoesOn(s) /\ NoNewLobby
  BY <1>3, <1>4, <1>5 DEF SearchGoesOn, Searches, NoNewLobby, Hosted
<1> QED
  BY <1>3, <1>4, <1>5, <1>6, <1>7, <1>8, StepKeeps

LEMMA ActiveRoomsKeeps ==
  ASSUME Inv, NEW s \in Slots, ActiveRooms(s)
  PROVE  Inv'
<1> DEFINE id == call[s].id
<1>1. /\ call[s].op = "ban" /\ call[s].at = "rooms" /\ id \in Accounts
      /\ UNCHANGED <<card, accounts, answers, required, left, rooms, kept, excused, controls, tickets>>
  BY Facts DEF ActiveRooms, At, play, bans, Typed
<1>2. /\ OneCall(s) /\ Typed(call'[s]) /\ call'[s].op \in {"ban", "none"}
      /\ \A r \in Rooms : Seated(id, r) => Chases(call'[s], id, r)
  <2>1. CASE ActiveRoomIdsFor(id) = {} /\ Ends(s)
    BY <2>1, EndsIdle, IdleTyped, Facts DEF ActiveRoomIdsFor, Seated
  <2>2. CASE call' = [call EXCEPT ![s].at = "expel", ![s].todo = ActiveRoomIdsFor(id)]
    <3>1. OneCall(s) /\ call'[s] = [call[s] EXCEPT !.at = "expel", !.todo = ActiveRoomIdsFor(id)]
      BY <2>2, Facts DEF CallTypes, OneCall
    <3>2. ActiveRoomIdsFor(id) \subseteq Rooms /\ "expel" \in Steps
      BY DEF ActiveRoomIdsFor, Steps
    <3>3. /\ Request(call'[s]) /\ call'[s].op = "ban" /\ call'[s].id = id /\ call'[s].at = "expel"
          /\ call'[s].todo = ActiveRoomIdsFor(id)
      BY <1>1, <3>1, <3>2, Facts DEF Typed, Request
    <3>4. Typed(call'[s])
      BY <1>1, <3>3 DEF Typed
    <3> QED
      BY <3>1, <3>3, <3>4 DEF Chases, ActiveRoomIdsFor, Seated
  <2> QED
    BY <2>1, <2>2 DEF ActiveRooms
<1>3. RoomTypes'
  BY <1>1, Facts DEF RoomTypes
<1>4. ChaseGoesOn(s)
  <2> SUFFICES ASSUME NEW x \in Accounts \ kept, NEW r \in Rooms, controls[x] = "banned", Seated(x, r),
                      Chases(call[s], x, r)
               PROVE  Chases(call'[s], x, r)
    BY <1>1 DEF ChaseGoesOn, Seated
  <2> QED
    BY <1>2 DEF Chases
<1>5. SearchGoesOn(s) /\ NoNewLobby
  BY <1>1, <1>2 DEF SearchGoesOn, Searches, NoNewLobby, Hosted
<1> QED
  BY <1>1, <1>2, <1>3, <1>4, <1>5, StepKeeps

LEMMA ExpelBannedKeeps ==
  ASSUME Inv, NEW s \in Slots, ExpelBanned(s)
  PROVE  Inv'
<1> DEFINE id == call[s].id
<1>1. PICK room \in call[s].todo :
        /\ At(s, "ban", "expel") /\ BanPlayer(room, id)
        /\ IF call[s].todo = {room} THEN Ends(s) ELSE call' = [call EXCEPT ![s].todo = @ \ {room}]
        /\ UNCHANGED <<card, accounts, answers, tickets, excused, controls, required>>
  BY DEF ExpelBanned
<1>2. /\ call[s].op = "ban" /\ call[s].at = "expel" /\ id \in Accounts /\ room \in Rooms
      /\ call[s].todo \subseteq Rooms
  BY <1>1, Facts DEF At, Typed, Request
<1>3. /\ RoomTypes' /\ NoNewLobby /\ kept \subseteq kept'
      /\ UNCHANGED left \/ \E kind \in Kinds : Spend(kind)
      /\ \A x \in Accounts, r \in Rooms : Seated(x, r)' =>
            Seated(x, r) /\ (x \in kept' \/ x # id \/ r # room)
  BY <1>1, <1>2, BanPlayerKeeps, Facts
<1>4. /\ OneCall(s) /\ Typed(call'[s]) /\ call'[s].op \in {"ban", "none"}
      /\ \A r \in Rooms : Chases(call[s], id, r) => r = room \/ Chases(call'[s], id, r)
  <2>1. CASE call[s].todo = {room} /\ Ends(s)
    BY <1>2, <2>1, EndsIdle, IdleTyped, Facts DEF Chases
  <2>2. CASE call' = [call EXCEPT ![s].todo = @ \ {room}]
    <3>1. OneCall(s) /\ call'[s] = [call[s] EXCEPT !.todo = call[s].todo \ {room}]
      BY <2>2, Facts DEF CallTypes, OneCall
    <3>2. /\ Request(call'[s]) /\ call'[s].op = "ban" /\ call'[s].id = id /\ call'[s].at = "expel"
          /\ call'[s].todo = call[s].todo \ {room}
      BY <1>2, <3>1, Facts DEF Typed, Request
    <3>3. Typed(call'[s])
      BY <1>2, <3>2 DEF Typed
    <3> QED
      BY <1>2, <3>1, <3>2, <3>3 DEF Chases
  <2> QED
    BY <1>1, <2>1, <2>2
<1>5. ChaseGoesOn(s)
  <2> SUFFICES ASSUME NEW x \in Accounts \ kept', NEW r \in Rooms, controls[x] = "banned", Seated(x, r)',
                      Chases(call[s], x, r)
               PROVE  Chases(call'[s], x, r)
    BY <1>1, <1>3 DEF ChaseGoesOn
  <2> QED
    BY <1>3, <1>4 DEF Chases
<1>6. SearchGoesOn(s)
  BY <1>4 DEF SearchGoesOn, Searches
<1> QED
  BY <1>1, <1>3, <1>4, <1>5, <1>6, StepKeeps

(* A step that is no request's: no row of a table is new, and nobody gets a
   seat or a lobby. *)
LEMMA NobodyKeeps ==
  ASSUME Inv, UNCHANGED <<card, identities, born, asked, deleted, answers, call>>,
         challenges' \subseteq challenges, required' \in BOOLEAN, \E kind \in Kinds : Spend(kind),
         RoomTypes', NoNewLobby,
         \A id \in Accounts, r \in Rooms : id \notin kept' /\ controls'[id] = "banned" /\ Seated(id, r)' =>
             id \notin kept /\ controls[id] = "banned" /\ Seated(id, r)
  PROVE  Inv'
<1>1. CallTypes'
  <2>1. left' \in [Kinds -> Nat]
    BY SpendKeeps DEF Inv
  <2> QED
    BY <2>1 DEF Inv, CallTypes
<1>2. Proofs'
  <2>1. AccountTypes' /\ Tables'
    BY DEF Inv, Proofs, AccountTypes, Tables, answers
  <2>2. ASSUME NEW t \in Slots PROVE Proving(call[t])'
    BY DEF Inv, Proofs, Proving, Owns
  <2> QED
    BY <2>1, <2>2 DEF Inv, Proofs, Owns, answers
<1>3. Bans'
  BY DEF Bans, Inv, Seating
<1>4. Lobbies'
  <2> SUFFICES ASSUME NEW x \in Owners \ excused'
               PROVE  /\ \A r1, r2 \in Hosted(x)' : r1 = r2
                      /\ \A t \in Slots : Searches(call[t], x) =>
                           \A r \in Hosted(x)' : call[t].at # "create" /\ r = call[t].room
                      /\ \A t, u \in Slots : Searches(call[t], x) /\ Searches(call[u], x) => t = u
    BY DEF Lobbies
  <2>1. x \notin excused /\ Hosted(x)' \subseteq Hosted(x)
    BY DEF NoNewLobby
  <2> QED
    BY <2>1 DEF Lobbies, Inv, Seating
<1> QED
  BY <1>1, <1>2, <1>3, <1>4 DEF Inv, Seating

LEMMA AdministerKeeps ==
  ASSUME Inv, Unban \/ SetIdentityRequired \/ CloseBattle
  PROVE  Inv'
<1>1. CASE Unban
  <2>1. PICK id \in Accounts : controls' = [controls EXCEPT ![id] = "clear"] /\ kept' = kept \ {id}
    BY <1>1 DEF Unban
  <2>2. /\ UNCHANGED <<card, accounts, answers, play, required, call>>
        /\ \E kind \in Kinds : Spend(kind)
    BY <1>1 DEF Unban, Kinds
  <2>3. controls \in [Accounts -> {"absent", "clear", "banned"}] /\ required \in BOOLEAN
    BY DEF Inv, Seating, RoomTypes, Proofs, AccountTypes
  <2>4. RoomTypes'
    BY <2>1, <2>2 DEF Inv, Seating, RoomTypes, play
  <2> QED
    BY <2>1, <2>2, <2>3, <2>4, NobodyKeeps DEF accounts, play, NoNewLobby, Hosted, Seated
<1>2. CASE SetIdentityRequired
  <2>1. /\ UNCHANGED <<card, accounts, answers, play, bans, call>>
        /\ required' = ~required /\ \E kind \in Kinds : Spend(kind)
    BY <1>2 DEF SetIdentityRequired, Kinds
  <2>2. required' \in BOOLEAN
    BY <2>1
  <2>3. RoomTypes'
    BY <2>1 DEF Inv, Seating, RoomTypes, play, bans
  <2> QED
    BY <2>1, <2>2, <2>3, NobodyKeeps DEF accounts, play, bans, NoNewLobby, Hosted, Seated
<1>3. CASE CloseBattle
  <2>1. PICK room \in Rooms : rooms' = Closed(room)
    BY <1>3 DEF CloseBattle
  <2>2. /\ UNCHANGED <<card, accounts, answers, tickets, excused, controls, kept, required, call>>
        /\ \E kind \in Kinds : Spend(kind)
    BY <1>3 DEF CloseBattle, bans, Kinds
  <2>3. /\ RoomTypes' /\ NoNewLobby
        /\ \A id \in Accounts, r \in Rooms : Seated(id, r)' => Seated(id, r)
    BY <2>1, <2>2, ClosedRoom DEF Inv, Seating
  <2>4. required' \in BOOLEAN
    BY <2>2 DEF Inv, Proofs, AccountTypes
  <2> QED
    BY <2>2, <2>3, <2>4, NobodyKeeps DEF accounts
<1> QED
  BY <1>1, <1>2, <1>3

LEMMA PlayKeeps ==
  ASSUME Inv, PlayStarts \/ PlayEnds
  PROVE  Inv'
<1>1. PICK room \in Rooms :
        \/ /\ rooms[room].status = "recruiting" /\ rooms[room].host \in rooms[room].joined
           /\ rooms' = [rooms EXCEPT ![room].status = "playing", ![room].seats = rooms[room].joined]
        \/ /\ rooms[room].status = "playing"
           /\ rooms' = [rooms EXCEPT ![room].status = "recruiting"]
  BY DEF PlayStarts, PlayEnds
<1>2. /\ UNCHANGED <<card, accounts, answers, tickets, excused, controls, kept, required, call>>
      /\ \E kind \in Kinds : Spend(kind)
  BY DEF PlayStarts, PlayEnds, bans, Kinds
<1>3. RoomTypes /\ required' \in BOOLEAN
  BY <1>2 DEF Inv, Seating, Proofs, AccountTypes
<1>4. \E new \in Room :
        /\ rooms' = [rooms EXCEPT ![room] = new]
        /\ rooms[room].status \in {"recruiting", "playing"} /\ new.host = rooms[room].host
        /\ new.seats \subseteq rooms[room].seats /\ new.joined \subseteq new.seats
        /\ new.host \in new.seats /\ new.pool = rooms[room].pool
  <2>1. rooms[room] \in Room
    BY <1>3 DEF RoomTypes
  <2>2. CASE /\ rooms[room].status = "recruiting" /\ rooms[room].host \in rooms[room].joined
             /\ rooms' = [rooms EXCEPT ![room].status = "playing", ![room].seats = rooms[room].joined]
    <3> DEFINE new == [rooms[room] EXCEPT !.status = "playing", !.seats = rooms[room].joined]
    <3>1. /\ new \in Room /\ new.host = rooms[room].host /\ new.pool = rooms[room].pool
          /\ new.seats = rooms[room].joined /\ new.joined = rooms[room].joined
      BY <2>1 DEF Room
    <3>2. rooms' = [rooms EXCEPT ![room] = new]
      BY <1>3, <2>2 DEF RoomTypes
    <3> HIDE DEF new
    <3> QED
      BY <1>3, <2>2, <3>1, <3>2 DEF RoomTypes
  <2>3. CASE /\ rooms[room].status = "playing"
             /\ rooms' = [rooms EXCEPT ![room].status = "recruiting"]
    <3> DEFINE new == [rooms[room] EXCEPT !.status = "recruiting"]
    <3>1. /\ new \in Room /\ new.host = rooms[room].host /\ new.pool = rooms[room].pool
          /\ new.seats = rooms[room].seats /\ new.joined = rooms[room].joined
      BY <2>1 DEF Room
    <3>2. rooms' = [rooms EXCEPT ![room] = new]
      BY <1>3, <2>3 DEF RoomTypes
    <3> HIDE DEF new
    <3> QED
      BY <1>3, <2>3, <3>1, <3>2 DEF RoomTypes
  <2> QED
    BY <1>1, <2>2, <2>3
<1>5. PICK new \in Room :
        /\ rooms' = [rooms EXCEPT ![room] = new]
        /\ rooms[room].status \in {"recruiting", "playing"} /\ new.host = rooms[room].host
        /\ new.seats \subseteq rooms[room].seats /\ new.joined \subseteq new.seats
        /\ new.host \in new.seats /\ new.pool = rooms[room].pool
  BY <1>4
<1>6. rooms' \in [Rooms -> Room] /\ \A r \in Rooms : rooms'[r] = IF r = room THEN new ELSE rooms[r]
  BY <1>3, <1>5 DEF RoomTypes
<1>7. RoomTypes'
  BY <1>2, <1>3, <1>5, <1>6 DEF RoomTypes
<1>8. NoNewLobby /\ \A id \in Accounts, r \in Rooms : Seated(id, r)' => Seated(id, r)
  BY <1>2, <1>5, <1>6 DEF NoNewLobby, Hosted, Seated
<1> QED
  BY <1>2, <1>3, <1>7, <1>8, NobodyKeeps DEF accounts

LEMMA PurgeKeeps ==
  ASSUME Inv, Purge
  PROVE  Inv'
<1>1. PICK expired \in SUBSET challenges :
        \E stale \in SUBSET {c \in Clients : controls[c] = "clear" /\ Away(c)} :
           /\ Spend("purge") /\ challenges' = challenges \ expired
           /\ controls' = [a \in Accounts |-> IF a \in stale THEN "absent" ELSE controls[a]]
  BY DEF Purge
<1>2. PICK stale \in SUBSET {c \in Clients : controls[c] = "clear" /\ Away(c)} :
        /\ Spend("purge") /\ challenges' = challenges \ expired
        /\ controls' = [a \in Accounts |-> IF a \in stale THEN "absent" ELSE controls[a]]
  BY <1>1
<1>3. /\ UNCHANGED <<card, identities, born, asked, deleted, answers, play, kept, required, call>>
      /\ challenges' \subseteq challenges /\ \E kind \in Kinds : Spend(kind)
  BY <1>2 DEF Purge, Kinds
<1>4. RoomTypes'
  BY <1>2, <1>3 DEF Inv, Seating, RoomTypes, play
<1>5. \A id \in Accounts : controls'[id] = "banned" => controls[id] = "banned"
  BY <1>2
<1>6. required' \in BOOLEAN
  BY <1>3 DEF Inv, Proofs, AccountTypes
<1> QED
  BY <1>3, <1>4, <1>5, <1>6, NobodyKeeps DEF play, NoNewLobby, Hosted, Seated

-----------------------------------------------------------------------------
LEMMA StutterKeeps == Inv /\ UNCHANGED vars => Inv'
BY DEF Inv, CallTypes, Typed, Request, Proofs, AccountTypes, Tables, Owns, Proving, Seating, RoomTypes,
       Bans, Seated, Chases, Lobbies, Hosted, Searches, vars, accounts, answers, play, bans

LEMMA NextKeeps == Inv /\ [Next]_vars => Inv'
<1> SUFFICES ASSUME Inv, [Next]_vars PROVE Inv'
  OBVIOUS
<1>1. ASSUME NEW s \in Slots, Player(s) PROVE Inv'
  BY <1>1, RegisterKeeps, CreateIdentityKeeps, RecordRegisteredKeeps, AskChallengeKeeps,
     CreateChallengeKeeps, SessionKeeps, MigrateKeeps, LatestHashKeeps, ConsumeKeeps, MatchKeeps,
     LookKeeps, ReserveKeeps, FindOwnRoomKeeps, RetireOwnKeeps, CreateRoomKeeps, CreateFailsKeeps,
     RecheckKeeps, ExpelOwnKeeps, AdmitKeeps, AdmitBanKeeps, JoinKeeps DEF Player
<1>2. CASE Administrator
  BY <1>2, BanKeeps, ActiveRoomsKeeps, ExpelBannedKeeps, AdministerKeeps, AdminResetKeeps DEF Administrator
<1> QED
  BY <1>1, <1>2, PlayKeeps, PurgeKeeps, StutterKeeps DEF Next

LEMMA InvHolds == Spec => []Inv
<1> QED
  BY InitSound, NextKeeps, PTL DEF Spec

(* Every table row, room, ticket and request in progress has its type, and rows
   and rooms fit together. *)
THEOREM TypeCorrect == Spec => []TypeOK
<1>1. Inv => TypeOK
  BY TypesAreTypeOK DEF Inv
<1> QED
  BY <1>1, InvHolds, PTL

(* However a ban and a match of the same player interleave, a banned player
   ends up without a seat: until then one of the two handlers is still to look,
   the ban at the rooms or the match at the ban. *)
THEOREM BanIsComplete == Spec => []BannedIsOut
<1>1. Inv => BannedIsOut
  <2> SUFFICES ASSUME Inv, NEW id \in Accounts \ kept, controls[id] = "banned",
                      \A s \in Slots : call[s].id = id => call[s].op \notin {"match", "ban"}
               PROVE  ActiveRoomIdsFor(id) = {}
    BY DEF BannedIsOut
  <2>1. \A s \in Slots, r \in Rooms : ~Chases(call[s], id, r)
    BY DEF Chases
  <2>2. \A r \in Rooms : ~Seated(id, r)
    BY <2>1 DEF Inv, Seating, Bans
  <2> QED
    BY <2>2 DEF ActiveRoomIdsFor, Seated
<1> QED
  BY <1>1, InvHolds, PTL

(* Whoever wins the race to the unique indexes, a client is told an identity
   that is bound to its own key and card. *)
THEOREM RegistrationIsBound == Spec => []RegisteredIsBound
<1>1. Inv => RegisteredIsBound
  BY DEF Inv, Proofs, RegisteredIsBound, Owns, FindById
<1> QED
  BY <1>1, InvHolds, PTL

(* Matches of one player in one pool that follow each other, while none of its
   rooms there plays, leave it at most one lobby of that pool. *)
THEOREM HostsOneLobby == Spec => []OneLobbyPerHost
<1>1. Inv => OneLobbyPerHost
  <2> SUFFICES ASSUME Inv, NEW id \in Accounts, NEW pool \in Pools, <<id, pool>> \notin excused
               PROVE  Cardinality(FindOwnRecruitingHost(id, pool)) <= 1
    BY DEF OneLobbyPerHost
  <2> DEFINE lobbies == FindOwnRecruitingHost(id, pool)
  <2>1. lobbies \subseteq Hosted(<<id, pool>>)
    BY DEF FindOwnRecruitingHost, Hosted
  <2>2. \A r1, r2 \in lobbies : r1 = r2
    BY <2>1 DEF Inv, Seating, Lobbies, Owners
  <2>3. CASE lobbies = {}
    BY <2>3, FS_EmptySet
  <2>4. ASSUME NEW r \in lobbies PROVE Cardinality(lobbies) <= 1
    <3>1. lobbies = {r}
      BY <2>2
    <3>2. Cardinality({r}) = 1
      BY FS_Singleton
    <3> QED
      BY <3>1, <3>2
  <2> QED
    BY <2>3, <2>4
<1> QED
  BY <1>1, InvHolds, PTL

(* Only consume issues tokens. *)
LEMMA OthersIssueNothing ==
  ASSUME Next, \A s \in Slots : ~Consume(s)
  PROVE  UNCHANGED issued
<1>1. ASSUME NEW s \in Slots, Player(s) PROVE UNCHANGED issued
  BY <1>1 DEF Player, Register, CreateIdentity, Rebind, RecordRegistered, AskChallenge, CreateChallenge,
     Session, MigrateServerHash, LatestHash, Match, FindSessionIdentity, RecordPlayer, CheckBan, FindRoom,
     Reserve, FindOwnRoom, ReserveOwn, RetireOwn, CreateRoom, CreateFails, Recheck, ExpelOwn, Admit,
     AdmitBan, Join, answers
<1>2. ASSUME Administrator PROVE UNCHANGED issued
  BY <1>2 DEF Administrator, Ban, ActiveRooms, ExpelBanned, Unban, AdminReset, SetIdentityRequired,
     CloseBattle, answers
<1> QED
  BY <1>1, <1>2 DEF Next, PlayStarts, PlayEnds, Purge, answers

(* One token per challenge at most, for the client whose identity it proves. *)
THEOREM OneTokenPerChallenge == Spec => TokenIsEarned
<1> DEFINE Earned(n) ==
      /\ issued'[n] = 1
      /\ \E ch \in challenges, row \in identities, c \in Clients :
            /\ ch.nonce = n /\ row.id = ch.id /\ token'[c] = row.id
            /\ row.key = c /\ row.card = card[c] /\ row.hash = "host"
<1>1. ASSUME Inv, [Next]_vars, NEW n \in Nonces, issued'[n] # issued[n] PROVE Earned(n)
  <2>1. PICK s \in Slots : Consume(s)
    BY <1>1, OthersIssueNothing DEF vars, answers
  <2> DEFINE q == call[s]
  <2>2. /\ q.op = "session" /\ q.at = "consume" /\ Typed(q) /\ Proving(q)
        /\ OpenChallenge(s) # {} /\ token' = [token EXCEPT ![q.who] = q.id]
        /\ issued' = [issued EXCEPT ![q.nonce] = @ + 1]
    BY <1>1, <2>1 DEF Consume, At, Inv, CallTypes, Proofs
  <2>3. n = q.nonce /\ issued'[n] = issued[n] + 1 /\ q.who \in Clients
    BY <1>1, <2>2 DEF Typed, Inv, Proofs, AccountTypes
  <2>4. PICK ch \in challenges : ch.nonce = n /\ ~ch.used
    BY <2>2, <2>3 DEF OpenChallenge
  <2>5. issued[n] = 0 /\ ch.id = q.id
    BY <1>1, <2>2, <2>3, <2>4 DEF Inv, Proofs, Tables, Proving
  <2>6. PICK row \in identities : row.id = ch.id
    BY <1>1 DEF Inv, Proofs, Tables
  <2>7. row.key = q.who /\ row.card = card[q.who] /\ row.hash = "host"
    BY <1>1, <2>2, <2>5, <2>6 DEF Inv, Proofs, Tables, Proving, Owns
  <2>8. token'[q.who] = q.id
    BY <1>1, <2>2, <2>3 DEF Inv, Proofs, AccountTypes
  <2> QED
    BY <2>3, <2>4, <2>5, <2>6, <2>7, <2>8
<1>2. Inv /\ [Next]_vars => [\A n \in Nonces : issued'[n] # issued[n] => Earned(n)]_vars
  BY <1>1
<1> QED
  BY <1>2, InvHolds, PTL DEF Spec, TokenIsEarned

(* Nothing but an administrator's unban ends a ban. *)
THEOREM BanStays == Spec => OnlyUnbanLiftsBan
<1>1. ASSUME Inv, Next, NEW id \in Accounts, controls[id] = "banned", controls'[id] # "banned"
      PROVE  left'["unban"] < left["unban"]
  <2>1. controls \in [Accounts -> {"absent", "clear", "banned"}] /\ left \in [Kinds -> Nat]
    BY <1>1 DEF Inv, Seating, RoomTypes, CallTypes
  <2>2. ASSUME NEW s \in Slots, Player(s) PROVE FALSE
    BY <1>1, <2>1, <2>2 DEF Player, Register, CreateIdentity, Rebind, RecordRegistered, Recorded,
       AskChallenge, CreateChallenge, Session, MigrateServerHash, LatestHash, Consume, Match,
       FindSessionIdentity, RecordPlayer, CheckBan, FindRoom, Reserve, FindOwnRoom, ReserveOwn, RetireOwn,
       CreateRoom, CreateFails, Recheck, ExpelOwn, Admit, AdmitBan, Join, bans
  <2>3. CASE Unban
    BY <2>1, <2>3 DEF Unban, Spend, Kinds
  <2>4. CASE Administrator /\ ~Unban
    BY <1>1, <2>1, <2>4 DEF Administrator, Ban, ActiveRooms, ExpelBanned, AdminReset,
       SetIdentityRequired, CloseBattle, bans
  <2>5. CASE PlayStarts \/ PlayEnds \/ Purge
    BY <1>1, <2>1, <2>5 DEF PlayStarts, PlayEnds, Purge, bans
  <2> QED
    BY <1>1, <2>2, <2>3, <2>4, <2>5 DEF Next
<1>2. Inv /\ [Next]_vars => [\A id \in Accounts : controls[id] = "banned" /\ controls'[id] # "banned"
                                => left'["unban"] < left["unban"]]_vars
  BY <1>1
<1> QED
  BY <1>2, InvHolds, PTL DEF Spec, OnlyUnbanLiftsBan
===============================================================================
