------------------------------- MODULE Access -------------------------------
(***************************************************************************)
(* Who may play: the registration of a client's identity, the challenge     *)
(* and session that prove it, the match that seats a player in a room, the  *)
(* admission of its socket, and the administrator's bans, resets and        *)
(* identity mode.  Every handler of src/core is a sequence of awaits; each  *)
(* step up to the next database or room call is an action, so the handlers  *)
(* of several clients, and repeated requests of one client, interleave at   *)
(* every await.                                                            *)
(*                                                                         *)
(* Ideal cryptography: a proof is valid iff the client holds the key the    *)
(* identity is bound to, a token or ticket is one the server signed.  Cards *)
(* stand for the hashes of keychip, access code and user id, which change   *)
(* together here.  The rooms are RoomEngine's: here a room is only what     *)
(* reserve, completePlayerConnection, banPlayer and forceClose leave.       *)
(***************************************************************************)
EXTENDS Integers, FiniteSets

CONSTANTS
    Slots,     \* requests in progress at a time
    Clients,   \* installations of the client, each with a key of its own
    Cards,     \* the fields of a game card that name a player
    None,      \* no value
    Songs,
    Pools,     \* the directories a lobby can be listed in
    Capacity,  \* seats of a room (4 in the code)
    Scenes,    \* bounds: what there is at the start and how often what is asked
    MaxIds,    \* bound: identities ever created
    MaxNonces, \* bound: challenges ever created
    MaxRooms   \* bound: rooms ever created

Ids == 1..MaxIds
Nonces == 1..MaxNonces
Rooms == 1..MaxRooms
Accounts == Ids \cup Clients     \* registered; "anon:" and a hash of the key

Kinds == {"register", "challenge", "session", "match", "admit", "ban", "unban",
          "reset", "mode", "close", "start", "end", "purge", "fault"}

(* The await a handler has reached. *)
Steps == {"idle", "create", "rebind", "record", "migrate", "latest", "consume", "identity",
          "banned", "room", "reserve", "own", "reenter", "retire", "recheck", "expel", "join", "rooms"}

ASSUME AccessAssumption ==
    /\ None \notin Slots \cup Clients \cup Cards \cup Songs \cup Pools
    /\ Capacity \in Nat \ {0}
    /\ MaxIds \in Nat /\ MaxNonces \in Nat /\ MaxRooms \in Nat
    /\ Scenes \subseteq [card : [Clients -> Cards], rows : [1..MaxIds -> Clients \cup {None}],
                         legacy : SUBSET Ids, required : BOOLEAN, left : [Kinds -> Nat]]
    /\ \A scene \in Scenes, i, j \in Ids : i < j /\ scene.rows[j] # None =>
          scene.rows[i] # None /\ scene.card[scene.rows[i]] # scene.card[scene.rows[j]]

(* identities row.  hash: the server_hash column names today's hash of the
   game server's host name, or the whole URI an older version hashed. *)
Identity == [id : Ids, card : Cards, key : Clients, hash : {"host", "uri"}]
Challenge == [nonce : Nonces, id : Ids, used : BOOLEAN]
Room == [status : {"unused", "recruiting", "playing", "closed"}, song : Songs \cup {None},
         pool : Pools \cup {None}, host : Accounts \cup {None}, seats : SUBSET Accounts, joined : SUBSET Accounts]
Ticket == [who : Clients, id : Accounts, room : Rooms]

VARIABLES
    card,        \* the card each client plays with
    identities, challenges, controls, required,  \* tables; controls by account
    rooms,
    told, nonce, token, tickets,  \* what the clients were answered
    call,        \* requests in progress
    left,        \* what may still be asked
    born, asked, \* identities and challenges ever created
    deleted,     \* identities an administrator reset
    issued,      \* session tokens issued on each challenge
    kept,        \* accounts a failed banPlayer left in their seat
    excused      \* account and pool where it may host two lobbies, see OneLobbyPerHost

accounts == <<identities, challenges, born, asked, deleted>>
answers == <<told, nonce, token, issued>>
play == <<rooms, tickets, excused>>
bans == <<controls, kept>>
vars == <<card, accounts, answers, play, bans, required, call, left>>

Idle == [op |-> "none", at |-> "idle", who |-> None, id |-> None, row |-> None,
         nonce |-> None, room |-> None, song |-> None, pool |-> None, todo |-> {}]

(* The state has its type, and tables and rooms fit together: one identity per
   card, a challenge only for an identity that exists, a joined seat among the
   seats, and the host in every open room. *)
TypeOK ==
    /\ card \in [Clients -> Cards] /\ required \in BOOLEAN
    /\ identities \subseteq Identity /\ challenges \subseteq Challenge
    /\ controls \in [Accounts -> {"absent", "clear", "banned"}]
    /\ rooms \in [Rooms -> Room]
    /\ told \in [Clients -> Ids \cup {None}] /\ nonce \in [Clients -> Nonces \cup {None}]
    /\ token \in [Clients -> Ids \cup {None}] /\ tickets \subseteq Ticket
    /\ call \in [Slots -> [op : Kinds \cup {"none"}, at : Steps, who : Clients \cup {None},
            id : Accounts \cup {None}, row : Identity \cup {None}, nonce : Nonces \cup {None},
            room : Rooms \cup {None}, song : Songs \cup {None}, pool : Pools \cup {None},
            todo : SUBSET Rooms]]
    /\ left \in [Kinds -> Nat] /\ born \in 0..MaxIds /\ asked \in 0..MaxNonces
    /\ deleted \subseteq Ids /\ issued \in [Nonces -> Nat]
    /\ kept \subseteq Accounts /\ excused \subseteq Accounts \X Pools
    /\ \A row1, row2 \in identities : row1.card = row2.card => row1 = row2
    /\ \A ch \in challenges : \E row \in identities : row.id = ch.id
    /\ \A r \in Rooms : /\ rooms[r].joined \subseteq rooms[r].seats
                        /\ rooms[r].status \in {"recruiting", "playing"} => rooms[r].host \in rooms[r].seats

(* The row of a card, bound to the key of the client that registered it. *)
Bound(id, c) == [id |-> id, card |-> card[c], key |-> c, hash |-> "host"]

Init ==
    \E scene \in Scenes :
        /\ card = scene.card /\ required = scene.required /\ left = scene.left
        /\ born = Cardinality({i \in Ids : scene.rows[i] # None})
        /\ identities = {[Bound(i, scene.rows[i]) EXCEPT !.hash = IF i \in scene.legacy THEN "uri" ELSE @] :
                          i \in {j \in Ids : scene.rows[j] # None}}
        /\ controls = [a \in Accounts |-> IF a \in Ids /\ a <= born THEN "clear" ELSE "absent"]
        /\ told = [c \in Clients |-> IF \E i \in Ids : scene.rows[i] = c
                                     THEN CHOOSE i \in Ids : scene.rows[i] = c ELSE None]
        /\ challenges = {} /\ asked = 0 /\ deleted = {}
        /\ rooms = [r \in Rooms |-> [status |-> "unused", song |-> None, pool |-> None, host |-> None,
                                     seats |-> {}, joined |-> {}]]
        /\ nonce = [c \in Clients |-> None] /\ token = [c \in Clients |-> None]
        /\ issued = [n \in Nonces |-> 0] /\ tickets = {}
        /\ call = [s \in Slots |-> Idle] /\ kept = {} /\ excused = {}

-----------------------------------------------------------------------------
(* Requests *)

Spend(kind) == left[kind] > 0 /\ left' = [left EXCEPT ![kind] = @ - 1]

(* The handler goes on at its next await, or answers. *)
Goes(s, step) == call' = [call EXCEPT ![s].at = step]
Ends(s) == call' = [call EXCEPT ![s] = Idle]

(* A request reaches its first await: its body was read and is well formed.  One
   that is refused before, also by its rate limit, changes nothing. *)
Begins(s, kind, request) == call[s] = Idle /\ Spend(kind) /\ call' = [call EXCEPT ![s] = request]

At(s, op, step) == call[s].op = op /\ call[s].at = step

-----------------------------------------------------------------------------
(* Statements of the database *)

(* Mutant of FindBinding: only a registration of the same key is found. *)
FindKey(c) == {row \in identities : row.key = c}

(* Card fields and server hash make the composite hash; any of them bound
   elsewhere is a conflict, here the card. *)
FindBinding(c) == {row \in identities : row.card = card[c]}

FindById(id) == {row \in identities : row.id = id}

(* Mutant of Recorded: a player who comes back starts afresh. *)
RecordedAfresh(id) == controls' = [controls EXCEPT ![id] = "clear"]

(* record: the player is known from now on, a ban it has stays. *)
Recorded(id) == controls' = [controls EXCEPT ![id] = IF @ = "absent" THEN "clear" ELSE @]

ActiveRoomIdsFor(id) == {r \in Rooms : rooms[r].status \in {"recruiting", "playing"} /\ id \in rooms[r].seats}

(* The most recently updated one of the pool; which that is is left open. *)
FindOwnRecruitingHost(id, pool) ==
    {r \in Rooms : /\ rooms[r].status = "recruiting" /\ rooms[r].pool = pool
                   /\ rooms[r].host = id /\ id \in rooms[r].seats}

-----------------------------------------------------------------------------
(* Registration *)

(* Mutant of SameBinding: the client key is not compared. *)
SameCard(row, c) == row.hash = "host"

(* retryOrConflict: the same card on the same host with the same key gets its
   id again, anything else is a conflict. *)
SameBinding(row, c) == row.hash = "host" /\ row.key = c

(* From a binding found, or none: answer the id after recording the player, or
   refuse. *)
RetryOrConflict(s, c, found) ==
    IF \E row \in found : SameBinding(row, c)
    THEN \E row \in found : call' = [call EXCEPT ![s] =
             [Idle EXCEPT !.op = "register", !.at = "record", !.who = c, !.id = row.id]]
    ELSE Ends(s)

Register(s) ==
    \E c \in Clients :
        /\ call[s] = Idle /\ Spend("register")
        /\ IF FindBinding(c) = {}
           THEN call' = [call EXCEPT ![s] = [Idle EXCEPT !.op = "register", !.at = "create", !.who = c]]
           ELSE RetryOrConflict(s, c, FindBinding(c))
        /\ UNCHANGED <<card, accounts, answers, play, bans, required>>

(* identities.create: the unique indexes decide who was first. *)
CreateIdentity(s) ==
    /\ At(s, "register", "create")
    /\ IF FindBinding(call[s].who) = {}
       THEN /\ born < MaxIds /\ born' = born + 1
            /\ identities' = identities \cup {Bound(born', call[s].who)}
            /\ call' = [call EXCEPT ![s].at = "record", ![s].id = born']
       ELSE Goes(s, "rebind") /\ UNCHANGED <<identities, born>>
    /\ UNCHANGED <<card, challenges, asked, deleted, answers, play, bans, required, left>>

(* The loser of the race answers from the row it now finds, if it is there. *)
Rebind(s) ==
    /\ At(s, "register", "rebind")
    /\ RetryOrConflict(s, call[s].who, FindBinding(call[s].who))
    /\ UNCHANGED <<card, accounts, answers, play, bans, required, left>>

RecordRegistered(s) ==
    /\ At(s, "register", "record")
    /\ Recorded(call[s].id)
    /\ told' = [told EXCEPT ![call[s].who] = call[s].id]
    /\ Ends(s)
    /\ UNCHANGED <<card, accounts, nonce, token, issued, play, kept, required, left>>

-----------------------------------------------------------------------------
(* Challenge and session *)

AskChallenge(s) ==
    \E c \in Clients :
        /\ told[c] # None /\ FindById(told[c]) # {}
        /\ Begins(s, "challenge", [Idle EXCEPT !.op = "challenge", !.at = "create", !.who = c, !.id = told[c]])
        /\ UNCHANGED <<card, accounts, answers, play, bans, required>>

(* The row refers to the identity: without it the insert fails. *)
CreateChallenge(s) ==
    /\ At(s, "challenge", "create")
    /\ IF FindById(call[s].id) = {} THEN UNCHANGED <<challenges, asked, nonce>>
       ELSE /\ asked < MaxNonces /\ asked' = asked + 1
            /\ challenges' = challenges \cup {[nonce |-> asked', id |-> call[s].id, used |-> FALSE]}
            /\ nonce' = [nonce EXCEPT ![call[s].who] = asked']
    /\ Ends(s)
    /\ UNCHANGED <<card, identities, born, deleted, told, token, issued, play, bans, required, left>>

(* findById and find, and every check up to the first write.  The hash of a
   proven client changes only for a row an older version wrote. *)
Session(s) ==
    \E c \in Clients : \E row \in FindById(told[c]) :
        /\ [nonce |-> nonce[c], id |-> row.id, used |-> FALSE] \in challenges
        /\ row.key = c /\ row.card = card[c]
        /\ Begins(s, "session", [Idle EXCEPT !.op = "session", !.who = c, !.id = row.id,
               !.nonce = nonce[c], !.row = row, !.at = IF row.hash = "host" THEN "consume" ELSE "migrate"])
        /\ UNCHANGED <<card, accounts, answers, play, bans, required>>

(* Compare and set: only the row that was read is changed. *)
MigrateServerHash(s) ==
    /\ At(s, "session", "migrate")
    /\ IF call[s].row \in identities
       THEN /\ identities' = (identities \ {call[s].row}) \cup {[call[s].row EXCEPT !.hash = "host"]}
            /\ Goes(s, "consume")
       ELSE Goes(s, "latest") /\ UNCHANGED identities
    /\ UNCHANGED <<card, challenges, born, asked, deleted, answers, play, bans, required, left>>

LatestHash(s) ==
    /\ At(s, "session", "latest")
    /\ IF \E row \in FindById(call[s].id) : row.hash = "host" THEN Goes(s, "consume") ELSE Ends(s)
    /\ UNCHANGED <<card, accounts, answers, play, bans, required, left>>

(* Mutant of OpenChallenge: used_at is checked by the first read only. *)
AnyChallenge(s) == {ch \in challenges : ch.nonce = call[s].nonce}

OpenChallenge(s) == {ch \in challenges : ch.nonce = call[s].nonce /\ ~ch.used}

(* consume, and the token if it was this request that did. *)
Consume(s) ==
    /\ At(s, "session", "consume")
    /\ IF OpenChallenge(s) = {} THEN UNCHANGED <<challenges, token, issued>>
       ELSE /\ challenges' = (challenges \ OpenChallenge(s)) \cup
                             {[ch EXCEPT !.used = TRUE] : ch \in OpenChallenge(s)}
            /\ token' = [token EXCEPT ![call[s].who] = call[s].id]
            /\ issued' = [issued EXCEPT ![call[s].nonce] = @ + 1]
    /\ Ends(s)
    /\ UNCHANGED <<card, identities, born, asked, deleted, told, nonce, play, bans, required, left>>

-----------------------------------------------------------------------------
(* Matching *)

(* The identity mode is read, and with it who asks: the registered identity
   of the session token, or the anonymous account of the client's key.  to is
   the room the player named, None for a room of its own in the pool. *)
Match(s) ==
    \E c \in Clients, song \in Songs, pool \in Pools, to \in {None} \cup {r \in Rooms : rooms[r].status # "unused"} :
        /\ required => token[c] # None
        /\ Begins(s, "match", [Idle EXCEPT !.op = "match", !.who = c, !.song = song, !.pool = pool, !.room = to,
               !.id = IF required THEN token[c] ELSE c, !.at = IF required THEN "identity" ELSE "record"])
        /\ UNCHANGED <<card, accounts, answers, play, bans, required>>

FindSessionIdentity(s) ==
    /\ At(s, "match", "identity")
    /\ IF FindById(call[s].id) = {} THEN Ends(s) ELSE Goes(s, "record")
    /\ UNCHANGED <<card, accounts, answers, play, bans, required, left>>

RecordPlayer(s) ==
    /\ At(s, "match", "record")
    /\ Recorded(call[s].id) /\ Goes(s, "banned")
    /\ UNCHANGED <<card, accounts, answers, play, kept, required, left>>

(* The read of record. *)
CheckBan(s) ==
    /\ At(s, "match", "banned")
    /\ IF controls[call[s].id] = "banned" THEN Ends(s)
       ELSE Goes(s, IF call[s].room = None THEN "own" ELSE "room")
    /\ UNCHANGED <<card, accounts, answers, play, bans, required, left>>

FindRoom(s) ==
    /\ At(s, "match", "room")
    /\ IF /\ rooms[call[s].room].status = "recruiting"
          /\ rooms[call[s].room].pool = call[s].pool /\ rooms[call[s].room].song = call[s].song
       THEN Goes(s, "reserve") ELSE Ends(s)
    /\ UNCHANGED <<card, accounts, answers, play, bans, required, left>>

(* RoomEngine.reserve: an unconnected seat is given to its player again. *)
MayReserve(r, id, song) ==
    /\ rooms[r].status = "recruiting" /\ rooms[r].song = song
    /\ IF id \in rooms[r].seats THEN id \notin rooms[r].joined
       ELSE Cardinality(rooms[r].seats) < Capacity

Reserve(s) ==
    /\ At(s, "match", "reserve")
    /\ IF MayReserve(call[s].room, call[s].id, call[s].song)
       THEN /\ rooms' = [rooms EXCEPT ![call[s].room].seats = @ \cup {call[s].id}]
            /\ Goes(s, "recheck")
       ELSE Ends(s) /\ UNCHANGED rooms
    /\ UNCHANGED <<card, accounts, answers, tickets, excused, bans, required, left>>

(* Another match of this player in this pool has looked for its lobby and not
   yet got one. *)
Overlaps(s) == \E t \in Slots \ {s} : /\ call[t].op = "match" /\ call[t].id = call[s].id
                                       /\ call[t].pool = call[s].pool
                                       /\ call[t].at \in {"reenter", "retire", "create"}

(* Mutant of AfterRefusal: a lobby that refuses its host is left behind. *)
Abandon == "create"

(* Where match goes when the own lobby gives no seat. *)
AfterRefusal == "retire"

(* The player's own lobby in the pool, if it has one: entered again for the
   same song, retired for another.  A lobby in another pool is not looked at. *)
FindOwnRoom(s) ==
    LET lobbies == FindOwnRecruitingHost(call[s].id, call[s].pool)
        playing == {r \in Rooms : /\ rooms[r].status = "playing" /\ rooms[r].pool = call[s].pool
                                  /\ rooms[r].host = call[s].id}
    IN /\ At(s, "match", "own")
       /\ IF lobbies = {} THEN Goes(s, "create")
          ELSE \E own \in lobbies :
                   call' = [call EXCEPT ![s].room = own,
                                ![s].at = IF rooms[own].song = call[s].song THEN "reenter" ELSE "retire"]
       /\ excused' = IF Overlaps(s) \/ playing # {}
                     THEN excused \cup {<<call[s].id, call[s].pool>>} ELSE excused
       /\ UNCHANGED <<card, accounts, answers, rooms, tickets, bans, required, left>>

ReserveOwn(s) ==
    /\ At(s, "match", "reenter")
    /\ IF MayReserve(call[s].room, call[s].id, call[s].song)
       THEN /\ rooms' = [rooms EXCEPT ![call[s].room].seats = @ \cup {call[s].id}]
            /\ Goes(s, "recheck")
       ELSE Goes(s, AfterRefusal) /\ UNCHANGED rooms
    /\ UNCHANGED <<card, accounts, answers, tickets, excused, bans, required, left>>

(* closeRoom leaves the seats of the closed room where they are. *)
Closed(r) == [rooms EXCEPT ![r].status = IF @ \in {"recruiting", "playing"} THEN "closed" ELSE @,
                           ![r].joined = {}]

RetireOwn(s) ==
    /\ At(s, "match", "retire")
    /\ rooms' = Closed(call[s].room) /\ Goes(s, "create")
    /\ UNCHANGED <<card, accounts, answers, tickets, excused, bans, required, left>>

(* pools.create: a room of a fresh id and its creator's reservation. *)
NewRoom(id, song, pool) == [status |-> "recruiting", song |-> song, pool |-> pool,
                            host |-> id, seats |-> {id}, joined |-> {}]

CreateRoom(s) ==
    /\ At(s, "match", "create")
    /\ \E r \in Rooms :
          /\ rooms[r].status = "unused" /\ \A q \in 1..(r - 1) : rooms[q].status # "unused"
          /\ rooms' = [rooms EXCEPT ![r] = NewRoom(call[s].id, call[s].song, call[s].pool)]
          /\ call' = [call EXCEPT ![s].room = r, ![s].at = "recheck"]
    /\ UNCHANGED <<card, accounts, answers, tickets, excused, bans, required, left>>

(* Mutant of BannedMeanwhile: the first check is trusted. *)
NeverMind(id) == FALSE

(* bannedAt: also a player whose row is gone counts as banned. *)
BannedMeanwhile(id) == controls[id] # "clear"

(* The creation fails half way and closes the room it began. *)
CreateFails(s) ==
    /\ At(s, "match", "create") /\ Spend("fault")
    /\ \E r \in Rooms :
          /\ rooms[r].status = "unused" /\ \A q \in 1..(r - 1) : rooms[q].status # "unused"
          /\ rooms' = [rooms EXCEPT ![r] = [NewRoom(call[s].id, call[s].song, call[s].pool) EXCEPT !.status = "closed"]]
    /\ Ends(s)
    /\ UNCHANGED <<card, accounts, answers, tickets, excused, bans, required>>

(* The ban is read again behind the reservation: a ban that did not see the
   seat is seen here. *)
Recheck(s) ==
    /\ At(s, "match", "recheck")
    /\ IF BannedMeanwhile(call[s].id) THEN Goes(s, "expel") /\ UNCHANGED tickets
       ELSE /\ tickets' = tickets \cup {[who |-> call[s].who, id |-> call[s].id, room |-> call[s].room]}
            /\ Ends(s)
    /\ UNCHANGED <<card, accounts, answers, rooms, excused, bans, required, left>>

(* RoomEngine.banPlayer: the host's room closes, a guest loses its seat. *)
Expelled(r, id) ==
    IF rooms[r].status \notin {"recruiting", "playing"} \/ id \notin rooms[r].seats THEN rooms
    ELSE IF id = rooms[r].host THEN Closed(r)
    ELSE [rooms EXCEPT ![r].seats = @ \ {id}, ![r].joined = @ \ {id}]

(* banPlayer, or its failure: its write fails and the seat stays. *)
BanPlayer(r, id) ==
    \/ rooms' = Expelled(r, id) /\ UNCHANGED <<kept, left>>
    \/ Expelled(r, id) # rooms /\ Spend("fault") /\ kept' = kept \cup {id} /\ UNCHANGED rooms

ExpelOwn(s) ==
    /\ At(s, "match", "expel")
    /\ BanPlayer(call[s].room, call[s].id) /\ Ends(s)
    /\ UNCHANGED <<card, accounts, answers, tickets, excused, controls, required>>

-----------------------------------------------------------------------------
(* Admission of a socket *)

(* An anonymous ticket is good while no identity is required, a registered
   one while its identity exists. *)
Admit(s) ==
    \E t \in tickets :
        /\ IF t.id \in Clients THEN ~required ELSE FindById(t.id) # {}
        /\ Begins(s, "admit", [Idle EXCEPT !.op = "admit", !.at = "banned", !.who = t.who,
               !.id = t.id, !.room = t.room])
        /\ UNCHANGED <<card, accounts, answers, play, bans, required>>

AdmitBan(s) ==
    /\ At(s, "admit", "banned")
    /\ IF BannedMeanwhile(call[s].id) THEN Ends(s) ELSE Goes(s, "join")
    /\ UNCHANGED <<card, accounts, answers, play, bans, required, left>>

(* completePlayerConnection, of a seat that is reserved and not connected. *)
Join(s) ==
    /\ At(s, "admit", "join")
    /\ rooms' = IF rooms[call[s].room].status = "recruiting" /\ call[s].id \in rooms[call[s].room].seats
                THEN [rooms EXCEPT ![call[s].room].joined = @ \cup {call[s].id}] ELSE rooms
    /\ Ends(s)
    /\ UNCHANGED <<card, accounts, answers, tickets, excused, bans, required, left>>

-----------------------------------------------------------------------------
(* Administration *)

Ban(s) ==
    \E id \in Accounts :
        /\ controls[id] # "absent"
        /\ controls' = [controls EXCEPT ![id] = "banned"]
        /\ Begins(s, "ban", [Idle EXCEPT !.op = "ban", !.at = "rooms", !.id = id])
        /\ UNCHANGED <<card, accounts, answers, play, kept, required>>

ActiveRooms(s) ==
    /\ At(s, "ban", "rooms")
    /\ IF ActiveRoomIdsFor(call[s].id) = {} THEN Ends(s)
       ELSE call' = [call EXCEPT ![s].at = "expel", ![s].todo = ActiveRoomIdsFor(call[s].id)]
    /\ UNCHANGED <<card, accounts, answers, play, bans, required, left>>

(* One of the banPlayer calls made at once; the answer waits for all. *)
ExpelBanned(s) ==
    \E r \in call[s].todo :
        /\ At(s, "ban", "expel")
        /\ BanPlayer(r, call[s].id)
        /\ IF call[s].todo = {r} THEN Ends(s) ELSE call' = [call EXCEPT ![s].todo = @ \ {r}]
        /\ UNCHANGED <<card, accounts, answers, tickets, excused, controls, required>>

Unban ==
    \E id \in Accounts :
        /\ controls[id] # "absent" /\ Spend("unban")
        /\ controls' = [controls EXCEPT ![id] = "clear"]
        /\ kept' = kept \ {id}
        /\ UNCHANGED <<card, accounts, answers, play, required, call>>

(* The challenges go with the identity, in one transaction. *)
AdminReset ==
    \E id \in Ids :
        /\ FindById(id) # {} /\ Spend("reset")
        /\ identities' = identities \ FindById(id)
        /\ challenges' = {ch \in challenges : ch.id # id}
        /\ deleted' = deleted \cup {id}
        /\ UNCHANGED <<card, born, asked, answers, play, bans, required, call>>

SetIdentityRequired ==
    /\ Spend("mode") /\ required' = ~required
    /\ UNCHANGED <<card, accounts, answers, play, bans, call>>

CloseBattle ==
    \E r \in Rooms :
        /\ Closed(r) # rooms /\ Spend("close") /\ rooms' = Closed(r)
        /\ UNCHANGED <<card, accounts, answers, tickets, excused, bans, required, call>>

(* A play starts, without those who have not joined, and ends. *)
PlayStarts ==
    \E r \in Rooms :
        /\ rooms[r].status = "recruiting" /\ rooms[r].host \in rooms[r].joined /\ Spend("start")
        /\ rooms' = [rooms EXCEPT ![r].status = "playing", ![r].seats = rooms[r].joined]
        /\ UNCHANGED <<card, accounts, answers, tickets, excused, bans, required, call>>

PlayEnds ==
    \E r \in Rooms :
        /\ rooms[r].status = "playing" /\ Spend("end")
        /\ rooms' = [rooms EXCEPT ![r].status = "recruiting"]
        /\ UNCHANGED <<card, accounts, answers, tickets, excused, bans, required, call>>

(* Hourly: challenges that expired and anonymous players not seen for 30 days,
   longer than any request or room of theirs lasts.  Closed rooms and old plays
   go too; to a request they are as good as gone already. *)
Away(id) == ActiveRoomIdsFor(id) = {} /\ \A s \in Slots : call[s].id # id

Purge ==
    \E expired \in SUBSET challenges, stale \in SUBSET {c \in Clients : controls[c] = "clear" /\ Away(c)} :
        /\ Spend("purge")
        /\ challenges' = challenges \ expired
        /\ controls' = [a \in Accounts |-> IF a \in stale THEN "absent" ELSE controls[a]]
        /\ UNCHANGED <<card, identities, born, asked, deleted, answers, play, kept, required, call>>

-----------------------------------------------------------------------------
Player(s) ==
    \/ Register(s) \/ CreateIdentity(s) \/ Rebind(s) \/ RecordRegistered(s)
    \/ AskChallenge(s) \/ CreateChallenge(s)
    \/ Session(s) \/ MigrateServerHash(s) \/ LatestHash(s) \/ Consume(s)
    \/ Match(s) \/ FindSessionIdentity(s) \/ RecordPlayer(s) \/ CheckBan(s)
    \/ FindRoom(s) \/ Reserve(s)
    \/ FindOwnRoom(s) \/ ReserveOwn(s) \/ RetireOwn(s) \/ CreateRoom(s) \/ CreateFails(s)
    \/ Recheck(s) \/ ExpelOwn(s)
    \/ Admit(s) \/ AdmitBan(s) \/ Join(s)

Administrator ==
    \/ \E s \in Slots : Ban(s) \/ ActiveRooms(s) \/ ExpelBanned(s)
    \/ Unban \/ AdminReset \/ SetIdentityRequired \/ CloseBattle

Next == (\E s \in Slots : Player(s)) \/ Administrator \/ PlayStarts \/ PlayEnds \/ Purge

Spec == Init /\ [][Next]_vars

-----------------------------------------------------------------------------
(* Properties *)

(* A banned player has no seat in an open room once the requests that concern
   it have been answered: a ban that commits after match has checked it, and
   before, while or after the seat is reserved, is either seen by match behind
   the reservation or sees the seat itself.  Only a removal that failed leaves
   a seat (match.ts:68-72, admin-api.ts:75-80). *)
BannedIsOut ==
    \A id \in Accounts \ kept :
        controls[id] = "banned" /\ (\A s \in Slots : call[s].id = id => call[s].op \notin {"match", "ban"})
            => ActiveRoomIdsFor(id) = {}

(* A challenge buys at most one session token, however often the request is
   repeated, and only while the identity it was issued for exists, bound to the
   key and the card of the client that gets the token: not for an identity that
   was reset, or migrated, half way through (identity.ts:56-89). *)
TokenIsEarned ==
    [][\A n \in Nonces : issued'[n] # issued[n] =>
          /\ issued'[n] = 1
          /\ \E ch \in challenges, row \in identities, c \in Clients :
                /\ ch.nonce = n /\ row.id = ch.id /\ token'[c] = row.id
                /\ row.key = c /\ row.card = card[c] /\ row.hash = "host"]_vars

(* The identity a client is told it has is one bound to its own key and card,
   unless an administrator reset it since: also when two registrations race to
   the unique indexes and the loser answers from the winner's row
   (identity.ts:20-42). *)
RegisteredIsBound ==
    \A c \in Clients :
        told[c] = None \/ told[c] \in deleted
            \/ \E row \in FindById(told[c]) : row.key = c /\ row.card = card[c]

(* Nobody hosts two lobbies of one pool: a match retires the player's older
   lobby there before it opens the next, so the pool's directory lists none its
   host has abandoned for another of its rooms (match.ts:44-64).  Two cases the
   code does not cover are left out: matches of one player in one pool at the
   same time, and a match while a room of its own there plays.  Nor does it
   look at the other pools: a player may have a lobby in each. *)
OneLobbyPerHost ==
    \A id \in Accounts, pool \in Pools :
        <<id, pool>> \notin excused => Cardinality(FindOwnRecruitingHost(id, pool)) <= 1

(* A ban ends with the administrator lifting it: neither a new registration or
   match of the player, nor a reset, nor the cleanup ends it
   (d1/index.ts:84-98, 186). *)
OnlyUnbanLiftsBan ==
    [][\A id \in Accounts : controls[id] = "banned" /\ controls'[id] # "banned"
          => left'["unban"] < left["unban"]]_vars

=============================================================================
