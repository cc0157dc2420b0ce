# Formal models of OngekiCollab

OngekiCollab lets players of an arcade rhythm game share a multiplayer session over the internet: a relay
server (TypeScript, `src/src`), a client mod (C#, `src/mod/src`) and a web board (`src/frontend/src`).  This
directory holds TLA+ models of its protocols, the TLC runs that check them and the TLAPS proofs about them.

    tlc  -workers 2 -config RoomEngine_seats.cfg MCRoomEngine.tla     # one run
    tlapm Access_proofs.tla                                           # the proofs of one module

`PROJECT.json` ties every definition to the lines it stands for (`map`), every property to a plausible bug that
breaks it (`mutants`), and lists the hazards of the code with the properties that watch them (`hazards`).

## 1. Inventory of the system

| Component | Where | State | Operations | Hard behaviour | Correct when | Module |
|---|---|---|---|---|---|---|
| **Room engine** | `core/rooms/engine.ts` | live room row, member rows, score rows | initialize, reserve, validate/complete connection, onMessage (ready, unready, startRequest, playStarted, score, endPlay, binary frames), onClose, forceClose, banPlayer, alarm | durable writes that fail after live state changed; retries by alarm; events of dead sockets | live seats, durable rows, sockets and history fit together; the host is stable; no room or seat is held for ever | RoomEngine |
| **Durable projection** | `adapters/database/**/room-persistence.ts`, `mysql/`, `sqlite/` | `rooms`, `room_members`, `plays` | one batch per engine operation; recoverExpiredRoom | failed batch, batch whose answer is lost | shows what the room does; settled plays stay settled | RoomLifecycle, RoomEngine, RelayRoom |
| **Memory runtime** | `adapters/realtime/memory` | room map, FIFO mutex per room, one alarm slot per room, socket registry | the engine's operations under the mutex, pool creation, start-up recovery | crash loses all live state; retry of failed alarms | every open room has an alarm; recovery closes what was left open | RoomEngine |
| **Redis runtime** | `adapters/realtime/redis` | Redis hashes with a lease, lock keys with a lease, job queue | the same under a lock; alarm polling; pub/sub delivery | lock lease running out, lost jobs, crash inside a handler | one handler at a time; whoever waits is served; a hostless room closes | RedisRooms |
| **Durable Objects runtime** | `adapters/realtime/durable-objects`, `runtimes/cloudflare` | object storage, hibernating sockets | the same without a mutex | handlers interleave at their awaits of D1 | the same as above, as far as it survives | RelayRoom |
| **Self-hosted server** | `runtimes/selfhost/server.ts` | sockets | HTTP routes, WebSocket upgrade, first start | check before the upgrade, check after it | a stale ticket has no effect | RoomEngine, AdminConsole |
| **Matching and pools** | `core/match.ts`, `core/pools.ts` | none of its own | match, room creation | racing bans; the player's own older room | a banned player holds no seat; one lobby per host and pool | Access |
| **Identities** | `core/identity.ts`, `core/tokens.ts` | identities, challenges | register, challenge, session, authenticate | unique-key race, single-use challenge, hash migration, reset half way through | one binding per identity; a challenge works once | Access |
| **Administration** | `core/admin-api.ts`, `adapters/auth` | password hash, session generation, sessions, bans | login, logout, password reset, ban, unban, reset, close | reset racing a login | no session outlives the password it was made with; a ban holds until lifted | Access, AdminConsole |
| **Live directory** | `core/directory*`, runtimes' directory services | revision, clients | attach, publish | revision taken before the snapshot is read; changes never announced, pushes never delivered | a board ends with the newest snapshot that was announced and pushed | LiveDirectory |
| **Rate limits** | one per runtime | windows | allow | expiry, full table | who used its minute up, and nobody else, is refused | AdminConsole |
| **Board and admin pages** | `frontend/src` | list, page, cursors, socket | page turns, searches, live updates | answers, pushes and clicks overtake each other | what is shown belongs together | LiveDirectory, AdminConsole |
| **Client connection** | `mod/src/RelayClient.cs` | send queue and worker, socket, exchanges | match, connect with retry, send, dispose | worker inside a send when the queue fails | queue accounting exact; one close notification | - |
| **Client transport** | `mod/src/NativeTransport.cs`, `RelayDirectory.cs` | virtual sockets, pending streams, address table | bind, listen, connect, accept, send, receive, frames | frames between two lock sections of Accept | stream bytes arrive once, in order, or the stream fails | - |
| **Client shell, scripts, migrations** | `mod/src`, `scripts`, `migrations` | - | game patches, deployment | - | - | - |

How they interact: a client *registers* its card, proves its key with a *challenge* for a session token, and *matches* over
HTTP, which gets it a ticket for a reserved seat; it opens a WebSocket with the ticket; the server checks the ticket
before the HTTP 101 response and again when the room takes the socket, and then hands every message and the socket's
end to the room engine.  The engine changes its live store first, writes the durable projection, and tells sockets,
directory and pool.  Timers call back through `alarm`.  The match endpoint and the directory read the durable
projection only.  An administrator's bans and closes go to the tables first and to the rooms they name afterwards.

## 2. Plan

| Module | Models | Stands on | Proofs |
|---|---|---|---|
| `RoomLifecycle` | what a room promises to readers of the database | - | `RoomLifecycle_proofs` |
| `RoomEngine` | one room under the memory runtime's mutex, handler by handler | implements `RoomLifecycle` | `RoomEngine_proofs` |
| `RedisRooms` | the room's seats and alarm under the Redis lock, handlers in steps | implements `RoomLifecycle` without plays | `RedisRooms_proofs`, `RedisSeats_proofs` |
| `RelayRoom` | the room's handlers without a mutex, cut at database calls | - | `RelayRoom_proofs` |
| `Access` | registration, sessions, match, admission, bans | rooms reduced to what match and ban see | `Access_proofs` |
| `LiveDirectory` | snapshots from the tables to the board | - | `LiveDirectory_proofs` |
| `AdminConsole` | password, sessions, rate limit, the console's list | - | `AdminConsole_proofs` |

`MC<Module>` instantiates a module for TLC (symmetry, and the scenes of Access and AdminConsole).  The same code is modelled
three times, at the grain its three deployments need: RoomEngine has all of a room's data and one step per
handler; RedisRooms and RelayRoom have little data and a step per await.

Left, in this order: the client's send queue (`RelayClient.cs`: one producer lock, one worker, failure while the worker is inside a
send), its virtual sockets (`NativeTransport.cs`) and address table (`RelayDirectory.cs`); the play of RoomEngine on top of the
Redis lock.  Theorems worth proving there: exact accounting of the send queue, injectivity of the address table.

## 3. The runs

| Run | Module, instance | Properties | Shows |
|---|---|---|---|
| `seats` | RoomEngine; 3 seats, 3 players, 3 tickets, 1 play, 1 failure | `TypeOK`, `SeatsAreHeld`, `HostSeated`, `OpenRoomIsWatched`, `DurableMirrorsLive`, `HostSeatStable` | seats, durable rows, sockets and the alarm fit together through any one failure; until one happens the rows are the live seats; the host never changes |
| `history` | RoomEngine; 2 seats, 3 players, 2 plays, 1 failure | `DurableAgrees`, `CastIsFrozen`, `HistoryIsOwn`, `SettledIsFinal`, `ImplementsLifecycle` | one play at a time, of its own cast, with its own scores, settled once, although a seat changes hands between the plays; and the refinement |
| `recovery` | RoomEngine, fair; 2 seats, 2 players, 2 tickets, 2 failures | `HostlessRoomCloses`, `ReservationEnds`, `CountRecovers` | hostless rooms and unused seats are reclaimed once the alarm is no longer postponed; a wrong count is put right in any case |
| `ghost` | RoomEngine | `NoDurableGhost`, violated | finding |
| `refused` | RoomEngine | `RefusedCloseIsHarmless`, violated | finding |
| `redis` | RedisRooms; 2 instances, 2 handlers, host and guest, 1 failing database call, overrun lease, or lost command | `TypeOK`, `LeaseHolderOwnsLock`, `QuietAgreement`, `OpenRoomIsWatched`, `NoGhostSeat` | the lock is never freed for another and keeps live and durable state together; a close that overtakes its own join leaves no ghost |
| `vigil` | RedisRooms, fair; 1 instance, 2 handlers, host and guest, 1 failing database call or death of the instance | `HostlessRoomCloses`, `WaitersAreServed` | waiters are served; the room closes once its alarm is no longer postponed, unless something was lost |
| `waits` | RelayRoom; host and guest, 2 plays, 2 waiting handlers, any order, 1 failed call or lost reply | `TypeOK`, `ClosingIsPending`, `HistoryIsOwn`, `OpenRoomIsWatched`, `LiveCloseIsFinal` | what survives the loss of the mutex, and which replies alone take an open room's alarm away or open a closed room again |
| `overtaken` | RelayRoom; calls in order, no failure | `LivePlayIsStored`, violated | finding |
| `access` | Access; 2 clients, 2 pools, 2 requests at a time, 5 scenes | `TypeOK`, `BannedIsOut`, `RegisteredIsBound`, `OneLobbyPerHost`, `TokenIsEarned`, `OnlyUnbanLiftsBan` | registrations, sessions, matches, bans and resets racing each other |
| `board` | LiveDirectory, fair; 2 pools, 3 pages, 2 changes, announced or not, 2 clicks, 1 failure, 3 deployments | `TypeOK`, `ScreenShowsItsPage`, `QuietBoardIsCurrent`, `BoardCatchesUp` | the board shows one page of one pool, and ends on the directory as it is unless the latest change was left unannounced or lost |
| `console` | AdminConsole; 2 requests at a time, 8 scenes, 4 pages | `TypeOK`, `SessionIsCurrent`, `ListIsItsPage`, `RefusalIsDeserved` | sign-ins, sign-outs, resets and restarts racing each other; the list of players under clicks, refreshes and failures |

Deadlock is not checked: in every module the system may really stop, when a room is closed and its sockets are gone or
nobody asks for anything any more.  Symmetry is used for safety properties only.

### Bounds

* *RoomEngine.*  Seats matter only as the host's, a guest's and another guest's; three of them give a sweep that is cut
  short, a lowest free seat below a taken one, and a play that goes on after a drop.  Three players let a seat be taken
  by somebody else while the old holder's socket is still about to close; three tickets give two seats and one
  handshake on an outdated one; two plays are needed for anything to leak from one into the next.  One failure
  makes every failure branch happen at every moment; with two, in `recovery`, a retry fails as well.
* *RedisRooms.*  Two handlers at work at a time are what a lease that ran out, or a lock without one, lets
  through; a third waits for the lock in vain the same way the second does.  One failure, of any sort, at any of
  their steps; the proofs are for any number.  `DamagedAlone` bounds `redis`: once a lease, a command or an
  instance is lost, when `LeaseHolderOwnsLock` is all that is still claimed apart from the types, the states in
  which both instances use the room are left out; the theorems have no such bound.  In `vigil` a guest comes and
  goes as long as it likes, so the alarm is postponed as often as the code lets it be.
* *RelayRoom.*  Two waiting handlers overtake each other in every way two can.  The reports of one player are
  looked at (`Reporters`), as scores never mix between players.  One failure takes back a startPlay on a room that was closed
  meanwhile, which is the way an open room loses its alarm.  The second exception of `LiveCloseIsFinal` needs two failures: with
  `MaxFaults` 2 the run has 3.75 million states, passes as well, and does not without that exception.
* *Access, AdminConsole.*  A *scene* says what there is at the start and how often each request is made, so that every race the
  hazards name fits into one scene and no scene pays for the others.  Two requests at a time race each other at every
  await; a third is needed by none of the races.  Three rooms allow an older lobby, a new one and one in the other pool or of
  another player; `Limit`, `MaxKeys` and `MaxLive` are 1 so that one call fills them.
  The list has four pages: the way back is first longer than one entry from the fourth on.  (With three pages TLC missed the search
  that loses the way back from an inner page; it showed when the invariant for the proof would not go through.)
* *LiveDirectory.*  Two changes can be numbered in one order, read and delivered in another; three pages as above; two pools for
  a change of pool.

The proofs of section 5 are for all values of these constants.

### Fairness

* `RoomEngine!FairSpec`: an armed alarm rings *or is postponed* (weak, of `Alarm \/ Postpones`), the reservation minute passes, and
  a dead process is started again (`restart: unless-stopped` in `docker-compose.yml`).  More cannot be assumed of the alarm.  A room has
  one, and scheduling it replaces the one that is set (`memory/index.ts:104-110` clears the timer): a reservation (`engine.ts:118`) sets
  it a minute ahead, a leave (`engine.ts:468`) five seconds, so guests that keep coming and going keep it from ringing for ever.
  `HostlessRoomCloses` and `ReservationEnds` therefore hold from the moment the alarm is left alone (`AlarmLeftAlone`,
  `<>[][~Postpones]_vars`), and say nothing of a room that guests keep busy.  `CountRecovers` needs no such condition: the handlers that
  postpone the alarm write the count themselves.
* `RedisRooms!FairSpec`: a handler that has the lock goes on (weak); one that waits polls the key until it finds it free, and
  is not overtaken for ever (strong: the code polls every 25 ms, and gives up after eight seconds); a queued
  job is claimed or postponed (strong, as the slots of the model may be full; the ZADD of `scheduler.ts:27` replaces the due time of a job
  that is queued already, so it is claimed for certain only once it is no longer postponed, which `HostlessRoomCloses` has as its
  condition); the lease of a dead holder runs out (weak: it is
  Redis's own timer); a published close is delivered to an instance that lives.
* `LiveDirectory!Spec`: the server announces what it goes on to announce, builds and delivers it, sockets and requests go on, and the
  reconnect timer fires.

Nothing a player, a reader, an administrator or the network does is fair; sockets may stay silent for ever.  Failures are
finitely many: against a database that never comes back no liveness holds.

## 4. The modules

### RoomLifecycle

Two variables, the room's status and its plays as a reader of the tables sees them; four actions.  What an ended play may show is
in `Settles`: its cast and each one's own reports, or, where the read of the participants failed, nobody.

### RoomEngine

One room of the single-process memory deployment, from the creation of its id to its closing.  Every handler of
`MemoryRoomService` runs under a FIFO mutex of the room (`memory/index.ts:164`), so **one handler is one step**; what
can go wrong inside a handler, a durable batch that fails after live state was changed or a snapshot that cannot be sent, is
a branch of the handler's action (`Faulty`), and the state it leaves is the state the code's `catch`, or its absence, leaves.

| Variables | Code |
|---|---|
| `status`, `playId`, `begun` | `meta.status`, `meta.play_id`, "now >= `meta.started_at`" |
| `members` | live member rows by seat; `reserved` is what the code reads out of `reserved_at`: 0, at most a minute ago, longer ago |
| `scores` | live score rows; a report is a pair of play and player, a row the set of reports merged into it |
| `room`, `rows`, `plays` | rows of the tables `rooms`, `room_members`, `plays` |
| `alarm` | whether the room's timer is set |
| `sockets` | player sockets whose close event is still to come, with the ticket they were opened with |
| `up`, `faults` | the process runs and has finished its start-up recovery; failures spent |

| Actions | Code |
|---|---|
| `Initialize`, `Reserve`, `Rereserve` | `initialize`, `reserve` (a newcomer; a retry of a player whose seat is unconnected) |
| `Upgrade`, `CompletePlayerConnection` | the check before the 101 response, then `validatePlayerConnection` + `completePlayerConnection` under the mutex |
| `OnClose`, `OnError` -> `RemoveSocket` | close and error events of a socket -> `removeSocket`: `CloseRoom`, `LeavePlay`, `LeaveLobby` |
| `Ready`, `Unready`, `RecordScore`, `EndPlay` | control messages |
| `StartPlay`, `RecordPlayStarted` | `startRequest` (gated, some seconds ahead), `playStarted` (ungated, now) |
| `Alarm` -> `Sweep` or `CloseRoom` | `alarm` |
| `ForceClose`, `BanPlayer` | the administrator's operations |
| `AgeReservation`, `StartTimeComes` | the clock crossing the two moments the code compares with |
| `Crash`, `RecoverExpiredRoom` | death of the process; `closeStalePersistentRooms` at the next start |

`SeatsAreHeld` says that every live seat has its durable row (`SeatBacked`) and a connected one its socket
(`ConnectedSeatHasSocket`); `DurableAgrees` that live and durable status agree (`StatusAgreement`) and one play, the current one, is open
(`OpenPlayIsCurrent`); `CastIsFrozen` that nobody joins a play (`SeatsAreCast`) and a guest's score is frozen exactly while it
is gone (`DropFrozen`).

Choices a reader may want to question:

* *closing* is not a value of `status`: it exists only inside `closeRoom`, which leaves *closed* or the old status.
  `TypeOK` is therefore a claim, and its mutant (no restore after a failed write) breaks it.
* An armed alarm may ring at any moment; its delays (5 s, 60 s, 1 h, exponential backoff) are left out, so safety is checked for all
  of them.  There is one alarm, which a later one replaces (`Postpones`): see the fairness above.
* `Upgrade` takes the ticket of the reservation that stands now; a handshake that is slow stays in phase *upgraded* while
  the world moves on.  The ticket's own expiry is left out, so the model admits more handshakes than the code.
* Reservation ids are reused once no seat and no socket refers to them, which keeps the instances finite.
* `removeSocket` has a branch that closes a room left empty by a guest.  It cannot run, since the host's seat is
  taken whenever a guest's is (`HostSeated`, lemma `GuestLeavesCompany`), and is not an action.
* `endPlay` swallows a failed read of the participants and ends the play with nobody in it.  The model does the same, and
  RoomLifecycle's `Settles` admits it.
* A row of seeded scores without any report is the same as no row.
* Names, charts, difficulties, round-trip times, spectators, relayed binary frames and the message rate limit are
  left out: they change nothing the properties speak about.  A socket may close at any time for any of those reasons.
* Here a batch either goes through or fails without effect.  A batch that commits although its caller sees an error is
  RelayRoom's `Falter`.

### RedisRooms

The same room with its live state in Redis (`adapters/realtime/redis`).  Handlers of all instances take the lock key of the
room (`SET NX PX`), work in steps and release it with a script that compares the token.  A handler is a record in `task`: its kind, its
instance, the player it is about, and where it stands (`pc`); it is cut wherever another handler could come between once a
lease has run out, or its instance could die.  `lock` holds the slot whose token the key has, `lapsed` the handlers that work on
without their lease, `job` the room's entry in the sorted set of alarms, `closing` the instances a published close has
not reached.  The members hash is one record per player.

A creation has a room id of its own (`redis/pools.ts:19`); the model uses the id of a failed creation again once nothing is left of that one
(`Create`), which keeps the instances finite.

Four sorts of failure: a database call fails (`fault`), a lease runs out under a live holder (`overrun`), a command is lost or a lock
wait given up (`loss`), an instance dies (`crash`).  Plays are left out; they need no step that the seats do not have.  A handler
that throws where nobody awaits it (a join) ends its process, as in Node.  Redis is taken to keep what it acknowledged; its six-hour
expiry of the live keys is `Expire` and `Outage`.

`HostlessRoomCloses` and `QuietAgreement` are claimed only while nothing but database calls failed (`Damaged`).  With an overrun,
a loss or a crash they are false, and not a matter of luck: an instance that dies between *closing* and *closed* leaves the room
closing until its keys expire, and an alarm claimed by a dying instance is gone.  `HostlessRoomCloses` also has the condition of
the fairness section: that the alarm is not postponed (`Postpones`) for ever.

### RelayRoom

The room as a Durable Object.  Its own storage is synchronous, a call to D1 is not, and no mutex surrounds a handler: so a handler is a
chain of steps, each ending at a D1 call.  A record in `call` is a handler that waits: the operation, what it has read (`play`,
`scores`, `back`), who runs it, and whether its call is out, stored or refused.  `Store` lets a call take effect, `Reject` is the
primary key's refusal, `Falter` a failure, which may have taken effect all the same.  The reply continues the handler (`Resume`) on the
state as it is by then.  `forceClose` and `banPlayer` run in `blockConcurrencyWhile` (`Blocked`).

Two replies write a status back without a look at the present one: that of a failed `startPlay` (`engine.ts:410-412`, `StartTakenBack`) and
that of a failed `closeRoom` (`engine.ts:536-540`, `CloseTakenBack`).  A room that was closed while `startPlay` waited recruits again when its
write turns out to have failed, and its alarm may be over by then: an open room that no alarm looks after, with nobody connected.  The properties name these replies and say that nothing else does it, whichever calls fail: `OpenRoomIsWatched` that an open
room has its alarm set or being handled until the reply of a failed `startPlay` on a room being closed or closed; `LiveCloseIsFinal` that no
other reply opens a closed room.  (`endPlay` looks at the status after its write; the failed `closeRoom` restores the status and sets the alarm.)

With `InOrder` calls take effect in the order they were sent; `waits` does not ask for that, `overtaken` does, so the finding does not
depend on reordering.

### Access

Every handler of `core/match.ts`, `core/identity.ts` and the administrator's part of `core/admin-api.ts`, cut at its awaits.  A
request is a record in `call` with the await it has reached.  Tables are sets of rows; a row's `hash` tells a row an older version
wrote; cards stand for all the fields a unique index covers.  Rooms have a status, a song, a host and the sets of seated and joined accounts.

| Actions | Code |
|---|---|
| `Register`, `CreateIdentity`, `Rebind`, `RecordRegistered` | `registerIdentity`, `retryOrConflict` |
| `AskChallenge`, `CreateChallenge`; `Session`, `MigrateServerHash`, `LatestHash`, `Consume` | `createChallenge`; `createSession` |
| `Match`, `FindSessionIdentity`, `RecordPlayer`, `CheckBan` | `match` up to its first ban check, `authenticateIdentity` |
| `FindRoom`, `Reserve`; `FindOwnRoom`, `ReserveOwn`, `RetireOwn`, `CreateRoom`, `CreateFails`; `Recheck`, `ExpelOwn` | the rest of `match`: a named room; the own lobby; the ban check behind the reservation |
| `Admit`, `AdmitBan`, `Join` | the check of a ticket before the upgrade, the room's admission |
| `Ban`, `ActiveRooms`, `ExpelBanned`, `Unban`, `AdminReset`, `SetIdentityRequired`, `CloseBattle` | `core/admin-api.ts` |
| `PlayStarts`, `PlayEnds`, `Purge` | what the room and the cleanup do meanwhile |

`BannedIsOut` leaves out seats whose removal failed (`kept`): the code reports the failure and forgets it.  `OneLobbyPerHost` is about each pool
by itself: a match looks for the player's lobby in the requested pool only (`match.ts:45`), so a player may keep one in every pool.  It leaves out
two cases in which the code does open a second lobby in a pool (`excused`): matches of one player in it at the same time, and a match while a
room of its own there plays.  Cryptography is ideal; the expiry of tickets, tokens and challenges is left out, so the model admits more requests than the code.

### LiveDirectory

A pool's directory is its version.  `Change` writes it and goes on to notify, `Announce` numbers the change, `BuildPush` reads the snapshot, `DeliverPush` sends it
to the boards listed; a board that connects is listed first (`Attach`), then numbered, read and answered.  The three deployments
differ in who numbers, when the recipients are fixed and what a failing snapshot does; `deployment` is fixed in `Init`.  The rest is
`board.ts`: the page shown, the cursors, the request under way, the snapshot kept, the last revision seen.  Connected boards
miss a change in three ways, and a pool whose latest change was missed is in `lost` until the next is announced: the announcement or the
snapshot fails in a self-hosted deployment, or the object's call does (`AnnounceFails`, `PushFails`); a published snapshot finds an instance
whose Redis subscription is being renewed (`PublishMissed`); or the operation that wrote the change never gets to notify (`ChangeUntold`):
a later write of its own fails (`removeMember` done, the count's update not, `engine.ts:485-490`; a sweep that stops half way, 569-579), the
snapshot of a join cannot be sent (136-147), or `endPlay` finds the room closed after its write (442-443).  `ChangeUntold` spends no failure, so it may
happen to every change.  `QuietBoardIsCurrent` and `BoardCatchesUp` except the pools in `lost` and nothing else.  `changes` counts the
versions written in all pools: no part of the program, only the bound of an instance.

### AdminConsole

The password and the session generation are two rows, read side by side (`ReadRow` takes them in any order) and written
one by one by the server's first start, together by the reset script.  A sign-in reads both, checks the password, reads both again and only
then stores its session.  Every other request reads session and generation in any order.  The memory limiter is modelled with its
sweeps and its full table.  The page (`ui`) is `admin.ts` with `AdminApp.vue`: `loadList`, the search that waits for it, page turns, bans.
`Authenticate` reads a session for the last time and renews it in one step.  In the memory store `expire` awaits its own `get` in between
(`memory-sessions.ts:57-61`); that promise is resolved already, so only a deletion whose continuation is queued in the same turn could fall into
the gap and be undone.  That gap is not modelled.

| Actions | Code |
|---|---|
| `ServerStarts`, `Restart`, `ResetPassword`, `SweepSessions` | the first start's bootstrap, a restart (memory sessions are gone), `admin-reset-password` |
| `Login`, `ReadRow`, `CheckPassword`, `CheckAgain`, `StoreSession`, `IndexSession` | `login`, with the rate limiter in its first step |
| `Logout`, `DeleteSession`, `ForgetSession`; `Authenticate`, `RequestFails` | `logout`; `authenticate`, a request that fails |
| `OpenConsole`, `CheckSession`, `SignedInAlready` | the shells of the two pages |
| `Search`, `OnNext`, `OnPrevious`, `Refresh`, `PlayerAction`, `PlayerActionDone`, `ListAnswered` | `admin.ts`, `AdminApp.vue` |
| `Tick` | time passes |

`ListIsItsPage` says what belongs together on the page.  Its way back starts on page 3: `onNext` remembers the cursor of the
page it leaves, and page 1 has none, so the code offers no way from page 2 to page 1, and `WayBack` is what it offers.  Excepted are four
orders of events after which the page's own state is inconsistent and nothing is claimed until the console is opened again (`muddled`,
set by `Muddles`): a search that waited for a ban; the same search sent again while the next page loads; a search repeated from
the third page on, or the list loaded after a ban there, that fails to load.  The last two empty the way back (`previous`) and leave the old page standing.
After any load that failed the property says nothing of the rows that stay on the page until one succeeds, only that the page is busy
exactly while its request is under way.

## 5. Proofs

All theorems are for the specification without fairness and for every value of the constants that satisfies the module's
assumption.

| Module | Theorems | States |
|---|---|---|
| `RoomEngine_proofs` | `Invariance`, `TypeCorrect`, `StatusesAgree`, `SeatsAreBacked`, `HostIsSeated`, `CastAndDrops`, `HistoryIsTrue`, `RoomsAreWatched`, `HostIsStable`, `SettledStaysSettled`, `FaultFreeMirror` | every safety property of `seats` and `history` |
| | `RoomImplementsLifecycle` | the refinement, `Spec => Lifecycle!Spec` |
| `RoomLifecycle_proofs` | `OnePlay`, `SettledStays` | what every implementation of RoomLifecycle has |
| `RedisRooms_proofs` | `LeaseIsOwned`, `OneHolderAtATime` | `LeaseHolderOwnsLock`; mutual exclusion among handlers within their lease |
| | `StatusesAgreeWhenQuiet`, `OpenRoomKeepsAlarm` | `QuietAgreement`, `OpenRoomIsWatched` of `redis` |
| `RedisSeats_proofs` | `RedisTypeCorrect`, `ConnectedSeatsAreLive` | `TypeOK`, `NoGhostSeat` of `redis` |
| | `RedisImplementsLifecycle` | the refinement `Spec => Lifecycle!Spec` of a room without plays; no run has it |
| `RelayRoom_proofs` | `TypeCorrect`, `ClosingHasItsWrite`, `HistoryKeepsPlaysApart`, `OpenRoomHasAnAlarm`, `CloseIsFinal` | every property of `waits` |
| `Access_proofs` | `TypeCorrect`, `BanIsComplete`, `RegistrationIsBound`, `HostsOneLobby`, `OneTokenPerChallenge`, `BanStays` | every property of `access` |
| `LiveDirectory_proofs` | `DirectoryTypeCorrect`, `ScreenIsConsistent`, `QuietScreenIsCurrent` | every safety property of `board` |
| `AdminConsole_proofs` | `ConsoleTypeCorrect`, `AcceptedIsCurrent`, `ListIsAlwaysItsPage`, `RefusalsAreDeserved` | every property of `console` |

*RoomEngine.*  None of the invariants is inductive alone.  `IInv` is their conjunction with five facts the handlers
rely on silently: a play id is set exactly while playing (`PlayIdSet`), a process that is down has left an open room and nothing live
(`DownLeavesOpen`), rooms that are not open have no seats (`SeatsOnlyOpen`), scores exist during a play only
(`ScoresOnlyPlaying`) and are of this play and its cast (`ScoresOfThisPlay`).  For example `HistoryIsOwn` needs `ScoresOfThisPlay`,
which needs `SeatsAreCast` for the reports and `ScoresOnlyPlaying` for the next play; `ConnectedSeatHasSocket` needs
`SeatsOnlyOpen`, because closing and crashing drop the sockets; `SeatBacked` is what makes the primary key
of `room_members` hold in the reservation of a live seat.  Rather than go through all actions for each conjunct, the proof
first classifies steps once: `PhaseSteps` (which steps change status, play, history), `RosterSteps` (a step seats a
newcomer, connects a seat with its socket, or only frees and disconnects seats), `ScoreSteps`, `SocketSteps`, `RowSteps` and
`GuestSteps`.  Each conjunct's own lemma then argues from the classification.  The refinement uses the same classes and `IInv`: a step
that ends or closes a play merges only reports of the play's own cast.

*RedisRooms.*  Each step is one of a few moves of a handler relative to the lock (it moves while at work, waits, takes the key,
leaves, dies), and each of those keeps `LeaseHolderOwnsLock`.  Mutual exclusion follows at once, and with it what the code is
entitled to: two handlers overlap only if one has outlived its lease.  The room's two properties rest on that: while nothing but database calls has
failed no lease was overrun, so the handler at work is alone, and what the two statuses are follows from where it stands (`Fits`): they
differ after the first write of a creation and between the writes of a close, nowhere else.  A creation that has not begun stands for a room that is not there (`OneCreation`).
The two need each other: live keys only expire when no alarm is queued, which an open room rules out; and a handler drops its alarm
for good where the live status says the room is closed, which the agreement justifies.

*RedisSeats.*  `RedisTypeCorrect` holds through every failure.  What it needs is that a handler about to write a member record back has read one (`Crew`),
and that an id for the next reservation is always left, as the handlers under way know at most one of a player's each.  `ConnectedSeatsAreLive`
stands on the room's invariant.  The lock serves whom it likes, so a close may be handled before the join of its own socket.  The
join then finds the seat freed or reserved anew, under an id that no handler under way knows: hence a join that
will pass its second check has a socket, or its close is still to come (`JoinsCovered`).  What a handler has read is still the seat it writes back
(`SeatsHeld`), because it works alone and no ring of the alarm comes between; a closed room has nobody connected (`ClosedIsEmpty`).
The refinement (`Life`) holds through every failure: as long as the row is not there the creation is the room's only handler, with nothing queued, no
socket and no seat (`Unborn`); once it is there no creation is left (`Born`).  So nobody closes a room that is still to be opened, even if
the creation has lost its lease, and none is opened twice.

*LiveDirectory.*  Three arguments.  For the types: whatever number a push, a snapshot or the board has seen was handed out by
the server, and a pool's announced changes and those still to be announced together never exceed its version, nor a version all that was written
(`ServerTyped`).  For the page: the request under way is of the pool selected and carries the cursor
remembered for the page, since every move replaces it or drops it (`LoadFits`), so its answer fits the page it is applied to.  For the contents: a
snapshot that bears the last number of its pool was read after the last announced change (`Fresh`), and a listed board has that
number, or it is on its way (`Reaching`), because the board was listed before it asked for a number of its own; unless the last change was
not announced, or its snapshot not delivered, and the pool is `lost`.  What is shown on the first page is the
last snapshot or was read later (`Rendered`).

*RelayRoom.*  The invariant is about what waiting handlers have read.  No handler but `closeRoom`'s own leaves *closing*; the
scores a handler carries were reported in the play it carries, as long as nothing failed (`HistoryIsOwn` is the one property claimed without failures
only: the scores seeded for a refused play stay, and a later play may be given them).  No event changes the status of a
closed room, so only a reply can.  An alarm that rings leaves its handler at work, and that handler ends by closing the room or setting the alarm
again, or finds the room closed already.

*Access.*  Two arguments that share only the requests.  For the tables: what a request has read or been told stays *owned* by its
client (`Owns`) until the id is in `deleted`, and a request that is about to consume a challenge holds a row that is bound and
migrated (`Proving`); ids and nonces are fresh (`Tables`).  For the rooms: whoever is banned and seated is *chased* (`Chases`), by a ban that
has still to look at that room, or by its own match that has still to look at the ban; and a match that has looked for its lobby in a pool is the only one that has
(`Searches`), so what it found, or did not find, still stands when it creates the next.

*AdminConsole.*  Once the first start is over every change of the hash changes the generation as well.  So the distance of hash and
generation is constant, and two readings of the pair at one moment each compare alike in both.  A sign-in reads the rows twice; if nothing moved
in either reading then its hash and generation belong to one moment (`Confirms`).  A request that finds its session's generation current therefore
finds the password current too.

For the limiter: the memory table never has more than `MaxKeys` minutes (`Limits`), so it is full only with as many as the property counts, and a newcomer is
refused only after the sweep has taken what expired.  For the list (`PageInv`): a page that awaits nothing shows one page with both its ways
(`Rests`); a busy one has one request, which was sent from such a page (`Awaits`) and carries no cursor, the current one, the one of the next page together
with the current one to push, or the top of the way back (`Asks`); and the cursor of the next page belongs to the page loaded last, even where the box
has another search by now (`Linked`).  Each disjunct of `Muddles` is an answer after which `Rests` or `Asks` fails.

*Model-checked only:* liveness (`HostlessRoomCloses` of both modules, `ReservationEnds`, `CountRecovers`, `WaitersAreServed`, `BoardCatchesUp`), which
is out of the prover's reach, and the three refuted properties.  Every safety property that a passing run checks is a theorem.

## 6. Findings

* **ghost** - a guest's drop whose row cannot be deleted, then a play started before the retry: `startPlay` deletes the
  unconnected live seat but keeps the durable row, still marked connected, for which no live member is left to retry.  The comment at
  `engine.ts:464-466` says this cannot happen.  The next newcomer for that seat fails on the primary key.
* **refused** - two handshakes with one ticket both pass the first check.  The second check turns one away, but its
  close event is handled as the close of the seat, which by now belongs to the other.
* **overtaken** - in a Durable Object, two `endPlay` messages of one play: the host starts the next play between the two replies, and the
  second one, which looks at the status and not at the play (`engine.ts:443`), takes it for its own.  The room recruits live and plays in the database, and
  nobody ends the stored play any more: the live room has forgotten its id, so even `closeRoom` settles none (`engine.ts:535` passes `play: null`).
  `redis/room-service.ts:18-20` describes the Durable Object as serialising every mutation.

## 7. Not modelled

* *The client mod* (C#).  Its send queue, virtual sockets and address table share no state with the server; they come next in the plan.
  The shell that patches the game has no protocol.
* *HTTP routing, parsing and validation*: stateless.  *Cryptography*: taken as given.  *Cloudflare Access*: an external service.
* *Time as numbers*: expiry of tickets, tokens, challenges and cookies; backoff of retries.  Where the code compares with a moment, the moment
  may pass at any time.
* *Self-hosted server*: its configuration, static files and shutdown.  An unhandled rejection ends the process; RedisRooms has that as the death of the
  instance, RoomEngine as `Crash`.
* *Durable Objects*: the reset of an object after an administrator's call failed, its eviction in the middle of a close, the rate limiter's object.
* *Redis*: a server that forgets what it acknowledged; sockets that are half open; plays.
* *Pub/sub messages of a room's own bus* are delivered or lost with their publication (`Lossy`); a subscription that is renewed is modelled for
  the directory only.
* *Board*: the list of past plays (fed and paged by the same functions as the rooms), rendering, translations, the song catalogue.
* *Console*: the list of battles (paged like the players), the identity switch, `setPassword`, which nothing calls.  A bootstrap that computed its hash
  before a reset may overwrite it (`ServerStarts` does so too, but `SessionIsCurrent` speaks about the password there is); a logout whose
  deletion failed leaves the session alive without its cookie.
* *Migrations and deployment scripts*, except the password reset.
