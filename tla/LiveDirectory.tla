--------------------------- MODULE LiveDirectory ---------------------------
(***************************************************************************)
(* The public board: a browser shows a page of the rooms of one pool.  A    *)
(* change of the directory is written to the database, announced, numbered  *)
(* with the pool's next revision, read back as a snapshot of the first page *)
(* and pushed to the connected boards; a board that connects is registered  *)
(* first and then sent a snapshot of its own.  The other pages, and a       *)
(* manual refresh, are read over HTTP.  A change may also be written and    *)
(* never announced, and a published snapshot may miss its subscribers.      *)
(*                                                                         *)
(* The three deployments differ in who numbers the changes, in when the     *)
(* recipients of a push are fixed and in what a snapshot that cannot be     *)
(* built does to them.  A behaviour is one deployment's.                    *)
(*                                                                         *)
(* The directory of a pool is abstracted to its version, the number of      *)
(* changes written to it.  The board's list of past plays is fed by the     *)
(* same socket and paged by the same functions as its list of rooms: one    *)
(* list is modelled.                                                       *)
(***************************************************************************)
EXTENDS Integers, Sequences

CONSTANTS
    Pools,        \* matching pools with a directory
    Default,      \* the pool a board opens with
    Null,         \* no cursor, no rows, no snapshot, nothing read yet
    Deployments,  \* which of "objects", "redis" and "memory" are looked at
    Pages,        \* bound: pages the rooms of a pool fill
    MaxChanges,   \* bound: changes of the directory
    MaxMoves,     \* bound: clicks of the reader
    MaxFaults     \* bound: failures

Cursor == [pool : Pools, at : 1..(Pages - 1)]

ASSUME DirectoryAssumption ==
    /\ Default \in Pools /\ Null \notin Pools \cup Nat
    /\ Null \notin [rev : Nat, version : Nat]
    /\ Null \notin [pool : Pools, cursor : Cursor \cup {Null}, version : Nat \cup {Null}]
    /\ Deployments \subseteq {"objects", "redis", "memory"}
    /\ Pages \in Nat \ {0}
    /\ MaxChanges \in Nat /\ MaxMoves \in Nat /\ MaxFaults \in Nat

Versions == 0..MaxChanges
PageRows == [pool : Pools, cursor : Cursor \cup {Null}, version : Versions]

(* A snapshot under way to the boards of a pool.  version: what was read;
   to: the Durable Object started it with the board among its clients. *)
Push == [pool : Pools, rev : 1..MaxChanges, version : Versions \cup {Null}, to : BOOLEAN]

(* The request the list waits for; one it no longer waits for is aborted, and
   ignored by its generation if its answer is already here. *)
Load == [pool : Pools, cursor : Cursor \cup {Null}, version : Versions \cup {Null}]

VARIABLES
    deployment,  \* the deployment, fixed from the start
    data,        \* version of each pool's directory in the database
    changes,     \* versions written altogether
    noticed,     \* changes written and about to be announced, by pool
    revision,    \* revision counter by pool
    pushes,      \* snapshots under way to the boards
    conn,        \* the board's socket as the server has it
    selected,    \* pool
    page, cursors, nextCursor, shown, failed,  \* PageState: items is shown
    load,        \* the request on its way
    snapshot, lastRevision,                    \* live
    summary,     \* the rows the counts of rooms were taken from
    lost,        \* pools whose latest change was not announced, or did not reach the boards
    moves, faults

server == <<deployment, data, changes, noticed, revision, pushes, lost>>
list == <<selected, page, cursors, nextCursor, shown, failed, load, summary>>
live == <<conn, snapshot, lastRevision>>
vars == <<server, list, live, moves, faults>>

Snapshots == [rev : 0..MaxChanges, version : Versions]
NoConn == [stage |-> "none", rev |-> Null, version |-> Null, queue |-> <<>>]

TypeOK ==
    /\ deployment \in Deployments
    /\ data \in [Pools -> Versions] /\ changes \in Versions /\ noticed \in [Pools -> Versions]
    /\ revision \in [Pools -> Versions]
    /\ pushes \subseteq Push
    /\ conn.stage \in {"none", "opening", "registered", "numbered", "read", "open"}
    /\ conn.rev \in Versions \cup {Null} /\ conn.version \in Versions \cup {Null}
    /\ conn.queue \in Seq(Snapshots)
    /\ selected \in Pools /\ page \in 0..(Pages - 1)
    /\ cursors \in [0..(Pages - 1) -> Cursor \cup {Null}]
    /\ nextCursor \in Cursor \cup {Null}
    /\ shown \in PageRows \cup {Null} /\ summary \in PageRows \cup {Null}
    /\ failed \in BOOLEAN
    /\ load \in Load \cup {Null}
    /\ snapshot \in Snapshots \cup {Null}
    /\ lastRevision \in -1..MaxChanges
    /\ lost \subseteq Pools
    /\ moves \in 0..MaxMoves /\ faults \in 0..MaxFaults

FirstPageOnly == [k \in 0..(Pages - 1) |-> Null]

(* The page has been opened and connectLive has run for the first time. *)
Init ==
    /\ deployment \in Deployments
    /\ data = [p \in Pools |-> 0] /\ changes = 0 /\ noticed = data /\ revision = data
    /\ pushes = {} /\ lost = {}
    /\ conn = [NoConn EXCEPT !.stage = "opening"]
    /\ selected = Default
    /\ page = 0 /\ cursors = FirstPageOnly /\ nextCursor = Null
    /\ shown = Null /\ summary = Null /\ failed = FALSE /\ load = Null
    /\ snapshot = Null /\ lastRevision = -1
    /\ moves = 0 /\ faults = 0

-----------------------------------------------------------------------------
(* The directory service. *)

Fault == faults < MaxFaults /\ faults' = faults + 1

(* The pages of a pool are cut alike whatever its version. *)
Following(p, c) ==
    LET k == IF c = Null THEN 1 ELSE c.at + 1
    IN  IF k < Pages THEN [pool |-> p, at |-> k] ELSE Null

(* A cursor names the pool it was cut from. *)
InvalidCursor(p, c) == c # Null /\ c.pool # p

(* Mutant of Registered: a board is listed once it has its first snapshot. *)
RegisteredLate == conn.stage = "open"

(* The server lists the board among the clients of its pool. *)
Registered == conn.stage \in {"registered", "numbered", "read", "open"}

Written(p) ==
    /\ changes < MaxChanges /\ changes' = changes + 1
    /\ data' = [data EXCEPT ![p] = @ + 1]

(* A room operation has written the projection and goes on to notify. *)
Change(p) ==
    /\ Written(p)
    /\ noticed' = [noticed EXCEPT ![p] = @ + 1]
    /\ UNCHANGED <<deployment, revision, pushes, lost, list, live, moves, faults>>

(* The write is done and the operation never gets to notify: a later write of
   its own fails, or it finds the room closed meanwhile and returns. *)
ChangeUntold(p) ==
    /\ Written(p)
    /\ lost' = lost \cup {p}
    /\ UNCHANGED <<deployment, noticed, revision, pushes, list, live, moves, faults>>

(* Mutant of Announced: a change is announced for ever. *)
AnnouncedAgain(p) == noticed' = noticed
Announced(p) == noticed' = [noticed EXCEPT ![p] = @ - 1]

(* publishChange, changed: the change gets its number.  The Durable Object has
   its clients by then, and is done when there are none. *)
Announce(p) ==
    LET to == Registered /\ selected = p
    IN  /\ noticed[p] > 0
        /\ Announced(p)
        /\ revision' = [revision EXCEPT ![p] = @ + 1]
        /\ pushes' = IF deployment = "objects" /\ ~to THEN pushes
                     ELSE pushes \cup {[pool |-> p, rev |-> revision'[p], version |-> Null, to |-> deployment = "objects"]}
        /\ lost' = lost \ {p}
        /\ UNCHANGED <<deployment, data, changes, list, live, moves, faults>>

(* The counter or the object cannot be reached; the caller only warns. *)
AnnounceFails(p) ==
    /\ Fault /\ noticed[p] > 0 /\ deployment # "memory"
    /\ noticed' = [noticed EXCEPT ![p] = @ - 1]
    /\ lost' = lost \cup {p}
    /\ UNCHANGED <<deployment, data, changes, revision, pushes, list, live, moves>>

(* directorySnapshot *)
BuildPush(b) ==
    /\ b.version = Null
    /\ pushes' = (pushes \ {b}) \cup {[b EXCEPT !.version = data[b.pool]]}
    /\ UNCHANGED <<deployment, data, changes, noticed, revision, lost, list, live, moves, faults>>

(* applyPublished and the memory service send to whoever is listed now. *)
Recipient(b) ==
    IF deployment = "objects" THEN b.to ELSE Registered /\ selected = b.pool

DeliverPush(b) ==
    /\ b.version # Null
    /\ pushes' = pushes \ {b}
    /\ conn' = IF Recipient(b)
               THEN [conn EXCEPT !.queue = Append(@, [rev |-> b.rev, version |-> b.version])]
               ELSE conn
    /\ UNCHANGED <<deployment, data, changes, noticed, revision, lost, list, snapshot, lastRevision, moves, faults>>

(* Redis gives a message to the instances subscribed at that moment: one whose
   subscription is being renewed misses it, and so do its boards. *)
PublishMissed(b) ==
    /\ Fault /\ deployment = "redis" /\ b.version # Null
    /\ pushes' = pushes \ {b}
    /\ lost' = IF b.rev = revision[b.pool] THEN lost \cup {b.pool} ELSE lost
    /\ UNCHANGED <<deployment, data, changes, noticed, revision, list, live, moves>>

(* The socket is gone: onclose.  A push under way has nobody to reach. *)
Unaddressed(bs) == {[b EXCEPT !.to = FALSE] : b \in bs}
Dropped == conn' = NoConn /\ snapshot' = Null

(* The snapshot cannot be built.  announce closes its clients; the self-hosted
   services leave them connected and warn. *)
PushFails(b) ==
    /\ Fault /\ b.version = Null
    /\ IF deployment = "objects" /\ b.to
       THEN /\ Dropped
            /\ pushes' = Unaddressed(pushes \ {b})
            /\ lost' = lost
       ELSE /\ pushes' = pushes \ {b}
            /\ lost' = IF deployment # "objects" /\ b.rev = revision[b.pool]
                       THEN lost \cup {b.pool} ELSE lost
            /\ UNCHANGED <<conn, snapshot>>
    /\ UNCHANGED <<deployment, data, changes, noticed, revision, list, lastRevision, moves>>

(* The process of the memory service starts again: its counters start from
   zero, and what it had not pushed is forgotten. *)
Restart ==
    /\ Fault /\ deployment = "memory"
    /\ Dropped
    /\ revision' = [p \in Pools |-> 0] /\ noticed' = revision'
    /\ pushes' = {} /\ lost' = {}
    /\ UNCHANGED <<deployment, data, changes, list, lastRevision, moves>>

-----------------------------------------------------------------------------
(* The live socket, on both sides. *)

(* attach, PoolDirectory.fetch: the client is listed; only Redis is asked for
   the revision over the network. *)
Attach ==
    /\ conn.stage = "opening"
    /\ conn' = IF deployment = "redis" THEN [conn EXCEPT !.stage = "registered"]
               ELSE [conn EXCEPT !.stage = "numbered", !.rev = revision[selected]]
    /\ UNCHANGED <<server, list, snapshot, lastRevision, moves, faults>>

CurrentRevision ==
    /\ conn.stage = "registered"
    /\ conn' = [conn EXCEPT !.stage = "numbered", !.rev = revision[selected]]
    /\ UNCHANGED <<server, list, snapshot, lastRevision, moves, faults>>

ReadFirstPage ==
    /\ conn.stage = "numbered"
    /\ conn' = [conn EXCEPT !.stage = "read", !.version = data[selected]]
    /\ UNCHANGED <<server, list, snapshot, lastRevision, moves, faults>>

ConnectPayload ==
    /\ conn.stage = "read"
    /\ conn' = [NoConn EXCEPT !.stage = "open",
                    !.queue = Append(conn.queue, [rev |-> conn.rev, version |-> conn.version])]
    /\ UNCHANGED <<server, list, snapshot, lastRevision, moves, faults>>

(* The upgrade is refused, the first snapshot fails or the network drops. *)
SocketCloses ==
    /\ Fault /\ conn.stage # "none"
    /\ Dropped
    /\ pushes' = Unaddressed(pushes)
    /\ UNCHANGED <<deployment, data, changes, noticed, revision, lost, list, lastRevision, moves>>

(* Mutant of ConnectLive: the last revision outlives the connection. *)
ConnectLiveKeepsRevision ==
    /\ conn' = [NoConn EXCEPT !.stage = "opening"]
    /\ snapshot' = Null /\ lastRevision' = lastRevision

(* connectLive, which lets go of the socket there is. *)
ConnectLive ==
    /\ conn' = [NoConn EXCEPT !.stage = "opening"]
    /\ snapshot' = Null /\ lastRevision' = -1

(* The reconnect timer or the watchdog. *)
Reconnect ==
    /\ conn.stage = "none"
    /\ ConnectLive
    /\ UNCHANGED <<server, list, moves, faults>>

-----------------------------------------------------------------------------
(* The list of rooms on the board. *)

FirstRows(p, s) == [pool |-> p, cursor |-> Null, version |-> s.version]

(* HTTP pages leave the counts alone while a snapshot keeps them. *)
Counted(p) == snapshot = Null \/ p = 0

(* applyPage: the rows are those of page p. *)
ApplyPage(p, rows) ==
    /\ shown' = rows
    /\ nextCursor' = Following(rows.pool, rows.cursor)
    /\ failed' = FALSE
    /\ summary' = IF Counted(p) THEN rows ELSE summary

(* load *)
Request(p) == load' = [pool |-> selected, cursor |-> cursors'[p], version |-> Null]

(* socket.onmessage: a snapshot older than the last one is dropped; the
   others are rendered when the first page is on screen, and counted. *)
Receive ==
    LET s == Head(conn.queue)
    IN  /\ conn.queue # <<>>
        /\ conn' = [conn EXCEPT !.queue = Tail(@)]
        /\ IF s.rev < lastRevision
           THEN UNCHANGED <<list, snapshot, lastRevision>>
           ELSE /\ lastRevision' = s.rev
                /\ snapshot' = s
                /\ IF page = 0
                   THEN ApplyPage(0, FirstRows(selected, s)) /\ load' = Null
                   ELSE /\ summary' = FirstRows(selected, s)
                        /\ UNCHANGED <<nextCursor, shown, failed, load>>
                /\ UNCHANGED <<selected, page, cursors>>
        /\ UNCHANGED <<server, moves, faults>>

Move == moves < MaxMoves /\ moves' = moves + 1

Refresh ==
    /\ Move
    /\ UNCHANGED cursors /\ Request(page)
    /\ UNCHANGED <<server, live, selected, page, nextCursor, shown, failed, summary, faults>>

(* The button is enabled by nextCursor alone, while a page loads as well. *)
NextPage ==
    /\ Move /\ nextCursor # Null
    /\ page < Pages - 1    \* bound
    /\ page' = page + 1
    /\ cursors' = [cursors EXCEPT ![page + 1] = nextCursor]
    /\ Request(page + 1)
    /\ UNCHANGED <<server, live, selected, nextCursor, shown, failed, summary, faults>>

PreviousPage ==
    /\ Move /\ page > 0
    /\ page' = page - 1
    /\ UNCHANGED <<selected, cursors>>
    /\ IF page = 1 /\ snapshot # Null
       THEN ApplyPage(0, FirstRows(selected, snapshot)) /\ load' = Null
       ELSE /\ Request(page - 1)
            /\ UNCHANGED <<nextCursor, shown, failed, summary>>
    /\ UNCHANGED <<server, live, faults>>

(* Mutant of EmptyPage: the request on its way is left alone. *)
EmptyPageKeepsLoad ==
    /\ page' = 0 /\ cursors' = FirstPageOnly /\ nextCursor' = Null
    /\ shown' = Null /\ failed' = FALSE /\ load' = load

EmptyPage ==
    /\ page' = 0 /\ cursors' = FirstPageOnly /\ nextCursor' = Null
    /\ shown' = Null /\ failed' = FALSE /\ load' = Null

(* switchPool *)
SwitchPool(p) ==
    /\ Move
    /\ selected' = p
    /\ EmptyPage
    /\ summary' = Null
    /\ ConnectLive
    /\ pushes' = Unaddressed(pushes)
    /\ UNCHANGED <<deployment, data, changes, noticed, revision, lost, faults>>

(* roomPage: the server reads the page asked for. *)
ReadPage ==
    /\ load # Null /\ load.version = Null /\ ~InvalidCursor(load.pool, load.cursor)
    /\ load' = [load EXCEPT !.version = data[load.pool]]
    /\ UNCHANGED <<server, live, selected, page, cursors, nextCursor, shown, failed, summary, moves, faults>>

LoadReplies ==
    /\ load # Null /\ load.version # Null
    /\ ApplyPage(page, load)
    /\ load' = Null
    /\ UNCHANGED <<server, live, selected, page, cursors, moves, faults>>

(* The rows of the page before stay where they are. *)
LoadFails ==
    /\ Fault /\ load # Null
    /\ nextCursor' = Null /\ failed' = TRUE /\ summary' = Null /\ load' = Null
    /\ UNCHANGED <<server, live, selected, page, cursors, shown, moves>>

-----------------------------------------------------------------------------
Serve ==
    \/ \E p \in Pools : Announce(p)
    \/ \E b \in pushes : BuildPush(b) \/ DeliverPush(b)
Attend == Attach \/ CurrentRevision \/ ReadFirstPage \/ ConnectPayload \/ Reconnect
Fail ==
    \/ \E p \in Pools : AnnounceFails(p)
    \/ \E b \in pushes : PushFails(b) \/ PublishMissed(b)
    \/ Restart
    \/ SocketCloses
    \/ LoadFails
Click == Refresh \/ NextPage \/ PreviousPage \/ \E p \in Pools : SwitchPool(p)

Next ==
    \/ \E p \in Pools : Change(p) \/ ChangeUntold(p)
    \/ Serve \/ Attend \/ Receive \/ ReadPage \/ LoadReplies
    \/ Fail \/ Click

(* The processes, the timers and the network go on; nobody has to change the
   directory, click, or fail. *)
Fairness ==
    /\ \A p \in Pools : WF_vars(Announce(p))
    /\ WF_vars(\E b \in pushes : BuildPush(b) \/ DeliverPush(b))
    /\ WF_vars(Attend) /\ WF_vars(Receive)
    /\ WF_vars(ReadPage \/ LoadReplies)

Spec == Init /\ [][Next]_vars /\ Fairness

-----------------------------------------------------------------------------
(* Properties. *)

(* What the board shows and asks for belongs together, however changes of pool
   and page, answers and snapshots overtake each other: when no request is on
   its way and none has failed, the rows are of the pool selected and of the
   cursor remembered for the page number; a request carries no cursor of another
   pool, which the server answers with an error; and while there is a snapshot
   the counts of rooms are those of the first page, whatever page is shown. *)
ScreenShowsItsPage ==
    /\ load = Null /\ ~failed /\ shown # Null =>
          shown.pool = selected /\ shown.cursor = cursors[page]
    /\ load # Null => ~InvalidCursor(load.pool, load.cursor)
    /\ snapshot # Null /\ summary # Null =>
          summary.pool = selected /\ summary.cursor = Null

(* Nothing more is coming to the first page of the board. *)
Quiet ==
    /\ conn.stage = "open" /\ conn.queue = <<>>
    /\ noticed[selected] = 0 /\ load = Null
    /\ \A b \in pushes : b.pool # selected

IsCurrent ==
    shown = [pool |-> selected, cursor |-> Null, version |-> data[selected]]

(* When nothing more is coming and the latest change was neither left without
   an announcement nor lost on its way, the first page shows the directory as it
   is: snapshots read, numbered and delivered in any order, and boards that
   connect in the middle, leave none on an old one.  After such a loss nothing
   is claimed until the pool's next change is announced. *)
QuietBoardIsCurrent ==
    Quiet /\ page = 0 /\ selected \notin lost => IsCurrent

(* A board whose reader stops on the first page comes to show the latest
   directory of its pool, through failures of the socket, of requests and of
   the server, unless that change was left without an announcement or lost on
   its way, which nothing makes up for but the next one. *)
BoardCatchesUp == <>[](page = 0 /\ selected \notin lost => IsCurrent)
=============================================================================
