------------------------ MODULE LiveDirectory_proofs ------------------------
(***************************************************************************)
(* What the board shows belongs together: proved for any number of pools,   *)
(* pages, changes, clicks and failures, in all three deployments.           *)
(*                                                                         *)
(* The argument is about the request on its way.  It is always of the pool  *)
(* selected and carries the cursor remembered for the page number, since    *)
(* every move replaces it or drops it; so its answer, which is applied to   *)
(* the page of the moment, fits that page.  Nothing of the server matters   *)
(* but that it numbers its versions.                                       *)
(***************************************************************************)
EXTENDS LiveDirectory, Functions, TLAPS

Cursors == Cursor \cup {Null}
Requests == [pool : Pools, cursor : Cursors, version : Nat \cup {Null}]

BoardType ==
    /\ data \in [Pools -> Nat]
    /\ selected \in Pools /\ page \in 0..(Pages - 1)
    /\ cursors \in [0..(Pages - 1) -> Cursors] /\ nextCursor \in Cursors
    /\ load \in Requests \cup {Null}

OfPool(c) == c # Null => c.pool = selected

(* Every cursor the board keeps is of the pool selected; the first page has
   none. *)
CursorsFit ==
    /\ \A k \in 0..(Pages - 1) : OfPool(cursors[k])
    /\ OfPool(nextCursor)
    /\ cursors[0] = Null

(* Rows, or a request for them, that belong to the page of the moment. *)
OnPage(rows) == rows.pool = selected /\ rows.cursor = cursors[page]

LoadFits == load # Null => OnPage(load)
ShownFits == load = Null /\ ~failed /\ shown # Null => OnPage(shown)
CountsFit == snapshot # Null /\ summary # Null => summary.pool = selected /\ summary.cursor = Null

Inv == BoardType /\ CursorsFit /\ LoadFits /\ ShownFits /\ CountsFit

-----------------------------------------------------------------------------
LEMMA FirstCursor == 0 \in 0..(Pages - 1) /\ FirstPageOnly \in [0..(Pages - 1) -> Cursors]
                     /\ \A k \in 0..(Pages - 1) : FirstPageOnly[k] = Null
  BY DirectoryAssumption DEF FirstPageOnly, Cursors

LEMMA InitFits == Init => Inv
<1> SUFFICES ASSUME Init PROVE Inv
  OBVIOUS
<1>1. BoardType
  BY DirectoryAssumption, FirstCursor DEF Init, BoardType, Cursors
<1>2. CursorsFit
  BY FirstCursor DEF Init, CursorsFit, OfPool
<1> QED
  BY <1>1, <1>2 DEF Init, Inv, LoadFits, ShownFits, CountsFit

(* The cursor of the page that follows. *)
LEMMA FollowingFits ==
  ASSUME NEW p \in Pools, NEW c \in Cursors
  PROVE  Following(p, c) \in Cursors /\ (Following(p, c) # Null => Following(p, c).pool = p)
<1>1. CASE c = Null
  BY <1>1, DirectoryAssumption DEF Following, Cursors, Cursor
<1>2. CASE c # Null
  <2>1. c \in Cursor
    BY <1>2 DEF Cursors
  <2>2. c.at \in 1..(Pages - 1)
    BY <2>1 DEF Cursor
  <2> QED
    BY <1>2, <2>2, DirectoryAssumption DEF Following, Cursors, Cursor
<1> QED
  BY <1>1, <1>2

(* A step that leaves the list alone, and the counts of rooms fitting. *)
LEMMA ListUntouched ==
  ASSUME Inv, UNCHANGED list, data' \in [Pools -> Nat], snapshot' \in {snapshot, Null}
  PROVE  Inv'
<1> USE DEF list
<1>1. BoardType'
  BY DEF Inv, BoardType
<1>2. CursorsFit' /\ LoadFits' /\ ShownFits'
  BY DEF Inv, CursorsFit, OfPool, LoadFits, ShownFits, OnPage
<1>3. CountsFit'
  BY DEF Inv, CountsFit
<1> QED
  BY <1>1, <1>2, <1>3 DEF Inv

(* ApplyPage with rows of the page of the moment, which leaves no request. *)
LEMMA AppliedFits ==
  ASSUME Inv, NEW rows,
         rows.pool = selected, rows.cursor \in Cursors, page' \in 0..(Pages - 1),
         rows.cursor = cursors[page'], ApplyPage(page', rows), load' = Null,
         data' = data, selected' = selected, cursors' = cursors,
         page' = 0 \/ snapshot' = snapshot
  PROVE  Inv'
<1>1. nextCursor' \in Cursors /\ (nextCursor' # Null => nextCursor'.pool = selected)
  BY FollowingFits DEF ApplyPage, Inv, BoardType
<1>2. BoardType'
  BY <1>1 DEF Inv, BoardType
<1>3. CursorsFit'
  BY <1>1 DEF Inv, CursorsFit, OfPool
<1>4. ShownFits' /\ LoadFits'
  BY DEF ShownFits, LoadFits, OnPage, ApplyPage
<1>5. CountsFit'
  BY DEF CountsFit, Inv, ApplyPage, Counted, CursorsFit
<1> QED
  BY <1>2, <1>3, <1>4, <1>5 DEF Inv

(* A request for the page that becomes the page of the moment. *)
LEMMA RequestedFits ==
  ASSUME Inv, page' \in 0..(Pages - 1), Request(page'),
         cursors' \in [0..(Pages - 1) -> Cursors], CursorsFit',
         UNCHANGED <<data, selected, nextCursor, snapshot, summary>>
  PROVE  Inv'
<1>1. load' \in Requests /\ load' # Null /\ OnPage(load)'
  BY DirectoryAssumption DEF Request, Requests, Inv, BoardType, OnPage, Cursors
<1>2. BoardType'
  BY <1>1 DEF Inv, BoardType
<1>3. LoadFits' /\ ShownFits'
  BY <1>1 DEF LoadFits, ShownFits
<1>4. CountsFit'
  BY DEF CountsFit, Inv
<1> QED
  BY <1>2, <1>3, <1>4 DEF Inv

-----------------------------------------------------------------------------
LEMMA ReceiveKeeps == Inv /\ Receive => Inv'
<1> SUFFICES ASSUME Inv, Receive PROVE Inv'
  OBVIOUS
<1> DEFINE s == Head(conn.queue)
<1>0. UNCHANGED server
  BY DEF Receive
<1>1. data' = data /\ data \in [Pools -> Nat]
  BY <1>0 DEF server, Inv, BoardType
<1>2. CASE s.rev < lastRevision
  <2>1. UNCHANGED <<list, snapshot>>
    BY <1>2 DEF Receive
  <2> QED
    BY <2>1, <1>1, ListUntouched
<1>3. CASE ~(s.rev < lastRevision) /\ page = 0
  <2>1. /\ ApplyPage(0, FirstRows(selected, s)) /\ load' = Null
        /\ UNCHANGED <<selected, page, cursors>>
    BY <1>3 DEF Receive
  <2>2. page' = 0 /\ 0 \in 0..(Pages - 1) /\ cursors[0] = Null
    BY <2>1, <1>3, FirstCursor DEF Inv, CursorsFit
  <2>3. /\ FirstRows(selected, s).pool = selected
        /\ FirstRows(selected, s).cursor = Null
    BY DEF FirstRows
  <2> QED
    BY <1>1, <2>1, <2>2, <2>3, AppliedFits DEF Cursors
<1>4. CASE ~(s.rev < lastRevision) /\ page # 0
  <2>1. /\ summary' = FirstRows(selected, s)
        /\ UNCHANGED <<nextCursor, shown, failed, load, selected, page, cursors>>
    BY <1>4 DEF Receive
  <2>2. CountsFit'
    BY <2>1 DEF CountsFit, FirstRows
  <2>3. BoardType' /\ CursorsFit' /\ LoadFits' /\ ShownFits'
    BY <1>1, <2>1 DEF Inv, BoardType, CursorsFit, OfPool, LoadFits, ShownFits, OnPage
  <2> QED
    BY <2>2, <2>3 DEF Inv
<1> QED
  BY <1>2, <1>3, <1>4

LEMMA RefreshKeeps == Inv /\ Refresh => Inv'
<1> SUFFICES ASSUME Inv, Refresh PROVE Inv'
  OBVIOUS
<1>1. /\ Request(page) /\ UNCHANGED <<data, cursors, selected, page, nextCursor, snapshot, summary>>
  BY DEF Refresh, server, live
<1>2. CursorsFit'
  BY <1>1 DEF Inv, CursorsFit, OfPool
<1> QED
  BY <1>1, <1>2, RequestedFits DEF Inv, BoardType

LEMMA NextPageKeeps == Inv /\ NextPage => Inv'
<1> SUFFICES ASSUME Inv, NextPage PROVE Inv'
  OBVIOUS
<1>1. /\ page' = page + 1 /\ page < Pages - 1 /\ Request(page + 1)
      /\ cursors' = [cursors EXCEPT ![page + 1] = nextCursor]
      /\ UNCHANGED <<data, selected, nextCursor, snapshot, summary>>
  BY DEF NextPage, server, live
<1>2. page + 1 \in 0..(Pages - 1) /\ page + 1 # 0
  BY <1>1, DirectoryAssumption DEF Inv, BoardType
<1>3. cursors' \in [0..(Pages - 1) -> Cursors]
  BY <1>1, <1>2 DEF Inv, BoardType
<1>4. cursors'[0] = Null
  BY <1>1, <1>2, FirstCursor DEF Inv, BoardType, CursorsFit
<1>5. \A k \in 0..(Pages - 1) : OfPool(cursors[k])'
  BY <1>1, <1>2 DEF Inv, BoardType, CursorsFit, OfPool
<1>6. CursorsFit'
  BY <1>1, <1>4, <1>5 DEF Inv, CursorsFit, OfPool
<1> QED
  BY <1>1, <1>2, <1>3, <1>6, RequestedFits

LEMMA PreviousPageKeeps == Inv /\ PreviousPage => Inv'
<1> SUFFICES ASSUME Inv, PreviousPage PROVE Inv'
  OBVIOUS
<1>1. /\ page > 0 /\ page' = page - 1
      /\ UNCHANGED <<data, selected, cursors, snapshot>>
  BY DEF PreviousPage, server, live
<1>2. page' \in 0..(Pages - 1)
  BY <1>1, DirectoryAssumption DEF Inv, BoardType
<1>3. CASE page = 1 /\ snapshot # Null
  <2>1. ApplyPage(0, FirstRows(selected, snapshot)) /\ load' = Null
    BY <1>3 DEF PreviousPage
  <2>2. page' = 0 /\ cursors[0] = Null
    BY <1>1, <1>3 DEF Inv, CursorsFit
  <2>3. /\ FirstRows(selected, snapshot).pool = selected
        /\ FirstRows(selected, snapshot).cursor = Null
    BY DEF FirstRows
  <2> QED
    BY <1>1, <1>2, <2>1, <2>2, <2>3, AppliedFits DEF Cursors
<1>4. CASE ~(page = 1 /\ snapshot # Null)
  <2>1. Request(page - 1) /\ UNCHANGED <<nextCursor, summary>>
    BY <1>4 DEF PreviousPage
  <2>2. CursorsFit'
    BY <1>1, <2>1 DEF Inv, CursorsFit, OfPool
  <2> QED
    BY <1>1, <1>2, <2>1, <2>2, RequestedFits DEF Inv, BoardType
<1> QED
  BY <1>3, <1>4

LEMMA SwitchPoolKeeps == ASSUME NEW p \in Pools PROVE Inv /\ SwitchPool(p) => Inv'
<1> SUFFICES ASSUME Inv, SwitchPool(p) PROVE Inv'
  OBVIOUS
<1>1. /\ selected' = p /\ page' = 0 /\ cursors' = FirstPageOnly /\ nextCursor' = Null
      /\ shown' = Null /\ load' = Null /\ summary' = Null /\ data' = data
  BY DEF SwitchPool, EmptyPage
<1>2. BoardType'
  BY <1>1, FirstCursor DEF Inv, BoardType, Cursors
<1>3. CursorsFit'
  BY <1>1, FirstCursor DEF CursorsFit, OfPool
<1> QED
  BY <1>1, <1>2, <1>3 DEF Inv, LoadFits, ShownFits, CountsFit

LEMMA ReadPageKeeps == Inv /\ ReadPage => Inv'
<1> SUFFICES ASSUME Inv, ReadPage PROVE Inv'
  OBVIOUS
<1>1. /\ load # Null /\ load' = [load EXCEPT !.version = data[load.pool]]
      /\ UNCHANGED <<data, selected, page, cursors, nextCursor, shown, failed, summary, snapshot>>
  BY DEF ReadPage, server, live
<1>2. load \in Requests /\ data[load.pool] \in Nat
  BY <1>1 DEF Inv, BoardType, Requests
<1>3. /\ load' \in Requests /\ load' # Null
      /\ load'.pool = load.pool /\ load'.cursor = load.cursor
  BY <1>1, <1>2, DirectoryAssumption DEF Requests, Cursors
<1>4. BoardType'
  BY <1>1, <1>3 DEF Inv, BoardType
<1>5. CursorsFit' /\ CountsFit'
  BY <1>1 DEF Inv, CursorsFit, OfPool, CountsFit
<1>6. LoadFits' /\ ShownFits'
  BY <1>1, <1>3 DEF Inv, LoadFits, ShownFits, OnPage
<1> QED
  BY <1>4, <1>5, <1>6 DEF Inv

LEMMA LoadRepliesKeeps == Inv /\ LoadReplies => Inv'
<1> SUFFICES ASSUME Inv, LoadReplies PROVE Inv'
  OBVIOUS
<1>1. /\ load # Null /\ ApplyPage(page, load) /\ load' = Null
      /\ UNCHANGED <<data, selected, page, cursors, snapshot>>
  BY DEF LoadReplies, server, live
<1>2. /\ load.pool = selected /\ load.cursor = cursors[page] /\ load.cursor \in Cursors
      /\ page \in 0..(Pages - 1)
  BY <1>1 DEF Inv, LoadFits, OnPage, BoardType, Requests
<1> QED
  BY <1>1, <1>2, AppliedFits

LEMMA LoadFailsKeeps == Inv /\ LoadFails => Inv'
<1> SUFFICES ASSUME Inv, LoadFails PROVE Inv'
  OBVIOUS
<1>1. /\ nextCursor' = Null /\ failed' = TRUE /\ summary' = Null /\ load' = Null
      /\ UNCHANGED <<data, selected, page, cursors>>
  BY DEF LoadFails, server
<1>2. BoardType'
  BY <1>1 DEF Inv, BoardType, Cursors
<1>3. CursorsFit'
  BY <1>1 DEF Inv, CursorsFit, OfPool
<1> QED
  BY <1>1, <1>2, <1>3 DEF Inv, LoadFits, ShownFits, CountsFit

(* The steps of the server and of the socket, which leave the list alone. *)
LEMMA OthersKeep ==
  ASSUME Inv, (\E p \in Pools : Change(p) \/ ChangeUntold(p)) \/ Serve \/ Attend \/ Restart \/ SocketCloses
              \/ (\E p \in Pools : AnnounceFails(p)) \/ (\E b \in pushes : PushFails(b) \/ PublishMissed(b))
  PROVE  Inv'
<1>0. data \in [Pools -> Nat]
  BY DEF Inv, BoardType
<1>1. ASSUME NEW p \in Pools, Change(p) \/ ChangeUntold(p) PROVE Inv'
  <2>1. data' = [data EXCEPT ![p] = @ + 1]
    BY <1>1 DEF Change, ChangeUntold, Written
  <2>2. data' \in [Pools -> Nat]
    BY <1>0, <2>1
  <2>3. UNCHANGED <<list, snapshot>>
    BY <1>1 DEF Change, ChangeUntold, live
  <2> QED
    BY <2>2, <2>3, ListUntouched
<1>2. CASE Serve
  <2>1. UNCHANGED <<data, list, snapshot>>
    BY <1>2 DEF Serve, Announce, BuildPush, DeliverPush, live
  <2> QED
    BY <1>0, <2>1, ListUntouched
<1>3. CASE Attend
  <2>1. UNCHANGED <<data, list>> /\ snapshot' \in {snapshot, Null}
    BY <1>3 DEF Attend, Attach, CurrentRevision, ReadFirstPage, ConnectPayload, Reconnect,
                ConnectLive, server
  <2> QED
    BY <1>0, <2>1, ListUntouched
<1>4. CASE Restart \/ SocketCloses
  <2>1. UNCHANGED <<data, list>> /\ snapshot' = Null
    BY <1>4 DEF Restart, SocketCloses, Dropped
  <2> QED
    BY <1>0, <2>1, ListUntouched
<1>5. ASSUME NEW p \in Pools, AnnounceFails(p) PROVE Inv'
  <2>1. UNCHANGED <<data, list, snapshot>>
    BY <1>5 DEF AnnounceFails, live
  <2> QED
    BY <1>0, <2>1, ListUntouched
<1>6. ASSUME NEW b \in pushes, PushFails(b) \/ PublishMissed(b) PROVE Inv'
  <2>1. UNCHANGED <<data, list>> /\ snapshot' \in {snapshot, Null}
    BY <1>6 DEF PushFails, PublishMissed, Dropped, live
  <2> QED
    BY <1>0, <2>1, ListUntouched
<1> QED
  BY <1>1, <1>2, <1>3, <1>4, <1>5, <1>6

LEMMA NextKeeps == Inv /\ [Next]_vars => Inv'
<1> SUFFICES ASSUME Inv, [Next]_vars PROVE Inv'
  OBVIOUS
<1>1. CASE UNCHANGED vars
  <2>1. UNCHANGED <<data, list, snapshot>>
    BY <1>1 DEF vars, server, live
  <2> QED
    BY <2>1, ListUntouched DEF Inv, BoardType
<1>2. CASE (\E p \in Pools : Change(p) \/ ChangeUntold(p)) \/ Serve \/ Attend
  BY <1>2, OthersKeep
<1>3. CASE Receive \/ ReadPage \/ LoadReplies
  BY <1>3, ReceiveKeeps, ReadPageKeeps, LoadRepliesKeeps
<1>4. CASE Fail
  BY <1>4, OthersKeep, LoadFailsKeeps DEF Fail
<1>5. CASE Click
  BY <1>5, RefreshKeeps, NextPageKeeps, PreviousPageKeeps, SwitchPoolKeeps DEF Click
<1> QED
  BY <1>1, <1>2, <1>3, <1>4, <1>5 DEF Next

(* The rows on screen are of the pool selected and of the cursor remembered for
   the page number whenever no request is on its way and none has failed, no
   request carries the cursor of another pool, and the counts are of the first
   page while there is a snapshot: render, load and applyPage keep them together. *)
THEOREM ScreenIsConsistent == Spec => []ScreenShowsItsPage
<1>1. Inv => ScreenShowsItsPage
  <2> SUFFICES ASSUME Inv PROVE ScreenShowsItsPage
    OBVIOUS
  <2>1. load # Null => ~InvalidCursor(load.pool, load.cursor)
    BY DEF Inv, LoadFits, OnPage, CursorsFit, OfPool, InvalidCursor, BoardType
  <2> QED
    BY <2>1 DEF ScreenShowsItsPage, Inv, ShownFits, OnPage, CountsFit
<1> QED
  BY <1>1, InitFits, NextKeeps, PTL DEF Spec

-----------------------------------------------------------------------------
(* The second argument is about numbers.  A snapshot that bears the last number
   of its pool was read after the last announced change; and while nothing is
   unannounced or lost, a listed board has that number, or it is on its way:
   the board was listed before it asked for the number of its own snapshot, so
   it cannot miss a push in between. *)

Snaps == [rev : Nat, version : Nat]
Pushes == [pool : Pools, rev : Nat, version : Nat \cup {Null}, to : BOOLEAN]
Stages == {"none", "opening", "registered", "numbered", "read", "open"}
Queued == Range(conn.queue)

ServerType ==
    /\ noticed \in [Pools -> Nat] /\ revision \in [Pools -> Nat]
    /\ pushes \subseteq Pushes
    /\ conn \in [stage : Stages, rev : Nat \cup {Null}, version : Nat \cup {Null}, queue : Seq(Snaps)]
    /\ snapshot \in Snaps \cup {Null} /\ lastRevision \in Int

(* Nothing carries a number the pool has not given.  A board without a socket
   waits for nothing; one with a socket remembers the number of its snapshot. *)
Bounded ==
    /\ \A b \in pushes : b.rev <= revision[b.pool]
    /\ \A s \in Queued : s.rev <= revision[selected]
    /\ snapshot # Null => snapshot.rev <= revision[selected] /\ snapshot.rev = lastRevision
    /\ snapshot = Null /\ conn.stage # "none" => lastRevision = -1
    /\ conn.stage \in {"none", "opening"} => conn.queue = <<>> /\ snapshot = Null
    /\ conn.stage \in {"numbered", "read"} => conn.rev \in Nat /\ conn.rev <= revision[selected]
    /\ conn.stage = "read" => conn.version \in Nat

(* A push sent to the board is of its pool, and the board is there. *)
Addressed ==
    \A b \in pushes : b.to => b.pool = selected /\ Registered /\ deployment = "objects"

(* The last change was announced, and its announcement was not lost. *)
Settled(p) == noticed[p] = 0 /\ p \notin lost
Last(p, r, v) == r = revision[p] => v = data[p]

(* Once all is announced, what was read under the last number is the directory
   as it is: a change after the reading would have raised the number. *)
Fresh ==
    /\ \A b \in pushes : Settled(b.pool) /\ b.version # Null => Last(b.pool, b.rev, b.version)
    /\ Settled(selected) =>
          /\ \A s \in Queued : Last(selected, s.rev, s.version)
          /\ snapshot # Null => Last(selected, snapshot.rev, snapshot.version)
          /\ conn.stage = "read" => Last(selected, conn.rev, conn.version)

(* The push of the last number of the board's pool. *)
Newest(b) ==
    b.pool = selected /\ b.rev = revision[selected] /\ (deployment = "objects" => b.to)

(* The last number is on the way to a listed board, or has arrived. *)
Coming ==
    \/ conn.stage = "registered"
    \/ conn.stage \in {"numbered", "read"} /\ conn.rev = revision[selected]
    \/ \E b \in pushes : Newest(b)
    \/ \E s \in Queued : s.rev = revision[selected]
    \/ snapshot # Null /\ snapshot.rev = revision[selected]

Reaching == Settled(selected) /\ Registered => Coming

(* The first page shows the last snapshot or what was read since. *)
Rendered ==
    Settled(selected) /\ page = 0 /\ snapshot # Null /\ snapshot.rev = revision[selected] =>
        /\ IsCurrent
        /\ load # Null /\ load.version # Null => load.version = data[selected]

LiveInv == ServerType /\ Bounded /\ Addressed /\ Fresh /\ Reaching /\ Rendered

LEMMA AppendRange ==
  ASSUME NEW S, NEW q \in Seq(S), NEW e \in S
  PROVE  Append(q, e) \in Seq(S) /\ Range(Append(q, e)) = Range(q) \cup {e}
<1>1. Append(q, e) \in Seq(S) /\ DOMAIN Append(q, e) = DOMAIN q \cup {Len(q) + 1}
  OBVIOUS
<1>2. \A i \in DOMAIN q : Append(q, e)[i] = q[i]
  OBVIOUS
<1>3. Append(q, e)[Len(q) + 1] = e
  OBVIOUS
<1> QED
  BY <1>1, <1>2, <1>3 DEF Range

LEMMA HeadTailRange ==
  ASSUME NEW S, NEW q \in Seq(S), q # <<>>
  PROVE  /\ Head(q) \in S /\ Tail(q) \in Seq(S)
         /\ Head(q) \in Range(q) /\ Range(Tail(q)) \subseteq Range(q)
         /\ Range(q) \subseteq {Head(q)} \cup Range(Tail(q))
<1>1. Head(q) \in S /\ Tail(q) \in Seq(S) /\ Head(q) = q[1] /\ 1 \in DOMAIN q
  OBVIOUS
<1>2. Head(q) \in Range(q)
  BY <1>1 DEF Range
<1>3. \A i \in DOMAIN Tail(q) : i + 1 \in DOMAIN q /\ Tail(q)[i] = q[i + 1]
  OBVIOUS
<1>4. \A i \in DOMAIN q : i = 1 \/ (i - 1 \in DOMAIN Tail(q) /\ q[i] = Tail(q)[i - 1])
  OBVIOUS
<1>5. Range(Tail(q)) \subseteq Range(q)
  BY <1>3 DEF Range
<1>6. Range(q) \subseteq {Head(q)} \cup Range(Tail(q))
  BY <1>1, <1>4 DEF Range
<1> QED
  BY <1>1, <1>2, <1>5, <1>6

LEMMA EmptyRange == Range(<<>>) = {}
  BY DEF Range

LEMMA QueueType == LiveInv => conn.queue \in Seq(Snaps) /\ Queued \subseteq Snaps
<1> SUFFICES ASSUME LiveInv PROVE conn.queue \in Seq(Snaps) /\ Queued \subseteq Snaps
  OBVIOUS
<1>1. conn.queue \in Seq(Snaps)
  BY DEF LiveInv, ServerType
<1> QED
  BY <1>1 DEF Queued, Range

(* A board without a socket, or with one just asked for. *)
Detached == conn.stage \in {"none", "opening"} /\ conn.queue = <<>> /\ snapshot = Null

LEMMA DetachedFits ==
  ASSUME Detached, \A b \in pushes : ~b.to /\ b.rev <= revision[b.pool],
         conn.stage = "opening" => lastRevision = -1,
         \A b \in pushes : Settled(b.pool) /\ b.version # Null => Last(b.pool, b.rev, b.version)
  PROVE  Bounded /\ Addressed /\ Fresh /\ Reaching /\ Rendered
<1>1. Queued = {}
  BY EmptyRange DEF Detached, Queued
<1> QED
  BY <1>1 DEF Detached, Bounded, Addressed, Fresh, Reaching, Rendered, Registered

LEMMA NoConnType ==
  /\ NoConn \in [stage : Stages, rev : Nat \cup {Null}, version : Nat \cup {Null}, queue : Seq(Snaps)]
  /\ NoConn.stage = "none" /\ NoConn.queue = <<>>
  /\ LET c == [NoConn EXCEPT !.stage = "opening"]
     IN  /\ c \in [stage : Stages, rev : Nat \cup {Null}, version : Nat \cup {Null}, queue : Seq(Snaps)]
         /\ c.stage = "opening" /\ c.queue = <<>>
<1>1. <<>> \in Seq(Snaps)
  OBVIOUS
<1> QED
  BY <1>1 DEF NoConn, Stages

LEMMA LiveInit == Init => LiveInv
<1> SUFFICES ASSUME Init PROVE LiveInv
  OBVIOUS
<1>1. ServerType
  BY NoConnType DEF Init, ServerType
<1>2. Detached
  BY NoConnType DEF Init, Detached
<1> QED
  BY <1>1, <1>2, DetachedFits, NoConnType DEF Init, LiveInv

-----------------------------------------------------------------------------
(* The reader's moves and requests: the server and the socket stay. *)
LEMMA ListSteps ==
  ASSUME LiveInv, UNCHANGED <<server, live, selected>>, Rendered'
  PROVE  LiveInv'
<1> USE DEF server, live
<1>1. ServerType' /\ Bounded' /\ Addressed'
  BY DEF LiveInv, ServerType, Bounded, Addressed, Queued, Registered
<1>2. Fresh' /\ Reaching'
  BY DEF LiveInv, Fresh, Reaching, Coming, Newest, Settled, Last, Queued, Registered
<1> QED
  BY <1>1, <1>2 DEF LiveInv

LEMMA ClickKeepsLive ==
  ASSUME Inv, LiveInv, Refresh \/ NextPage \/ PreviousPage
  PROVE  LiveInv'
<1>1. UNCHANGED <<server, live, selected>>
  BY DEF Refresh, NextPage, PreviousPage
<1>2. CASE Refresh
  <2>1. page' = page /\ shown' = shown /\ load'.version = Null
    BY <1>2 DEF Refresh, Request
  <2>2. Rendered'
    BY <1>1, <2>1 DEF LiveInv, Rendered, Settled, IsCurrent, server, live
  <2> QED
    BY <1>1, <2>2, ListSteps
<1>3. CASE NextPage
  <2>1. page' # 0
    BY <1>3 DEF NextPage, Inv, BoardType
  <2>2. Rendered'
    BY <2>1 DEF Rendered
  <2> QED
    BY <1>1, <2>2, ListSteps
<1>4. CASE PreviousPage /\ page' = 0 /\ snapshot # Null
  <2>1. page = 1
    BY <1>4 DEF PreviousPage, Inv, BoardType
  <2>2. shown' = FirstRows(selected, snapshot) /\ load' = Null
    BY <1>4, <2>1 DEF PreviousPage, ApplyPage
  <2>3. Settled(selected) /\ snapshot.rev = revision[selected] => snapshot.version = data[selected]
    BY <1>4 DEF LiveInv, Fresh, Last
  <2>4. Rendered'
    BY <1>1, <2>2, <2>3 DEF Rendered, Settled, IsCurrent, FirstRows, server, live
  <2> QED
    BY <1>1, <2>4, ListSteps
<1>5. CASE PreviousPage /\ ~(page' = 0 /\ snapshot # Null)
  <2>1. Rendered'
    BY <1>1, <1>5 DEF Rendered, live
  <2> QED
    BY <1>1, <2>1, ListSteps
<1> QED
  BY <1>2, <1>3, <1>4, <1>5

LEMMA RequestKeepsLive ==
  ASSUME Inv, LiveInv, ReadPage \/ LoadReplies \/ LoadFails
  PROVE  LiveInv'
<1>1. UNCHANGED <<server, live, selected>> /\ page' = page /\ load # Null
  BY DEF ReadPage, LoadReplies, LoadFails
<1>2. /\ load \in Requests /\ load.pool = selected
      /\ page = 0 => load.cursor = Null
  BY <1>1 DEF Inv, BoardType, LoadFits, OnPage, CursorsFit
<1>3. CASE ReadPage
  <2>1. load'.version = data[selected] /\ shown' = shown
    BY <1>2, <1>3 DEF ReadPage, Requests
  <2>2. Rendered'
    BY <1>1, <2>1 DEF LiveInv, Rendered, Settled, IsCurrent, server, live
  <2> QED
    BY <1>1, <2>2, ListSteps
<1>4. CASE LoadReplies
  <2>1. shown' = load /\ load' = Null /\ load.version # Null
    BY <1>4 DEF LoadReplies, ApplyPage
  <2>2. load = [pool |-> load.pool, cursor |-> load.cursor, version |-> load.version]
    BY <1>2 DEF Requests
  <2>3. Rendered'
    BY <1>1, <1>2, <2>1, <2>2 DEF LiveInv, Rendered, Settled, IsCurrent, server, live
  <2> QED
    BY <1>1, <2>3, ListSteps
<1>5. CASE LoadFails
  <2>1. shown' = shown /\ load' = Null
    BY <1>5 DEF LoadFails
  <2>2. Rendered'
    BY <1>1, <2>1 DEF LiveInv, Rendered, Settled, IsCurrent, server, live
  <2> QED
    BY <1>1, <2>2, ListSteps
<1> QED
  BY <1>3, <1>4, <1>5

-----------------------------------------------------------------------------
(* The server's steps: the board sees none of them but a delivery. *)
LEMMA ChangeKeepsLive ==
  ASSUME Inv, LiveInv, NEW p \in Pools, Change(p)
  PROVE  LiveInv'
<1>1. /\ noticed' = [noticed EXCEPT ![p] = @ + 1]
      /\ data' = [data EXCEPT ![p] = @ + 1]
      /\ UNCHANGED <<deployment, revision, pushes, lost, list, live>>
  BY DEF Change, Written
<1>2. noticed' \in [Pools -> Nat] /\ noticed'[p] # 0
  BY <1>1 DEF LiveInv, ServerType
<1>3. \A q \in Pools : q # p => noticed'[q] = noticed[q] /\ data'[q] = data[q]
  BY <1>1 DEF LiveInv, ServerType, Inv, BoardType
<1>4. selected \in Pools /\ (\A b \in pushes : b.pool \in Pools)
  BY DEF Inv, BoardType, LiveInv, ServerType, Pushes
<1>5. \A q \in Pools : Settled(q)' => Settled(q) /\ data'[q] = data[q]
  BY <1>1, <1>2, <1>3 DEF Settled
<1> USE DEF list, live
<1>6. ServerType' /\ Bounded' /\ Addressed'
  BY <1>1, <1>2 DEF LiveInv, ServerType, Bounded, Addressed, Queued, Registered
<1>7. Fresh'
  BY <1>1, <1>4, <1>5 DEF LiveInv, Fresh, Last, Queued
<1>8. Reaching'
  BY <1>1, <1>4, <1>5 DEF LiveInv, Reaching, Coming, Newest, Registered, Queued
<1>9. Rendered'
  BY <1>1, <1>4, <1>5 DEF LiveInv, Rendered, IsCurrent
<1> QED
  BY <1>6, <1>7, <1>8, <1>9 DEF LiveInv

LEMMA ChangeUntoldKeepsLive ==
  ASSUME Inv, LiveInv, NEW p \in Pools, ChangeUntold(p)
  PROVE  LiveInv'
<1>1. /\ data' = [data EXCEPT ![p] = @ + 1] /\ lost' = lost \cup {p}
      /\ UNCHANGED <<deployment, noticed, revision, pushes, list, live>>
  BY DEF ChangeUntold, Written
<1>2. \A q \in Pools : q # p => data'[q] = data[q]
  BY <1>1 DEF Inv, BoardType
<1>3. selected \in Pools /\ (\A b \in pushes : b.pool \in Pools)
  BY DEF Inv, BoardType, LiveInv, ServerType, Pushes
<1>4. \A q \in Pools : Settled(q)' => Settled(q) /\ data'[q] = data[q]
  BY <1>1, <1>2 DEF Settled
<1> USE DEF list, live
<1>5. ServerType' /\ Bounded' /\ Addressed'
  BY <1>1 DEF LiveInv, ServerType, Bounded, Addressed, Queued, Registered
<1>6. Fresh'
  BY <1>1, <1>3, <1>4 DEF LiveInv, Fresh, Last, Queued
<1>7. Reaching'
  BY <1>1, <1>3, <1>4 DEF LiveInv, Reaching, Coming, Newest, Registered, Queued
<1>8. Rendered'
  BY <1>1, <1>3, <1>4 DEF LiveInv, Rendered, IsCurrent
<1> QED
  BY <1>5, <1>6, <1>7, <1>8 DEF LiveInv

LEMMA AnnounceKeepsLive ==
  ASSUME Inv, LiveInv, NEW p \in Pools, Announce(p)
  PROVE  LiveInv'
<1> DEFINE n == [pool |-> p, rev |-> revision[p] + 1, version |-> Null, to |-> deployment = "objects"]
           at == Registered /\ selected = p
<1>1. /\ noticed[p] > 0 /\ noticed' = [noticed EXCEPT ![p] = @ - 1]
      /\ revision' = [revision EXCEPT ![p] = @ + 1]
      /\ pushes' = IF deployment = "objects" /\ ~at THEN pushes ELSE pushes \cup {n}
      /\ lost' = lost \ {p}
      /\ UNCHANGED <<deployment, data, list, live>>
  BY DEF Announce, Announced, LiveInv, ServerType
<1>2. noticed' \in [Pools -> Nat] /\ revision' \in [Pools -> Nat] /\ revision'[p] = revision[p] + 1
  BY <1>1 DEF LiveInv, ServerType
<1>3. n \in Pushes
  BY DEF LiveInv, ServerType, Pushes
<1>4. selected \in Pools /\ (\A b \in pushes : b \in Pushes)
  BY DEF Inv, BoardType, LiveInv, ServerType
<1>5. \A q \in Pools \ {p} : /\ revision'[q] = revision[q]
                             /\ Settled(q)' => Settled(q)
  BY <1>1 DEF LiveInv, ServerType, Settled
<1>6. \A b \in pushes' : b \in pushes \/ (b = n /\ ~(deployment = "objects" /\ ~at))
  BY <1>1
<1>7. \A b \in pushes : b.pool = p => b.rev < revision'[p]
  BY <1>2, <1>4 DEF LiveInv, Bounded, Pushes, ServerType
<1>8. \A b \in pushes : b.pool # p => b.rev <= revision'[b.pool]
  BY <1>4, <1>5 DEF LiveInv, Bounded, Pushes
<1> USE DEF list, live
<1>9. ServerType'
  <2>1. pushes' \subseteq Pushes
    BY <1>1, <1>3 DEF LiveInv, ServerType
  <2> QED
    BY <1>1, <1>2, <2>1 DEF LiveInv, ServerType
<1>10. /\ revision[selected] <= revision'[selected]
       /\ revision[selected] \in Nat /\ revision'[selected] \in Nat
       /\ selected = p => revision'[selected] = revision[selected] + 1
  BY <1>1, <1>2, <1>4 DEF LiveInv, ServerType
<1>11. Queued' = Queued /\ Queued \subseteq Snaps /\ (snapshot # Null => snapshot.rev \in Nat)
  BY <1>1, QueueType DEF Queued, LiveInv, ServerType, Snaps
<1>12. Bounded'
  <2>1. \A b \in pushes' : b.rev <= revision'[b.pool]
    BY <1>2, <1>4, <1>6, <1>7, <1>8 DEF Pushes
  <2>2. \A s \in Queued' : s.rev <= revision'[selected]
    BY <1>10, <1>11 DEF LiveInv, Bounded, Snaps
  <2> QED
    BY <1>1, <1>10, <1>11, <2>1, <2>2 DEF LiveInv, Bounded
<1>13. Addressed'
  <2> SUFFICES ASSUME NEW b \in pushes', b.to
               PROVE  (b.pool = selected /\ Registered /\ deployment = "objects")'
    BY DEF Addressed
  <2>1. UNCHANGED <<selected, conn, deployment>>
    BY <1>1
  <2>2. CASE b \in pushes
    BY <2>1, <2>2 DEF LiveInv, Addressed, Registered
  <2>3. CASE b = n /\ ~(deployment = "objects" /\ ~at)
    <3>1. b.pool = p /\ deployment = "objects"
      BY <2>3
    <3>2. at
      BY <2>3, <3>1
    <3> QED
      BY <2>1, <3>1, <3>2 DEF Registered
  <2> QED
    BY <1>6, <2>2, <2>3
<1>14. Fresh'
  <2>1. \A b \in pushes' : Settled(b.pool)' /\ b.version # Null => Last(b.pool, b.rev, b.version)'
    <3> SUFFICES ASSUME NEW b \in pushes', Settled(b.pool)', b.version # Null
                 PROVE  Last(b.pool, b.rev, b.version)'
      OBVIOUS
    <3>1. b \in pushes /\ b.pool \in Pools /\ b.rev \in Nat
      BY <1>4, <1>6 DEF Pushes
    <3>2. CASE b.pool = p
      BY <1>7, <1>2, <3>1, <3>2 DEF Last, LiveInv, ServerType
    <3>3. CASE b.pool # p
      BY <1>1, <1>5, <3>1, <3>3 DEF Last, LiveInv, Fresh
    <3> QED
      BY <3>2, <3>3
  <2>2. CASE selected = p
    <3>1. \A s \in Queued : s.rev # revision'[selected]
      BY <1>10, <1>11, <2>2 DEF LiveInv, Bounded, Snaps
    <3>2. snapshot # Null => snapshot.rev # revision'[selected]
      BY <1>10, <1>11, <2>2 DEF LiveInv, Bounded
    <3>3. conn.stage = "read" => conn.rev # revision'[selected]
      BY <1>10, <2>2 DEF LiveInv, Bounded
    <3> QED
      BY <1>1, <1>11, <2>1, <3>1, <3>2, <3>3 DEF Fresh, Last
  <2>3. CASE selected # p
    BY <1>1, <1>4, <1>5, <1>11, <2>1, <2>3 DEF LiveInv, Fresh, Last
  <2> QED
    BY <2>2, <2>3
<1>15. Reaching'
  <2>1. CASE selected = p
    <3> SUFFICES ASSUME Registered' PROVE \E b \in pushes' : Newest(b)'
      BY DEF Reaching, Coming
    <3>1. Registered
      BY <1>1 DEF Registered
    <3>2. PICK b \in pushes' : b = n
      BY <1>1, <2>1, <3>1
    <3>3. /\ b.pool = selected' /\ b.rev = revision'[selected']
          /\ deployment' = "objects" => b.to
      BY <1>1, <1>2, <2>1, <3>2
    <3>4. Newest(b)'
      BY <3>3 DEF Newest
    <3> QED
      BY <3>4
  <2>2. CASE selected # p
    <3>1. revision'[selected] = revision[selected] /\ (Settled(selected)' => Settled(selected))
      BY <1>1, <1>4, <1>5, <2>2
    <3>2. pushes \subseteq pushes'
      BY <1>1
    <3> QED
      BY <1>1, <1>11, <3>1, <3>2 DEF LiveInv, Reaching, Coming, Newest, Registered
  <2> QED
    BY <2>1, <2>2
<1>16. Rendered'
  <2>1. CASE selected = p
    BY <1>1, <1>10, <1>11, <2>1 DEF LiveInv, Bounded, Rendered
  <2>2. CASE selected # p
    BY <1>1, <1>4, <1>5, <2>2 DEF LiveInv, Rendered, IsCurrent
  <2> QED
    BY <2>1, <2>2
<1> QED
  BY <1>9, <1>12, <1>13, <1>14, <1>15, <1>16 DEF LiveInv

LEMMA AnnounceFailsKeepsLive ==
  ASSUME Inv, LiveInv, NEW p \in Pools, AnnounceFails(p)
  PROVE  LiveInv'
<1>1. /\ noticed[p] > 0 /\ noticed' = [noticed EXCEPT ![p] = @ - 1] /\ lost' = lost \cup {p}
      /\ UNCHANGED <<deployment, data, revision, pushes, list, live>>
  BY DEF AnnounceFails
<1>2. noticed' \in [Pools -> Nat]
  BY <1>1 DEF LiveInv, ServerType
<1>3. selected \in Pools /\ (\A b \in pushes : b.pool \in Pools)
  BY DEF Inv, BoardType, LiveInv, ServerType, Pushes
<1>4. \A q \in Pools : Settled(q)' => Settled(q)
  BY <1>1 DEF Settled, LiveInv, ServerType
<1> USE DEF list, live
<1>5. ServerType' /\ Bounded' /\ Addressed'
  BY <1>1, <1>2 DEF LiveInv, ServerType, Bounded, Addressed, Queued, Registered
<1>6. Fresh'
  BY <1>1, <1>3, <1>4 DEF LiveInv, Fresh, Last, Queued
<1>7. Reaching'
  BY <1>1, <1>3, <1>4 DEF LiveInv, Reaching, Coming, Newest, Registered, Queued
<1>8. Rendered'
  BY <1>1, <1>3, <1>4 DEF LiveInv, Rendered, IsCurrent
<1> QED
  BY <1>5, <1>6, <1>7, <1>8 DEF LiveInv

LEMMA BuildPushKeepsLive ==
  ASSUME Inv, LiveInv, NEW b \in pushes, BuildPush(b)
  PROVE  LiveInv'
<1> DEFINE c == [b EXCEPT !.version = data[b.pool]]
<1>1. /\ pushes' = (pushes \ {b}) \cup {c}
      /\ UNCHANGED <<deployment, data, noticed, revision, lost, list, live>>
  BY DEF BuildPush
<1>2. b \in Pushes /\ data[b.pool] \in Nat
  BY DEF LiveInv, ServerType, Inv, BoardType, Pushes
<1>3. /\ c \in Pushes /\ c.pool = b.pool /\ c.rev = b.rev /\ c.to = b.to
      /\ c.version = data[b.pool]
  BY <1>2 DEF Pushes
<1> HIDE DEF c
<1> USE DEF list, live
<1>4. ServerType' /\ Bounded' /\ Addressed'
  BY <1>1, <1>3 DEF LiveInv, ServerType, Bounded, Addressed, Queued, Registered
<1>5. \A e \in pushes' : Settled(e.pool)' /\ e.version # Null => Last(e.pool, e.rev, e.version)'
  BY <1>1, <1>3 DEF LiveInv, Fresh, Last, Settled
<1>6. Fresh'
  BY <1>1, <1>5 DEF LiveInv, Fresh, Last, Settled, Queued
<1>7. Reaching'
  <2>1. (\E e \in pushes : Newest(e)) => (\E e \in pushes' : Newest(e)')
    BY <1>1, <1>3 DEF Newest
  <2> QED
    BY <1>1, <2>1 DEF LiveInv, Reaching, Coming, Registered, Queued, Settled
<1>8. Rendered'
  BY <1>1 DEF LiveInv, Rendered, IsCurrent, Settled
<1> QED
  BY <1>4, <1>6, <1>7, <1>8 DEF LiveInv

LEMMA DeliverPushKeepsLive ==
  ASSUME Inv, LiveInv, NEW b \in pushes, DeliverPush(b)
  PROVE  LiveInv'
<1> DEFINE s == [rev |-> b.rev, version |-> b.version]
<1>1. /\ b.version # Null /\ pushes' = pushes \ {b}
      /\ UNCHANGED <<deployment, data, noticed, revision, lost, list, snapshot, lastRevision>>
  BY DEF DeliverPush
<1>2. b \in Pushes /\ s \in Snaps /\ s.rev = b.rev /\ s.version = b.version
  BY <1>1 DEF LiveInv, ServerType, Pushes, Snaps
<1>3. conn.queue \in Seq(Snaps)
  BY QueueType
<1> HIDE DEF s
<1> USE DEF list
<1>4. CASE Recipient(b)
  <2>1. /\ conn' = [conn EXCEPT !.queue = Append(conn.queue, s)]
        /\ b.pool = selected /\ Registered
    BY <1>4 DEF DeliverPush, Recipient, LiveInv, Addressed, s
  <2>2. Append(conn.queue, s) \in Seq(Snaps) /\ Range(Append(conn.queue, s)) = Queued \cup {s}
    BY <1>2, <1>3, AppendRange DEF Queued
  <2>3. conn \in [stage : Stages, rev : Nat \cup {Null}, version : Nat \cup {Null}, queue : Seq(Snaps)]
    BY DEF LiveInv, ServerType
  <2>4. /\ Queued' = Queued \cup {s} /\ conn'.stage = conn.stage
        /\ conn'.rev = conn.rev /\ conn'.version = conn.version
        /\ conn' \in [stage : Stages, rev : Nat \cup {Null}, version : Nat \cup {Null}, queue : Seq(Snaps)]
    BY <2>1, <2>2, <2>3 DEF Queued
  <2>5. ServerType' /\ Bounded' /\ Addressed'
    BY <1>1, <1>2, <2>1, <2>4 DEF LiveInv, ServerType, Bounded, Addressed, Registered
  <2>6. Fresh'
    BY <1>1, <1>2, <2>1, <2>4 DEF LiveInv, Fresh, Last, Settled
  <2>7. Reaching'
    <3>1. Newest(b) => s.rev = revision[selected]
      BY <1>2, <2>1 DEF Newest
    <3> QED
      BY <1>1, <2>4, <3>1 DEF LiveInv, Reaching, Coming, Registered, Settled, Newest
  <2>8. Rendered'
    BY <1>1 DEF LiveInv, Rendered, IsCurrent, Settled
  <2> QED
    BY <2>5, <2>6, <2>7, <2>8 DEF LiveInv
<1>5. CASE ~Recipient(b)
  <2>1. conn' = conn
    BY <1>5 DEF DeliverPush
  <2>2. Registered => ~Newest(b)
    BY <1>5 DEF Recipient, Newest
  <2>3. ServerType' /\ Bounded' /\ Addressed'
    BY <1>1, <2>1 DEF LiveInv, ServerType, Bounded, Addressed, Registered, Queued
  <2>4. Fresh'
    BY <1>1, <2>1 DEF LiveInv, Fresh, Last, Settled, Queued
  <2>5. Reaching'
    BY <1>1, <2>1, <2>2 DEF LiveInv, Reaching, Coming, Registered, Settled, Newest, Queued
  <2>6. Rendered'
    BY <1>1 DEF LiveInv, Rendered, IsCurrent, Settled
  <2> QED
    BY <2>3, <2>4, <2>5, <2>6 DEF LiveInv
<1> QED
  BY <1>4, <1>5

(* The socket is let go of, and no push under way reaches it. *)
LEMMA UnaddressedFits ==
  ASSUME Inv, LiveInv, NEW bs \in SUBSET pushes, pushes' = Unaddressed(bs), Detached',
         conn'.stage = "opening" => lastRevision' = -1,
         conn' \in [stage : Stages, rev : Nat \cup {Null}, version : Nat \cup {Null}, queue : Seq(Snaps)],
         lastRevision' \in Int, UNCHANGED <<data, noticed, revision>>, lost' = lost
  PROVE  LiveInv'
<1>1. \A b \in bs : b \in Pushes
  BY DEF LiveInv, ServerType
<1>2. \A b \in pushes' : \E c \in bs : /\ b \in Pushes /\ b.pool = c.pool /\ b.rev = c.rev
                                       /\ b.version = c.version /\ ~b.to
  <2> SUFFICES ASSUME NEW b \in pushes'
               PROVE  \E c \in bs : /\ b \in Pushes /\ b.pool = c.pool /\ b.rev = c.rev
                                    /\ b.version = c.version /\ ~b.to
    OBVIOUS
  <2>1. PICK c \in bs : b = [c EXCEPT !.to = FALSE]
    BY DEF Unaddressed
  <2> QED
    BY <1>1, <2>1 DEF Pushes
<1>3. ServerType'
  BY <1>2 DEF LiveInv, ServerType, Detached
<1>4. \A b \in pushes' : ~b.to /\ b.rev <= revision'[b.pool]
  BY <1>2 DEF LiveInv, Bounded
<1>5. \A b \in pushes' : Settled(b.pool)' /\ b.version # Null => Last(b.pool, b.rev, b.version)'
  BY <1>2 DEF LiveInv, Fresh, Last, Settled
<1>6. (Bounded /\ Addressed /\ Fresh /\ Reaching /\ Rendered)'
  <2>1. Queued' = {}
    BY EmptyRange DEF Detached, Queued
  <2> QED
    BY <1>4, <1>5, <2>1 DEF Detached, Bounded, Addressed, Fresh, Reaching, Rendered, Registered
<1> QED
  BY <1>3, <1>6 DEF LiveInv

(* A push that comes to nothing, unless it was the one the board needs. *)
LEMMA NotDelivered ==
  ASSUME Inv, LiveInv, NEW b \in pushes, pushes' = pushes \ {b}, lost \subseteq lost',
         Settled(selected)' => ~Newest(b),
         UNCHANGED <<deployment, data, noticed, revision, list, lastRevision, conn, snapshot>>
  PROVE  LiveInv'
<1>1. \A q : Settled(q)' => Settled(q)
  BY DEF Settled
<1> USE DEF list
<1>2. ServerType' /\ Bounded' /\ Addressed'
  BY DEF LiveInv, ServerType, Bounded, Addressed, Registered, Queued
<1>3. Fresh'
  BY <1>1 DEF LiveInv, Fresh, Last, Queued
<1>4. Reaching'
  BY <1>1 DEF LiveInv, Reaching, Coming, Registered, Newest, Queued
<1>5. Rendered'
  BY <1>1 DEF LiveInv, Rendered, IsCurrent
<1> QED
  BY <1>2, <1>3, <1>4, <1>5 DEF LiveInv

LEMMA PushFailsKeepsLive ==
  ASSUME Inv, LiveInv, NEW b \in pushes, PushFails(b)
  PROVE  LiveInv'
<1>1. UNCHANGED <<deployment, data, noticed, revision, list, lastRevision>>
  BY DEF PushFails
<1>2. CASE deployment = "objects" /\ b.to
  <2>1. conn' = NoConn /\ snapshot' = Null /\ pushes' = Unaddressed(pushes \ {b}) /\ lost' = lost
    BY <1>2 DEF PushFails, Dropped
  <2>2. Detached' /\ conn'.stage = "none"
    BY <2>1, NoConnType DEF Detached
  <2>3. lastRevision' \in Int
    BY <1>1 DEF LiveInv, ServerType
  <2>4. conn' \in [stage : Stages, rev : Nat \cup {Null}, version : Nat \cup {Null}, queue : Seq(Snaps)]
    BY <2>1, NoConnType
  <2>5. pushes \ {b} \in SUBSET pushes
    OBVIOUS
  <2> QED
    BY <1>1, <2>1, <2>2, <2>3, <2>4, <2>5, UnaddressedFits
<1>3. CASE ~(deployment = "objects" /\ b.to)
  <2>1. /\ pushes' = pushes \ {b} /\ conn' = conn /\ snapshot' = snapshot
        /\ lost' = IF deployment # "objects" /\ b.rev = revision[b.pool]
                   THEN lost \cup {b.pool} ELSE lost
    BY <1>3 DEF PushFails
  <2>3. Settled(selected)' => ~Newest(b)
    <3>1. CASE deployment = "objects"
      BY <1>3, <3>1 DEF Newest
    <3>2. CASE deployment # "objects"
      <4> SUFFICES ASSUME Newest(b) PROVE selected' \in lost'
        BY DEF Settled
      <4>1. b.pool = selected /\ b.rev = revision[b.pool]
        BY DEF Newest
      <4> QED
        BY <1>1, <2>1, <3>2, <4>1 DEF list
    <3> QED
      BY <3>1, <3>2
  <2>4. lost \subseteq lost'
    BY <2>1
  <2> QED
    BY <1>1, <2>1, <2>3, <2>4, NotDelivered
<1> QED
  BY <1>2, <1>3

LEMMA PublishMissedKeepsLive ==
  ASSUME Inv, LiveInv, NEW b \in pushes, PublishMissed(b)
  PROVE  LiveInv'
<1>1. /\ pushes' = pushes \ {b} /\ UNCHANGED <<deployment, data, noticed, revision, list, lastRevision, conn, snapshot>>
      /\ lost' = IF b.rev = revision[b.pool] THEN lost \cup {b.pool} ELSE lost
  BY DEF PublishMissed, live
<1>2. Settled(selected)' => ~Newest(b)
  BY <1>1 DEF Settled, Newest, list
<1>3. lost \subseteq lost'
  BY <1>1
<1> QED
  BY <1>1, <1>2, <1>3, NotDelivered

LEMMA RestartKeepsLive ==
  ASSUME Inv, LiveInv, Restart
  PROVE  LiveInv'
<1>1. /\ conn' = NoConn /\ snapshot' = Null /\ lastRevision' = lastRevision
      /\ revision' = [p \in Pools |-> 0] /\ noticed' = revision' /\ pushes' = {}
  BY DEF Restart, Dropped
<1>2. Detached' /\ conn'.stage = "none"
  BY <1>1, NoConnType DEF Detached
<1>3. ServerType'
  BY <1>1, NoConnType DEF LiveInv, ServerType
<1>4. Queued' = {}
  BY <1>2, EmptyRange DEF Detached, Queued
<1>5. (Bounded /\ Addressed /\ Fresh /\ Reaching /\ Rendered)'
  BY <1>1, <1>2, <1>4 DEF Detached, Bounded, Addressed, Fresh, Reaching, Rendered, Registered
<1> QED
  BY <1>3, <1>5 DEF LiveInv

-----------------------------------------------------------------------------
(* The steps of the socket. *)
LEMMA DetachKeepsLive ==
  ASSUME Inv, LiveInv, SocketCloses \/ Reconnect \/ (\E p \in Pools : SwitchPool(p))
  PROVE  LiveInv'
<1> DEFINE Conns == [stage : Stages, rev : Nat \cup {Null}, version : Nat \cup {Null}, queue : Seq(Snaps)]
<1>1. UNCHANGED <<data, noticed, revision, lost>> /\ snapshot' = Null
  BY DEF SocketCloses, Reconnect, SwitchPool, Dropped, ConnectLive, server
<1>2. /\ conn' \in Conns /\ conn'.queue = <<>> /\ conn'.stage \in {"none", "opening"}
      /\ conn'.stage = "opening" => lastRevision' = -1
      /\ lastRevision' \in Int
  <2>1. CASE SocketCloses
    BY <2>1, NoConnType DEF SocketCloses, Dropped, LiveInv, ServerType
  <2>2. CASE Reconnect \/ (\E p \in Pools : SwitchPool(p))
    <3>1. ConnectLive
      BY <2>2 DEF Reconnect, SwitchPool
    <3> QED
      BY <3>1, NoConnType DEF ConnectLive
  <2> QED
    BY <2>1, <2>2
<1>3. Detached'
  BY <1>1, <1>2 DEF Detached
<1>4. CASE SocketCloses \/ (\E p \in Pools : SwitchPool(p))
  <2>1. pushes' = Unaddressed(pushes)
    BY <1>4 DEF SocketCloses, SwitchPool
  <2> QED
    BY <1>1, <1>2, <1>3, <2>1, UnaddressedFits
<1>5. CASE Reconnect
  <2>1. UNCHANGED <<server, selected>> /\ conn.stage = "none"
    BY <1>5 DEF Reconnect, list
  <2>2. ServerType'
    BY <1>1, <1>2, <2>1 DEF LiveInv, ServerType, server
  <2>3. \A b \in pushes : ~b.to
    BY <2>1 DEF LiveInv, Addressed, Registered
  <2>4. Queued' = {}
    BY <1>2, EmptyRange DEF Queued
  <2>5. Bounded' /\ Addressed'
    BY <1>1, <1>2, <2>1, <2>3, <2>4 DEF Bounded, Addressed, LiveInv, server
  <2>6. (Fresh /\ Reaching /\ Rendered)'
    BY <1>1, <1>2, <2>1, <2>4 DEF Fresh, Reaching, Rendered, Registered, LiveInv, Settled, Last, server
  <2> QED
    BY <2>2, <2>5, <2>6 DEF LiveInv
<1> QED
  BY <1>4, <1>5

LEMMA AttendKeepsLive ==
  ASSUME Inv, LiveInv, Attach \/ CurrentRevision \/ ReadFirstPage \/ ConnectPayload
  PROVE  LiveInv'
<1> DEFINE Conns == [stage : Stages, rev : Nat \cup {Null}, version : Nat \cup {Null}, queue : Seq(Snaps)]
<1>1. UNCHANGED <<server, list, snapshot, lastRevision>>
  BY DEF Attach, CurrentRevision, ReadFirstPage, ConnectPayload
<1>2. /\ conn \in Conns /\ conn.queue \in Seq(Snaps)
      /\ revision[selected] \in Nat /\ data[selected] \in Nat
  BY DEF LiveInv, ServerType, Inv, BoardType
<1>3. Rendered'
  BY <1>1 DEF LiveInv, Rendered, IsCurrent, Settled, server, list
<1>4. CASE Attach
  <2>1. conn.stage = "opening" /\ conn.queue = <<>> /\ snapshot = Null
    BY <1>4 DEF Attach, LiveInv, Bounded
  <2>2. /\ conn' \in Conns /\ conn'.queue = <<>>
        /\ \/ conn'.stage = "registered"
           \/ conn'.stage = "numbered" /\ conn'.rev = revision[selected]
    BY <1>2, <1>4, <2>1 DEF Attach, Stages
  <2>3. Queued' = {} /\ lastRevision = -1 /\ (\A b \in pushes : ~b.to)
    BY <2>1, <2>2, EmptyRange DEF Queued, LiveInv, Bounded, Addressed, Registered
  <2>4. ServerType' /\ Bounded' /\ Addressed'
    BY <1>1, <1>2, <2>1, <2>2, <2>3 DEF LiveInv, ServerType, Bounded, Addressed, server, list
  <2>5. Fresh' /\ Reaching'
    BY <1>1, <2>1, <2>2, <2>3 DEF LiveInv, Fresh, Reaching, Coming, Settled, Last, server, list
  <2> QED
    BY <1>3, <2>4, <2>5 DEF LiveInv
<1>5. CASE CurrentRevision
  <2>1. conn.stage = "registered"
    BY <1>5 DEF CurrentRevision
  <2>2. /\ conn' \in Conns /\ conn'.queue = conn.queue
        /\ conn'.stage = "numbered" /\ conn'.rev = revision[selected]
    BY <1>2, <1>5 DEF CurrentRevision, Stages
  <2>3. Queued' = Queued
    BY <2>2 DEF Queued
  <2>4. ServerType' /\ Bounded' /\ Addressed'
    BY <1>1, <1>2, <2>1, <2>2, <2>3 DEF LiveInv, ServerType, Bounded, Addressed, Registered, server, list
  <2>5. Fresh' /\ Reaching'
    BY <1>1, <2>1, <2>2, <2>3 DEF LiveInv, Fresh, Reaching, Coming, Settled, Last, server, list
  <2> QED
    BY <1>3, <2>4, <2>5 DEF LiveInv
<1>6. CASE ReadFirstPage
  <2>1. conn.stage = "numbered"
    BY <1>6 DEF ReadFirstPage
  <2>2. /\ conn' \in Conns /\ conn'.queue = conn.queue /\ conn'.rev = conn.rev
        /\ conn'.stage = "read" /\ conn'.version = data[selected]
    BY <1>2, <1>6 DEF ReadFirstPage, Stages
  <2>3. Queued' = Queued
    BY <2>2 DEF Queued
  <2>4. ServerType' /\ Bounded' /\ Addressed'
    BY <1>1, <1>2, <2>1, <2>2, <2>3 DEF LiveInv, ServerType, Bounded, Addressed, Registered, server, list
  <2>5. Fresh'
    BY <1>1, <2>1, <2>2, <2>3 DEF LiveInv, Fresh, Settled, Last, server, list
  <2>6. Reaching'
    BY <1>1, <2>1, <2>2, <2>3 DEF LiveInv, Reaching, Coming, Newest, Registered, Settled, server, list
  <2> QED
    BY <1>3, <2>4, <2>5, <2>6 DEF LiveInv
<1>7. CASE ConnectPayload
  <2> DEFINE s == [rev |-> conn.rev, version |-> conn.version]
  <2>1. conn.stage = "read" /\ s \in Snaps /\ s.rev = conn.rev /\ s.version = conn.version
    BY <1>7 DEF ConnectPayload, LiveInv, Bounded, Snaps
  <2>2. Append(conn.queue, s) \in Seq(Snaps) /\ Range(Append(conn.queue, s)) = Queued \cup {s}
    BY <1>2, <2>1, AppendRange DEF Queued
  <2>3. conn' = [NoConn EXCEPT !.stage = "open", !.queue = Append(conn.queue, s)]
    BY <1>7 DEF ConnectPayload
  <2> HIDE DEF s
  <2>4. conn' \in Conns /\ conn'.stage = "open" /\ Queued' = Queued \cup {s}
    BY <2>2, <2>3 DEF NoConn, Stages, Queued
  <2>5. ServerType' /\ Bounded' /\ Addressed'
    BY <1>1, <1>2, <2>1, <2>4 DEF LiveInv, ServerType, Bounded, Addressed, Registered, server, list
  <2>6. Fresh'
    BY <1>1, <2>1, <2>4 DEF LiveInv, Fresh, Settled, Last, server, list
  <2>7. Reaching'
    BY <1>1, <2>1, <2>4 DEF LiveInv, Reaching, Coming, Newest, Registered, Settled, server, list
  <2> QED
    BY <1>3, <2>5, <2>6, <2>7 DEF LiveInv
<1> QED
  BY <1>4, <1>5, <1>6, <1>7

LEMMA ReceiveKeepsLive ==
  ASSUME Inv, LiveInv, Receive
  PROVE  LiveInv'
<1> DEFINE s == Head(conn.queue)
           Conns == [stage : Stages, rev : Nat \cup {Null}, version : Nat \cup {Null}, queue : Seq(Snaps)]
<1>1. /\ conn.queue # <<>> /\ conn' = [conn EXCEPT !.queue = Tail(conn.queue)]
      /\ UNCHANGED server /\ selected' = selected /\ page' = page
  BY DEF Receive, list
<1>2. conn \in Conns /\ conn.queue \in Seq(Snaps)
  BY DEF LiveInv, ServerType
<1>3. /\ s \in Snaps /\ s \in Queued /\ Tail(conn.queue) \in Seq(Snaps)
      /\ Range(Tail(conn.queue)) \subseteq Queued /\ Queued \subseteq {s} \cup Range(Tail(conn.queue))
  BY <1>1, <1>2, HeadTailRange DEF Queued
<1>4. /\ conn' \in Conns /\ conn'.queue = Tail(conn.queue)
      /\ conn'.stage = conn.stage /\ conn'.rev = conn.rev /\ conn'.version = conn.version
  BY <1>1, <1>2, <1>3
<1>5. Queued' \subseteq Queued /\ Queued \subseteq {s} \cup Queued'
  BY <1>3, <1>4 DEF Queued
<1>6. /\ conn.stage \notin {"none", "opening"} /\ s.rev <= revision[selected]
      /\ s.rev \in Nat /\ s.version \in Nat /\ revision[selected] \in Nat
      /\ Settled(selected) => Last(selected, s.rev, s.version)
  BY <1>1, <1>3 DEF LiveInv, Bounded, Fresh, Snaps, ServerType, Inv, BoardType
<1>7. snapshot # Null => snapshot.rev \in Nat
  BY DEF LiveInv, ServerType, Snaps
<1> HIDE DEF s
<1>8. CASE s.rev < lastRevision
  <2>1. UNCHANGED <<list, snapshot, lastRevision>>
    BY <1>8 DEF Receive, s
  <2>2. snapshot # Null /\ s.rev # revision[selected]
    BY <1>6, <1>7, <1>8 DEF LiveInv, Bounded
  <2>3. ServerType' /\ Bounded' /\ Addressed'
    BY <1>1, <1>4, <1>5, <1>6, <2>1 DEF LiveInv, ServerType, Bounded, Addressed, Registered, server, list
  <2>4. Fresh'
    BY <1>1, <1>4, <1>5, <2>1 DEF LiveInv, Fresh, Settled, Last, server, list
  <2>5. Reaching'
    BY <1>1, <1>4, <1>5, <2>1, <2>2 DEF LiveInv, Reaching, Coming, Newest, Registered, Settled, server, list
  <2>6. Rendered'
    BY <1>1, <2>1 DEF LiveInv, Rendered, IsCurrent, Settled, server, list
  <2> QED
    BY <2>3, <2>4, <2>5, <2>6 DEF LiveInv
<1>9. CASE ~(s.rev < lastRevision)
  <2>1. lastRevision' = s.rev /\ snapshot' = s /\ s # Null
    BY <1>3, <1>9, DirectoryAssumption DEF Receive, s, Snaps
  <2>2. page = 0 => shown' = FirstRows(selected, s) /\ load' = Null
    BY <1>9 DEF Receive, ApplyPage, s
  <2>3. ServerType' /\ Bounded' /\ Addressed'
    BY <1>1, <1>3, <1>4, <1>5, <1>6, <2>1 DEF LiveInv, ServerType, Bounded, Addressed, Registered, server
  <2>4. Fresh'
    BY <1>1, <1>4, <1>5, <1>6, <2>1 DEF LiveInv, Fresh, Settled, Last, server
  <2>5. Reaching'
    <3>1. ASSUME snapshot # Null, snapshot.rev = revision[selected] PROVE s.rev = revision[selected]
      BY <1>6, <1>7, <1>9, <3>1 DEF LiveInv, Bounded
    <3> QED
      BY <1>1, <1>4, <1>5, <2>1, <3>1 DEF LiveInv, Reaching, Coming, Newest, Registered, Settled, server
  <2>6. Rendered'
    BY <1>1, <1>6, <2>1, <2>2 DEF Rendered, IsCurrent, Settled, Last, FirstRows, server
  <2> QED
    BY <2>3, <2>4, <2>5, <2>6 DEF LiveInv
<1> QED
  BY <1>8, <1>9

LEMMA NextKeepsLive == Inv /\ LiveInv /\ [Next]_vars => LiveInv'
<1> SUFFICES ASSUME Inv, LiveInv, [Next]_vars PROVE LiveInv'
  OBVIOUS
<1>1. CASE UNCHANGED vars
  <2>1. UNCHANGED <<server, live, selected>> /\ UNCHANGED <<page, shown, load>>
    BY <1>1 DEF vars, list
  <2>2. Rendered'
    BY <2>1 DEF LiveInv, Rendered, IsCurrent, Settled, server, live
  <2> QED
    BY <2>1, <2>2, ListSteps
<1>2. CASE \E p \in Pools : Change(p) \/ ChangeUntold(p)
  BY <1>2, ChangeKeepsLive, ChangeUntoldKeepsLive
<1>3. CASE Serve
  BY <1>3, AnnounceKeepsLive, BuildPushKeepsLive, DeliverPushKeepsLive DEF Serve
<1>4. CASE Attend
  BY <1>4, AttendKeepsLive, DetachKeepsLive DEF Attend
<1>5. CASE Receive \/ ReadPage \/ LoadReplies
  BY <1>5, ReceiveKeepsLive, RequestKeepsLive
<1>6. CASE Fail
  BY <1>6, AnnounceFailsKeepsLive, PushFailsKeepsLive, PublishMissedKeepsLive, RestartKeepsLive,
     DetachKeepsLive,     RequestKeepsLive DEF Fail
<1>7. CASE Click
  BY <1>7, ClickKeepsLive, DetachKeepsLive DEF Click
<1> QED
  BY <1>1, <1>2, <1>3, <1>4, <1>5, <1>6, <1>7 DEF Next

(* When nothing more is coming and the latest change was neither left without
   an announcement nor lost on its way, the first page shows the directory as it
   is, whatever the order in which changes were numbered, read and delivered and
   the board connected: a snapshot is numbered before it is read, and a board is
   listed before it is numbered. *)
THEOREM QuietScreenIsCurrent == Spec => []QuietBoardIsCurrent
<1>1. Inv /\ LiveInv => QuietBoardIsCurrent
  <2> SUFFICES ASSUME LiveInv, Quiet, page = 0, selected \notin lost PROVE IsCurrent
    BY DEF QuietBoardIsCurrent
  <2>1. /\ conn.stage = "open" /\ conn.queue = <<>> /\ noticed[selected] = 0
        /\ \A b \in pushes : b.pool # selected
    BY DEF Quiet
  <2>2. Queued = {} /\ Registered /\ Settled(selected)
    BY <2>1, EmptyRange DEF Queued, Registered, Settled
  <2>3. Coming
    BY <2>2 DEF LiveInv, Reaching
  <2>4. snapshot # Null /\ snapshot.rev = revision[selected]
    BY <2>1, <2>2, <2>3 DEF Coming, Newest
  <2> QED
    BY <2>2, <2>4 DEF LiveInv, Rendered
<1> QED
  BY <1>1, InitFits, NextKeeps, LiveInit, NextKeepsLive, PTL DEF Spec

-----------------------------------------------------------------------------
(* Every number stays within what was changed: a version counts the changes
   of its pool, and of those no more were announced than were made. *)

ServerTyped ==
    /\ deployment \in Deployments
    /\ data \in [Pools -> Versions] /\ changes \in Versions /\ noticed \in [Pools -> Versions]
    /\ revision \in [Pools -> Versions]
    /\ pushes \subseteq Push /\ lost \subseteq Pools
    /\ \A p \in Pools : noticed[p] + revision[p] <= data[p] /\ data[p] <= changes

Connections ==
    [stage : Stages, rev : Versions \cup {Null}, version : Versions \cup {Null}, queue : Seq(Snapshots)]

LiveTyped ==
    /\ conn \in Connections
    /\ snapshot \in Snapshots \cup {Null} /\ lastRevision \in -1..MaxChanges

ListTyped ==
    /\ selected \in Pools /\ page \in 0..(Pages - 1)
    /\ cursors \in [0..(Pages - 1) -> Cursors] /\ nextCursor \in Cursors
    /\ shown \in PageRows \cup {Null} /\ summary \in PageRows \cup {Null}
    /\ failed \in BOOLEAN /\ load \in Load \cup {Null}

Spent == moves \in 0..MaxMoves /\ faults \in 0..MaxFaults

Typed == ServerTyped /\ LiveTyped /\ ListTyped /\ Spent

LEMMA TypedFits == Typed => TypeOK
  BY DEF Typed, ServerTyped, LiveTyped, ListTyped, Spent, TypeOK, Connections, Stages, Cursors

LEMMA VersionsFit ==
  /\ Versions \subseteq Nat /\ 0 \in Versions /\ Null \notin Versions
  /\ \A v \in Nat : v <= MaxChanges => v \in Versions
  BY DirectoryAssumption DEF Versions

LEMMA Disconnected == NoConn \in Connections /\ NoConn.stage = "none"
                      /\ [NoConn EXCEPT !.stage = "opening"] \in Connections
<1>1. <<>> \in Seq(Snapshots)
  OBVIOUS
<1> QED
  BY <1>1 DEF NoConn, Connections, Stages

LEMMA TypedStart == Init => Typed
<1> SUFFICES ASSUME Init PROVE Typed
  OBVIOUS
<1> USE DirectoryAssumption
<1>1. ServerTyped
  <2>1. \A p \in Pools : data[p] = 0 /\ noticed[p] = 0 /\ revision[p] = 0
    BY DEF Init
  <2>2. data \in [Pools -> Versions] /\ noticed = data /\ revision = data /\ changes = 0
    BY VersionsFit DEF Init
  <2> QED
    BY <2>1, <2>2, VersionsFit DEF Init, ServerTyped
<1>2. LiveTyped
  BY Disconnected DEF Init, LiveTyped
<1>3. ListTyped
  BY FirstCursor DEF Init, ListTyped, Cursors
<1>4. Spent
  BY DEF Init, Spent
<1> QED
  BY <1>1, <1>2, <1>3, <1>4 DEF Typed

LEMMA ServerStays == ServerTyped /\ UNCHANGED server => ServerTyped'
  BY DEF ServerTyped, server

LEMMA LiveStays == LiveTyped /\ UNCHANGED live => LiveTyped'
  BY DEF LiveTyped, live

LEMMA ListStays == ListTyped /\ UNCHANGED list => ListTyped'
  BY DEF ListTyped, list

LEMMA SpentStays ==
  ASSUME Spent, Move \/ moves' = moves, Fault \/ faults' = faults
  PROVE  Spent'
  BY DirectoryAssumption DEF Spent, Move, Fault

LEMMA PushesStay ==
  ASSUME ServerTyped, UNCHANGED <<deployment, data, changes, noticed, revision>>,
         pushes' \subseteq Push, lost' \subseteq Pools
  PROVE  ServerTyped'
  BY DEF ServerTyped

LEMMA UnaddressedTyped ==
  ASSUME NEW bs \in SUBSET Push
  PROVE  Unaddressed(bs) \subseteq Push
  BY DEF Unaddressed, Push

LEMMA DetachedTyped ==
  ASSUME LiveTyped, (Dropped /\ lastRevision' = lastRevision) \/ ConnectLive
  PROVE  LiveTyped'
  BY Disconnected, DirectoryAssumption DEF LiveTyped, Dropped, ConnectLive

-----------------------------------------------------------------------------
(* The server's steps. *)

LEMMA ServeTyped ==
  ASSUME Typed, NEW p \in Pools, Change(p) \/ ChangeUntold(p) \/ Announce(p) \/ AnnounceFails(p)
  PROVE  Typed'
<1>1. LiveTyped' /\ ListTyped' /\ Spent'
  BY LiveStays, ListStays, SpentStays DEF Typed, Change, ChangeUntold, Announce, AnnounceFails
<1>2. /\ data \in [Pools -> Versions] /\ changes \in Versions /\ noticed \in [Pools -> Versions]
      /\ revision \in [Pools -> Versions]
      /\ \A q \in Pools : /\ noticed[q] + revision[q] <= data[q] /\ data[q] <= changes
                          /\ noticed[q] \in Nat /\ revision[q] \in Nat /\ data[q] \in Nat
      /\ changes \in Nat
  BY VersionsFit DEF Typed, ServerTyped
<1>3. CASE Change(p)
  <2>1. /\ changes' = changes + 1 /\ changes + 1 <= MaxChanges
        /\ data' = [data EXCEPT ![p] = @ + 1] /\ noticed' = [noticed EXCEPT ![p] = @ + 1]
        /\ UNCHANGED <<deployment, revision, pushes, lost>>
    BY <1>2, <1>3, DirectoryAssumption DEF Change, Written
  <2>2. data[p] + 1 \in Versions /\ noticed[p] + 1 \in Versions /\ changes + 1 \in Versions
    BY <1>2, <2>1, VersionsFit, DirectoryAssumption
  <2>3. \A q \in Pools : (noticed[q] + revision[q] <= data[q] /\ data[q] <= changes)'
    BY <1>2, <2>1
  <2>4. ServerTyped'
    BY <1>2, <2>1, <2>2, <2>3 DEF Typed, ServerTyped
  <2> QED
    BY <1>1, <2>4 DEF Typed
<1>6. CASE ChangeUntold(p)
  <2>1. /\ changes' = changes + 1 /\ changes + 1 <= MaxChanges /\ data' = [data EXCEPT ![p] = @ + 1]
        /\ lost' = lost \cup {p} /\ UNCHANGED <<deployment, noticed, revision, pushes>>
    BY <1>2, <1>6, DirectoryAssumption DEF ChangeUntold, Written
  <2>2. data[p] + 1 \in Versions /\ changes + 1 \in Versions
    BY <1>2, <2>1, VersionsFit, DirectoryAssumption
  <2>3. \A q \in Pools : (noticed[q] + revision[q] <= data[q] /\ data[q] <= changes)'
    BY <1>2, <2>1
  <2>4. ServerTyped'
    BY <1>2, <2>1, <2>2, <2>3 DEF Typed, ServerTyped
  <2> QED
    BY <1>1, <2>4 DEF Typed
<1>4. CASE Announce(p)
  <2>1. /\ noticed[p] > 0 /\ noticed' = [noticed EXCEPT ![p] = @ - 1]
        /\ revision' = [revision EXCEPT ![p] = @ + 1] /\ lost' \subseteq lost
        /\ UNCHANGED <<deployment, data, changes>>
    BY <1>4 DEF Announce, Announced
  <2>2. noticed[p] - 1 \in Versions /\ revision[p] + 1 \in Versions /\ revision[p] + 1 \in 1..MaxChanges
    <3>1. noticed[p] \in 0..MaxChanges /\ revision[p] \in 0..MaxChanges /\ data[p] \in 0..MaxChanges
      BY <1>2 DEF Versions
    <3>2. noticed[p] > 0 /\ noticed[p] + revision[p] <= data[p]
      BY <1>2, <2>1
    <3> QED
      BY <3>1, <3>2, DirectoryAssumption DEF Versions
  <2>3. \A q \in Pools : (noticed[q] + revision[q] <= data[q] /\ data[q] <= changes)'
    BY <1>2, <2>1
  <2>4. pushes' \subseteq Push
    <3> DEFINE b == [pool |-> p, rev |-> revision'[p], version |-> Null, to |-> deployment = "objects"]
    <3>1. revision'[p] \in 1..MaxChanges
      BY <1>2, <2>1, <2>2
    <3>2. b \in Push
      <4> DEFINE flag == deployment = "objects"
      <4>1. flag \in BOOLEAN
        OBVIOUS
      <4> HIDE DEF flag
      <4> QED
        BY <3>1, <4>1 DEF Push, flag
    <3>3. pushes' \in {pushes, pushes \cup {b}}
      BY <1>4 DEF Announce
    <3> QED
      BY <3>2, <3>3 DEF Typed, ServerTyped
  <2>5. ServerTyped'
    BY <1>2, <2>1, <2>2, <2>3, <2>4 DEF Typed, ServerTyped
  <2> QED
    BY <1>1, <2>5 DEF Typed
<1>5. CASE AnnounceFails(p)
  <2>1. /\ noticed[p] > 0 /\ noticed' = [noticed EXCEPT ![p] = @ - 1] /\ lost' = lost \cup {p}
        /\ UNCHANGED <<deployment, data, changes, revision, pushes>>
    BY <1>5 DEF AnnounceFails
  <2>2. noticed[p] - 1 \in Versions
    <3>1. noticed[p] \in 0..MaxChanges /\ noticed[p] > 0
      BY <1>2, <2>1 DEF Versions
    <3> QED
      BY <3>1, DirectoryAssumption DEF Versions
  <2>3. \A q \in Pools : (noticed[q] + revision[q] <= data[q] /\ data[q] <= changes)'
    BY <1>2, <2>1
  <2>4. ServerTyped'
    BY <1>2, <2>1, <2>2, <2>3 DEF Typed, ServerTyped
  <2> QED
    BY <1>1, <2>4 DEF Typed
<1> QED
  BY <1>3, <1>4, <1>5, <1>6

LEMMA PushTyped ==
  ASSUME Typed, NEW b \in pushes, BuildPush(b) \/ DeliverPush(b) \/ PushFails(b) \/ PublishMissed(b)
  PROVE  Typed'
<1>1. b \in Push /\ pushes \subseteq Push /\ ListTyped' /\ Spent'
  BY ListStays, SpentStays DEF Typed, ServerTyped, BuildPush, DeliverPush, PushFails,
     PublishMissed
<1>2. CASE BuildPush(b)
  <2>1. [b EXCEPT !.version = data[b.pool]] \in Push
    BY <1>1 DEF Push, Typed, ServerTyped
  <2>2. ServerTyped'
    BY <1>1, <1>2, <2>1, PushesStay DEF BuildPush, Typed, ServerTyped
  <2> QED
    BY <1>1, <1>2, <2>2, LiveStays DEF BuildPush, Typed
<1>3. CASE DeliverPush(b)
  <2>1. ServerTyped'
    BY <1>1, <1>3, PushesStay DEF DeliverPush, Typed, ServerTyped
  <2> DEFINE e == [rev |-> b.rev, version |-> b.version]
  <2>2. e \in Snapshots
    BY <1>1, <1>3, DirectoryAssumption DEF DeliverPush, Push, Snapshots
  <2>3. conn' \in {conn, [conn EXCEPT !.queue = Append(conn.queue, e)]} /\ UNCHANGED <<snapshot, lastRevision>>
    BY <1>3 DEF DeliverPush
  <2> HIDE DEF e
  <2>4. LiveTyped'
    <3>1. conn.queue \in Seq(Snapshots)
      BY DEF Typed, LiveTyped, Connections
    <3>2. Append(conn.queue, e) \in Seq(Snapshots)
      BY <2>2, <3>1
    <3> QED
      BY <2>3, <3>2 DEF Typed, LiveTyped, Connections
  <2> QED
    BY <1>1, <2>1, <2>4 DEF Typed
<1>4. CASE PushFails(b)
  <2>1. pushes' \subseteq Push /\ lost' \subseteq Pools
    BY <1>1, <1>4, UnaddressedTyped DEF PushFails, Typed, ServerTyped, Push
  <2>2. ServerTyped'
    BY <1>4, <2>1, PushesStay DEF PushFails, Typed
  <2>3. LiveTyped'
    BY <1>4, DetachedTyped, LiveStays DEF PushFails, Typed, live
  <2> QED
    BY <1>1, <2>2, <2>3 DEF Typed
<1>5. CASE PublishMissed(b)
  <2>1. pushes' \subseteq Push /\ lost' \subseteq Pools
    BY <1>1, <1>5 DEF PublishMissed, Typed, ServerTyped, Push
  <2>2. ServerTyped'
    BY <1>5, <2>1, PushesStay DEF PublishMissed, Typed
  <2> QED
    BY <1>1, <1>5, <2>2, LiveStays DEF PublishMissed, Typed
<1> QED
  BY <1>2, <1>3, <1>4, <1>5

LEMMA RestartTyped ==
  ASSUME Typed, Restart
  PROVE  Typed'
<1>1. ServerTyped'
  <2>1. /\ revision' = [p \in Pools |-> 0] /\ noticed' = revision' /\ pushes' = {} /\ lost' = {}
        /\ UNCHANGED <<deployment, data, changes>>
    BY DEF Restart
  <2>0. \A p \in Pools : data[p] \in Nat /\ data[p] <= changes
    BY VersionsFit DEF Typed, ServerTyped
  <2>2. \A p \in Pools : (noticed[p] + revision[p] <= data[p] /\ data[p] <= changes)'
    BY <2>0, <2>1
  <2> QED
    BY <2>1, <2>2, VersionsFit DEF Typed, ServerTyped
<1>2. LiveTyped' /\ ListTyped' /\ Spent'
  BY DetachedTyped, ListStays, SpentStays DEF Restart, Typed
<1> QED
  BY <1>1, <1>2 DEF Typed

-----------------------------------------------------------------------------
(* The socket and the list. *)

LEMMA SocketTyped ==
  ASSUME Typed, LiveInv, Attend \/ SocketCloses
  PROVE  Typed'
<1>1. ListTyped' /\ Spent' /\ selected \in Pools /\ conn \in Connections
  BY ListStays, SpentStays DEF Attend, Attach, CurrentRevision, ReadFirstPage, ConnectPayload,
     Reconnect, SocketCloses, Typed, ListTyped, LiveTyped
<1>2. CASE Attach \/ CurrentRevision \/ ReadFirstPage \/ ConnectPayload
  <2>1. ServerTyped' /\ UNCHANGED <<snapshot, lastRevision>>
    BY <1>2, ServerStays DEF Attach, CurrentRevision, ReadFirstPage, ConnectPayload, Typed
  <2>2. revision[selected] \in Versions /\ data[selected] \in Versions
    BY <1>1 DEF Typed, ServerTyped
  <2>3. CASE Attach \/ CurrentRevision \/ ReadFirstPage
    <3>1. conn' \in Connections
      BY <1>1, <2>2, <2>3 DEF Attach, CurrentRevision, ReadFirstPage, Connections, Stages
    <3> QED
      BY <1>1, <2>1, <3>1 DEF Typed, LiveTyped
  <2>4. CASE ConnectPayload
    <3> DEFINE e == [rev |-> conn.rev, version |-> conn.version]
    <3>1. e \in Snapshots
      BY <1>1, <2>4, DirectoryAssumption DEF ConnectPayload, LiveInv, Bounded, Connections, Snapshots, Versions
    <3>2. conn' = [NoConn EXCEPT !.stage = "open", !.queue = Append(conn.queue, e)]
      BY <2>4 DEF ConnectPayload
    <3> HIDE DEF e
    <3>3. Append(conn.queue, e) \in Seq(Snapshots)
      BY <1>1, <3>1 DEF Connections
    <3>4. conn' \in Connections
      BY <3>2, <3>3, Disconnected DEF Connections, Stages
    <3> QED
      BY <1>1, <2>1, <3>4 DEF Typed, LiveTyped
  <2> QED
    BY <1>2, <2>3, <2>4
<1>3. CASE Reconnect
  BY <1>1, <1>3, ServerStays, DetachedTyped DEF Reconnect, Typed
<1>4. CASE SocketCloses
  <2>1. ServerTyped'
    BY <1>4, UnaddressedTyped, PushesStay DEF SocketCloses, Typed, ServerTyped
  <2> QED
    BY <1>1, <1>4, <2>1, DetachedTyped DEF SocketCloses, Typed
<1> QED
  BY <1>2, <1>3, <1>4 DEF Attend

(* Rows are shown, of one page or another. *)
LEMMA AppliedTyped ==
  ASSUME ListTyped, NEW rows \in PageRows, NEW k, ApplyPage(k, rows), load' = Null,
         UNCHANGED <<selected, cursors>>, page' \in 0..(Pages - 1)
  PROVE  ListTyped'
<1>1. rows.pool \in Pools /\ rows.cursor \in Cursors
  BY DEF PageRows, Cursors
<1>2. nextCursor' \in Cursors
  BY <1>1, FollowingFits DEF ApplyPage
<1> QED
  BY <1>2 DEF ApplyPage, ListTyped

LEMMA FirstRowsTyped ==
  ASSUME NEW p \in Pools, NEW s \in Snapshots
  PROVE  FirstRows(p, s) \in PageRows
  BY DEF FirstRows, PageRows, Snapshots

LEMMA RequestTyped ==
  ASSUME ListTyped, NEW k \in 0..(Pages - 1), Request(k), cursors' \in [0..(Pages - 1) -> Cursors],
         page' \in 0..(Pages - 1), UNCHANGED <<selected, nextCursor, shown, failed, summary>>
  PROVE  ListTyped'
<1>1. load' \in Load
  BY DEF Request, Load, ListTyped, Cursors
<1> QED
  BY <1>1 DEF ListTyped

LEMMA ReceiveTyped ==
  ASSUME Typed, Receive
  PROVE  Typed'
<1> DEFINE s == Head(conn.queue)
<1>1. conn \in Connections /\ conn.queue \in Seq(Snapshots) /\ conn.queue # <<>>
  BY DEF Receive, Typed, LiveTyped, Connections
<1>2. s \in Snapshots /\ Tail(conn.queue) \in Seq(Snapshots)
  BY <1>1
<1>3. conn' = [conn EXCEPT !.queue = Tail(conn.queue)] /\ ServerTyped' /\ Spent'
  BY ServerStays, SpentStays DEF Receive, Typed
<1>4. conn' \in Connections
  BY <1>1, <1>2, <1>3 DEF Connections
<1>5. CASE s.rev < lastRevision
  BY <1>3, <1>4, <1>5, ListStays DEF Receive, Typed, LiveTyped
<1>6. CASE ~(s.rev < lastRevision)
  <2>1. /\ lastRevision' = s.rev /\ snapshot' = s /\ UNCHANGED <<selected, page, cursors>>
        /\ IF page = 0
           THEN ApplyPage(0, FirstRows(selected, s)) /\ load' = Null
           ELSE /\ summary' = FirstRows(selected, s)
                /\ UNCHANGED <<nextCursor, shown, failed, load>>
    BY <1>6 DEF Receive
  <2>2. LiveTyped'
    BY <1>2, <1>4, <2>1 DEF LiveTyped, Snapshots
  <2>3. FirstRows(selected, s) \in PageRows
    BY <1>2, FirstRowsTyped DEF Typed, ListTyped
  <2>4. ListTyped'
    <3>1. page' \in 0..(Pages - 1)
      BY <2>1 DEF Typed, ListTyped
    <3> QED
      BY <2>1, <2>3, <3>1, AppliedTyped DEF Typed, ListTyped
  <2> QED
    BY <1>3, <2>2, <2>4 DEF Typed
<1> QED
  BY <1>5, <1>6

LEMMA RowsTyped ==
  ASSUME Typed, ReadPage \/ LoadReplies \/ LoadFails
  PROVE  Typed'
<1>1. ServerTyped' /\ LiveTyped' /\ Spent'
  BY ServerStays, LiveStays, SpentStays DEF ReadPage, LoadReplies, LoadFails, Typed
<1>2. load \in Load /\ page' = page /\ UNCHANGED <<selected, cursors>>
  BY DEF ReadPage, LoadReplies, LoadFails, Typed, ListTyped
<1>3. CASE ReadPage
  <2>1. load' \in Load
    BY <1>2, <1>3 DEF ReadPage, Load, Typed, ServerTyped
  <2> QED
    BY <1>1, <1>3, <2>1 DEF ReadPage, Typed, ListTyped
<1>4. CASE LoadReplies
  <2>1. load \in PageRows
    BY <1>2, <1>4 DEF LoadReplies, Load, PageRows
  <2>2. ListTyped'
    BY <1>2, <1>4, <2>1, AppliedTyped DEF LoadReplies, Typed, ListTyped
  <2> QED
    BY <1>1, <2>2 DEF Typed
<1>5. CASE LoadFails
  BY <1>1, <1>5 DEF LoadFails, Typed, ListTyped, Cursors
<1> QED
  BY <1>3, <1>4, <1>5

LEMMA ClickTyped ==
  ASSUME Typed, Click
  PROVE  Typed'
<1>1. Spent'
  BY SpentStays DEF Click, Refresh, NextPage, PreviousPage, SwitchPool, Typed
<1>2. CASE Refresh
  <2>1. page \in 0..(Pages - 1) /\ cursors' \in [0..(Pages - 1) -> Cursors] /\ page' = page
    BY <1>2 DEF Refresh, Typed, ListTyped
  <2>2. ListTyped'
    BY <1>2, <2>1, RequestTyped DEF Refresh, Typed
  <2> QED
    BY <1>1, <1>2, <2>2, ServerStays, LiveStays DEF Refresh, Typed
<1>3. CASE NextPage
  <2>1. page + 1 \in 0..(Pages - 1) /\ page' = page + 1
    BY <1>3, DirectoryAssumption DEF NextPage, Typed, ListTyped
  <2>2. cursors' \in [0..(Pages - 1) -> Cursors]
    BY <1>3, <2>1 DEF NextPage, Typed, ListTyped
  <2>3. ListTyped'
    BY <1>3, <2>1, <2>2, RequestTyped DEF NextPage, Typed
  <2> QED
    BY <1>1, <1>3, <2>3, ServerStays, LiveStays DEF NextPage, Typed
<1>4. CASE PreviousPage
  <2>1. page - 1 \in 0..(Pages - 1) /\ page' = page - 1 /\ UNCHANGED <<selected, cursors>>
    BY <1>4, DirectoryAssumption DEF PreviousPage, Typed, ListTyped
  <2>2. CASE page = 1 /\ snapshot # Null
    <3>1. FirstRows(selected, snapshot) \in PageRows
      BY <2>2, FirstRowsTyped DEF Typed, ListTyped, LiveTyped
    <3>2. ApplyPage(0, FirstRows(selected, snapshot)) /\ load' = Null
      BY <1>4, <2>2 DEF PreviousPage
    <3>3. ListTyped'
      BY <2>1, <3>1, <3>2, AppliedTyped DEF Typed
    <3> QED
      BY <1>1, <1>4, <3>3, ServerStays, LiveStays DEF PreviousPage, Typed
  <2>3. CASE ~(page = 1 /\ snapshot # Null)
    <3>1. ListTyped'
      BY <1>4, <2>1, <2>3, RequestTyped DEF PreviousPage, Typed, ListTyped
    <3> QED
      BY <1>1, <1>4, <3>1, ServerStays, LiveStays DEF PreviousPage, Typed
  <2> QED
    BY <2>2, <2>3
<1>5. ASSUME NEW p \in Pools, SwitchPool(p) PROVE Typed'
  <2>1. ServerTyped'
    BY <1>5, UnaddressedTyped, PushesStay DEF SwitchPool, Typed, ServerTyped
  <2>2. LiveTyped'
    BY <1>5, DetachedTyped DEF SwitchPool, Typed
  <2>3. ListTyped'
    BY <1>5, FirstCursor DEF SwitchPool, EmptyPage, Typed, ListTyped, Cursors
  <2> QED
    BY <1>1, <2>1, <2>2, <2>3 DEF Typed
<1> QED
  BY <1>2, <1>3, <1>4, <1>5 DEF Click

LEMMA TypedKept == LiveInv /\ Typed /\ [Next]_vars => Typed'
<1> SUFFICES ASSUME LiveInv, Typed, [Next]_vars PROVE Typed'
  OBVIOUS
<1>1. CASE UNCHANGED vars
  BY <1>1, ServerStays, LiveStays, ListStays, SpentStays DEF vars, Typed
<1>2. CASE (\E p \in Pools : Change(p) \/ ChangeUntold(p)) \/ Serve
  BY <1>2, ServeTyped, PushTyped DEF Serve
<1>3. CASE Attend
  BY <1>3, SocketTyped
<1>4. CASE Receive \/ ReadPage \/ LoadReplies
  BY <1>4, ReceiveTyped, RowsTyped
<1>5. CASE Fail
  BY <1>5, ServeTyped, PushTyped, RestartTyped, SocketTyped, RowsTyped DEF Fail
<1>6. CASE Click
  BY <1>6, ClickTyped
<1> QED
  BY <1>1, <1>2, <1>3, <1>4, <1>5, <1>6 DEF Next

(* Every variable has its type: in particular no pool is ever given more numbers
   than it has changes, and no board is sent a snapshot without both. *)
THEOREM DirectoryTypeCorrect == Spec => []TypeOK
  BY InitFits, NextKeeps, LiveInit, NextKeepsLive, TypedStart, TypedKept, TypedFits, PTL DEF Spec
=============================================================================
