---------------------------- MODULE AdminConsole ----------------------------
(***************************************************************************)
(* The self-hosted administrator: the password and the sessions it opens,   *)
(* the script that resets it, the rate limit of the sign-in, and the list   *)
(* of players in the browser, whose every request is authenticated.         *)
(*                                                                         *)
(* Sessions live in Redis or in the memory of the one server process; the   *)
(* password hash and the session generation are two rows of the database,   *)
(* read side by side and written one by one by the server's first start,   *)
(* together by the reset.  A hash is salted: every write of it is a new one,*)
(* and so stands for the password it was made of.                           *)
(***************************************************************************)
EXTENDS Integers, Sequences, FiniteSets

CONSTANTS
    Slots,      \* requests in progress at a time
    None,       \* no value
    Keys,       \* client addresses that sign in
    Queries,    \* searches of the list
    NoQuery,    \* the empty search
    Pages,      \* pages a search finds
    Limit,      \* sign-ins a minute (10 in the code)
    MaxKeys,    \* entries of the memory rate limiter (10000)
    SweepEvery, \* calls between its sweeps (256)
    Window,     \* ticks a rate limit lasts
    TTL,        \* ticks a session lasts unused
    MaxLive,    \* sessions the memory store holds (4096)
    Scenes,     \* bounds: how the system starts and how often what happens
    MaxSids     \* bound: sessions ever opened

Kinds == {"login", "logout", "open", "search", "next", "previous", "refresh",
          "ban", "reset", "restart", "fault", "tick"}
Sids == 1..MaxSids

(* What is stored: a session (of: the password hash its login verified) and a
   client's window; and a cursor of the list. *)
Session == [generation : Nat, of : Nat, until : Nat]
Minute == [count : Nat \ {0}, until : Nat]
Cursor == [query : Queries, page : 1..(Pages - 1)]

ASSUME ConsoleAssumption ==
    /\ NoQuery \in Queries /\ None \notin Slots \cup Keys \cup Queries
    /\ None \notin Session \cup Minute \cup Cursor /\ IsFiniteSet(Keys)
    /\ Pages \in Nat \ {0} /\ Limit \in Nat \ {0} /\ MaxKeys \in Nat \ {0}
    /\ SweepEvery \in Nat \ {0} /\ Window \in Nat \ {0} /\ TTL \in Nat \ {0}
    /\ MaxLive \in Nat \ {0} /\ MaxSids \in Nat \ {0}
    /\ Scenes \subseteq [backend : {"redis", "memory"}, signedIn : BOOLEAN, left : [Kinds -> Nat]]

VARIABLES
    backend,     \* of the sessions and the rate limits
    hash, generation,  \* admin_password_hash, admin_session_generation; 0 is no row
    boot,        \* what the starting server still has to write
    store, index, opened,  \* sessions, admin:sessions, sessions ever opened
    windows, operations, now,  \* rate limiter and clock
    script,      \* the reset script, and the sessions it still has to delete
    cookie, over,  \* the browser's cookie, sessions signed out
    ui,          \* the list of players in the browser
    call, left,
    refusals     \* sign-ins the rate limit refused

settings == <<hash, generation, boot>>
sessions == <<store, index, opened>>
limiter == <<windows, operations, refusals>>
browser == <<cookie, over, ui>>
vars == <<backend, settings, sessions, limiter, now, script, browser, call, left>>

(* state of useAdminList.  here: the console is shown; items: whose first row
   stands for the page; failed: the last load did.  muddled: see ListIsItsPage. *)
Away == [here |-> FALSE, busy |-> FALSE, cursor |-> None, next |-> None, previous |-> <<>>,
         query |-> NoQuery, pending |-> None, items |-> None, failed |-> FALSE, muddled |-> FALSE]

(* A request.  todo: rows it still reads; read, again: what it read the first and
   the second time; since: the password hash when it began; gone: its session
   had been signed out; then: what the page does with the list; held: the
   cursor shown when the next page was asked for. *)
Nothing == [hash |-> 0, generation |-> 0, session |-> None]
Idle == [op |-> "none", at |-> "idle", todo |-> {}, read |-> Nothing, again |-> Nothing,
         typed |-> 0, sid |-> None, since |-> 0, gone |-> FALSE,
         query |-> NoQuery, cursor |-> None, then |-> "plain", held |-> None]

Live(sid) == sid \in Sids /\ store[sid] # None /\ store[sid].until > now

Spend(kind) == left[kind] > 0 /\ left' = [left EXCEPT ![kind] = @ - 1]
At(s, op, step) == call[s].op = op /\ call[s].at = step
Goes(s, step) == call' = [call EXCEPT ![s].at = step]
Ends(s) == call' = [call EXCEPT ![s] = Idle]

-----------------------------------------------------------------------------
(* Password, generation and the server's first start *)

(* bootstrap: a hash that is there is left alone, and then the generation too.
   The new hash takes its time to compute: what was read may be stale. *)
Bootstrap ==
    \/ /\ boot = "look" /\ boot' = IF hash = 0 THEN "hash" ELSE "done"
       /\ UNCHANGED <<hash, generation>>
    \/ /\ boot = "hash" /\ boot' = "recall" /\ hash' = hash + 1
       /\ UNCHANGED generation
    \/ /\ boot = "recall" /\ boot' = IF generation = 0 THEN "generation" ELSE "done"
       /\ UNCHANGED <<hash, generation>>
    \/ /\ boot = "generation" /\ boot' = "done" /\ generation' = generation + 1
       /\ UNCHANGED hash

ServerStarts ==
    /\ Bootstrap
    /\ UNCHANGED <<backend, sessions, limiter, now, script, browser, call, left>>

(* The process dies and starts again: it loses what it kept in memory, and the
   requests it was serving fail in the browser. *)
Restart ==
    /\ Spend("restart")
    /\ boot' = "look"
    /\ call' = [s \in Slots |-> IF call[s].op \in {"list", "ban"}
                                THEN [call[s] EXCEPT !.at = "failed"] ELSE Idle]
    /\ IF backend = "memory"
       THEN /\ store' = [sid \in Sids |-> None] /\ index' = {}
            /\ windows' = [k \in Keys |-> None] /\ operations' = 0
       ELSE UNCHANGED <<store, index, windows, operations>>
    /\ UNCHANGED <<backend, hash, generation, opened, refusals, now, script, browser>>

(* The script writes both rows in one transaction, and goes on to the index if
   the sessions are in Redis. *)
NewPassword == hash' = hash + 1 /\ generation' = generation + 1

Script(at, sids) == script' = [at |-> at, sids |-> sids]

ResetPassword ==
    /\ script.at = "idle" /\ Spend("reset")
    /\ NewPassword
    /\ Script(IF backend = "redis" THEN "index" ELSE "idle", {})
    /\ UNCHANGED <<backend, boot, sessions, limiter, now, browser, call>>

SweepSessions ==
    /\ \/ /\ script.at = "index" /\ Script(IF index = {} THEN "idle" ELSE "delete", index)
          /\ UNCHANGED <<store, index>>
       \/ \E sid \in script.sids :
             /\ store' = [store EXCEPT ![sid] = None]
             /\ IF script.sids = {sid} THEN index' = {} /\ Script("idle", {})
                ELSE UNCHANGED index /\ Script("delete", script.sids \ {sid})
    /\ UNCHANGED <<backend, settings, opened, limiter, now, browser, call, left>>

-----------------------------------------------------------------------------
(* Rate limit: one window per client address *)

Swept(w) == [k \in Keys |-> IF w[k] # None /\ w[k].until <= now THEN None ELSE w[k]]
Size(w) == Cardinality({k \in Keys : w[k] # None})
Counted(w, k) ==
    [w EXCEPT ![k] = IF w[k] = None THEN [count |-> 1, until |-> now + Window]
                                    ELSE [count |-> w[k].count + 1, until |-> w[k].until]]

(* The memory limiter's table after a call of k: its windows are dropped every
   SweepEvery calls, when their own key is asked for, and when it is full. *)
OwnDropped(w, k) == [w EXCEPT ![k] = Swept(w)[k]]

(* Mutant of MakeRoom: expired windows stay when the table is full. *)
LeftFull(w, k) == w

MakeRoom(w, k) == IF w[k] = None /\ Size(w) >= MaxKeys THEN Swept(w) ELSE w
MemoryAllow(k) ==
    LET asked == IF operations + 1 = SweepEvery THEN Swept(windows) ELSE windows
        room  == MakeRoom(OwnDropped(asked, k), k)
    IN  /\ operations' = (operations + 1) % SweepEvery
        /\ windows' = IF room[k] = None /\ Size(room) >= MaxKeys THEN room ELSE Counted(room, k)

(* Redis drops a window when its time is up. *)
RedisAllow(k) == windows' = Counted(Swept(windows), k) /\ UNCHANGED operations

Allow(k) == IF backend = "memory" THEN MemoryAllow(k) ELSE RedisAllow(k)

-----------------------------------------------------------------------------
(* Requests of the browser *)

Asked(op) == [Idle EXCEPT !.op = op, !.at = "read", !.todo = {"session", "generation"},
                          !.sid = cookie, !.since = hash, !.gone = cookie \in over]
Listing(query, cursor, then, held) ==
    [Asked("list") EXCEPT !.query = query, !.cursor = cursor, !.then = then, !.held = held]

OfPage(c) == c.op \in {"list", "ban"}
PageLeft == [s \in Slots |-> IF OfPage(call[s]) THEN Idle ELSE call[s]]

(* The console is opened: a new page, and its first load. *)
ConsoleOpens(s) ==
    /\ ui' = [Away EXCEPT !.here = TRUE, !.busy = TRUE]
    /\ call' = [PageLeft EXCEPT ![s] = Listing(NoQuery, None, "plain", None)]

Idles(s) == call[s] = Idle

(* The rows are read side by side. *)
Row(c, name) ==
    CASE name = "hash" -> hash
      [] name = "generation" -> generation
      [] name = "session" -> IF Live(c.sid) THEN store[c.sid] ELSE None

ReadRow(s) ==
    /\ boot = "done"
    /\ \E name \in call[s].todo :
          call' = [call EXCEPT
              ![s].todo = @ \ {name},
              ![s].read = IF call[s].at = "read" THEN [@ EXCEPT ![name] = Row(call[s], name)] ELSE @,
              ![s].again = IF call[s].at = "again" THEN [@ EXCEPT ![name] = Row(call[s], name)] ELSE @]
    /\ UNCHANGED <<backend, settings, sessions, limiter, now, script, browser, left>>

-----------------------------------------------------------------------------
(* Sign-in and sign-out *)

Login(s) ==
    /\ boot = "done" /\ Idles(s) /\ Spend("login")
    /\ \E k \in Keys, typed \in 1..hash :
          /\ Allow(k)
          /\ IF windows'[k] # None /\ windows'[k].count <= Limit
             THEN /\ call' = [call EXCEPT ![s] = [Idle EXCEPT !.op = "login", !.at = "read",
                                                     !.todo = {"hash", "generation"}, !.typed = typed]]
                  /\ UNCHANGED refusals
             ELSE refusals' = [refusals EXCEPT ![k] = @ + 1] /\ UNCHANGED call
    /\ UNCHANGED <<backend, settings, sessions, now, script, browser>>

CheckPassword(s) ==
    /\ At(s, "login", "read") /\ call[s].todo = {}
    /\ call' = [call EXCEPT ![s] =
                  IF @.read.hash # 0 /\ @.read.hash = @.typed
                  THEN [@ EXCEPT !.at = "again", !.todo = {"hash", "generation"}] ELSE Idle]
    /\ UNCHANGED <<backend, settings, sessions, limiter, now, script, browser, left>>

(* Mutant of StillCurrent: the rows are not read a second time. *)
OnceIsEnough(c) == TRUE

StillCurrent(c) == c.again = c.read

CheckAgain(s) ==
    /\ At(s, "login", "again") /\ call[s].todo = {}
    /\ IF StillCurrent(call[s]) THEN Goes(s, "set") ELSE Ends(s)
    /\ UNCHANGED <<backend, settings, sessions, limiter, now, script, browser, left>>

(* The memory store drops what has expired first, and takes MaxLive sessions. *)
Kept == [sid \in Sids |-> IF backend = "memory" /\ ~Live(sid) THEN None ELSE store[sid]]
Full == backend = "memory" /\ Cardinality({sid \in Sids : Kept[sid] # None}) >= MaxLive

StoreSession(s) ==
    /\ At(s, "login", "set") /\ opened < MaxSids
    /\ IF Full
       THEN store' = Kept /\ Ends(s) /\ UNCHANGED opened
       ELSE /\ opened' = opened + 1
            /\ store' = [Kept EXCEPT ![opened + 1] = [generation |-> call[s].read.generation,
                                                      of |-> call[s].typed, until |-> now + TTL]]
            /\ call' = [call EXCEPT ![s].at = "index", ![s].sid = opened + 1]
    /\ index' = IF backend = "memory" THEN {sid \in index : Kept[sid] # None} ELSE index
    /\ UNCHANGED <<backend, settings, limiter, now, script, browser, left>>

(* The answer sets the cookie, and the sign-in page goes to the console. *)
IndexSession(s) ==
    /\ At(s, "login", "index")
    /\ index' = index \cup {call[s].sid}
    /\ cookie' = call[s].sid
    /\ ui' = [Away EXCEPT !.here = TRUE, !.busy = TRUE]
    /\ call' = [PageLeft EXCEPT ![s] = [Listing(NoQuery, None, "plain", None) EXCEPT
                                          !.sid = call[s].sid, !.gone = FALSE]]
    /\ UNCHANGED <<backend, settings, store, opened, limiter, now, script, over, left>>

Logout(s) ==
    /\ boot = "done" /\ Idles(s) /\ cookie # None /\ Spend("logout")
    /\ call' = [call EXCEPT ![s] = [Idle EXCEPT !.op = "logout", !.at = "del", !.sid = cookie]]
    /\ UNCHANGED <<backend, settings, sessions, limiter, now, script, browser>>

(* A Redis that fails is ignored: the session lives on, without its cookie. *)
DeleteSession(s) ==
    /\ At(s, "logout", "del") /\ Goes(s, "rem")
    /\ \/ /\ store' = [store EXCEPT ![call[s].sid] = None]
          /\ index' = IF backend = "memory" THEN index \ {call[s].sid} ELSE index
          /\ over' = over \cup {call[s].sid}
          /\ UNCHANGED left
       \/ backend = "redis" /\ Spend("fault") /\ UNCHANGED <<store, index, over>>
    /\ UNCHANGED <<backend, settings, opened, limiter, now, script, cookie, ui>>

ForgetSession(s) ==
    /\ At(s, "logout", "rem") /\ Ends(s)
    /\ index' = index \ {call[s].sid}
    /\ cookie' = None
    /\ UNCHANGED <<backend, settings, store, opened, limiter, now, script, over, ui, left>>

-----------------------------------------------------------------------------
(* Every other request is authenticated first *)

SessionMatches(c) == c.read.session # None /\ c.read.session.generation = c.read.generation

(* A request refused for its session takes its page to the sign-in.  expire
   reads the session and sets it again: one step here, as the read it awaits in
   between is answered at once by the memory store, and EXPIRE is one command. *)
Authenticate(s) ==
    /\ OfPage(call[s]) \/ call[s].op = "session"
    /\ call[s].at = "read" /\ call[s].todo = {}
    /\ IF SessionMatches(call[s]) /\ Live(call[s].sid)
       THEN /\ store' = [store EXCEPT ![call[s].sid].until = now + TTL]
            /\ Goes(s, "accepted")
            /\ UNCHANGED ui
       ELSE /\ IF OfPage(call[s]) THEN ui' = Away /\ call' = PageLeft ELSE Ends(s) /\ UNCHANGED ui
            /\ UNCHANGED store
    /\ UNCHANGED <<backend, settings, index, opened, limiter, now, script, cookie, over, left>>

RequestFails(s) ==
    /\ call[s].at \in {"read", "again", "accepted", "set", "index"} /\ Spend("fault")
    /\ IF OfPage(call[s]) THEN Goes(s, "failed") ELSE Ends(s)
    /\ UNCHANGED <<backend, settings, sessions, limiter, now, script, browser>>

-----------------------------------------------------------------------------
(* The page *)

OpenConsole(s) ==
    /\ Idles(s) /\ Spend("open") /\ ConsoleOpens(s)
    /\ UNCHANGED <<backend, settings, sessions, limiter, now, script, cookie, over>>

(* The sign-in page goes on to the console if its session is good. *)
CheckSession(s) ==
    /\ ~ui.here /\ Idles(s) /\ Spend("open")
    /\ call' = [call EXCEPT ![s] = Asked("session")]
    /\ UNCHANGED <<backend, settings, sessions, limiter, now, script, browser>>

SignedInAlready(s) ==
    /\ At(s, "session", "accepted") /\ ConsoleOpens(s)
    /\ UNCHANGED <<backend, settings, sessions, limiter, now, script, cookie, over, left>>

(* loadList of a page that is not busy *)
Loads(s, page, cursor, then, held) ==
    /\ Idles(s)
    /\ ui' = [page EXCEPT !.busy = TRUE]
    /\ call' = [call EXCEPT ![s] = Listing(page.query, cursor, then, held)]
    /\ UNCHANGED <<backend, settings, sessions, limiter, now, script, cookie, over>>

(* Mutant of Searching: the way back of the old search is kept. *)
KeepsWayBack(page, query) == [page EXCEPT !.query = query]

Searching(page, query) == [page EXCEPT !.query = query, !.previous = <<>>]

Search(s, query) ==
    /\ ui.here /\ Spend("search")
    /\ IF ui.busy
       THEN /\ ui' = [ui EXCEPT !.pending = query]
            /\ UNCHANGED <<backend, settings, sessions, limiter, now, script, cookie, over, call>>
       ELSE Loads(s, Searching(ui, query), None, "plain", None)

OnNext(s) ==
    /\ ui.here /\ ~ui.busy /\ ui.next # None /\ Spend("next")
    /\ Loads(s, ui, ui.next, "next", ui.cursor)

OnPrevious(s) ==
    /\ ui.here /\ ~ui.busy /\ ui.previous # <<>> /\ Spend("previous")
    /\ Loads(s, ui, ui.previous[Len(ui.previous)], "previous", None)

(* refreshCurrent: the page shown is asked for again. *)
Refresh(s) ==
    /\ ui.here /\ ~ui.busy /\ Spend("refresh")
    /\ Loads(s, ui, ui.cursor, "plain", None)

(* playerAction: the player is banned or pardoned, then the list loaded again. *)
PlayerAction(s) ==
    /\ ui.here /\ ~ui.busy /\ Idles(s) /\ Spend("ban")
    /\ ui' = [ui EXCEPT !.busy = TRUE]
    /\ call' = [call EXCEPT ![s] = Asked("ban")]
    /\ UNCHANGED <<backend, settings, sessions, limiter, now, script, cookie, over>>

PlayerActionDone(s) ==
    /\ \/ /\ At(s, "ban", "accepted")
          /\ ui' = [ui EXCEPT !.busy = TRUE, !.previous = <<>>]
          /\ call' = [call EXCEPT ![s] = Listing(ui.query, None, "action", None)]
       \/ /\ At(s, "ban", "failed")
          /\ ui' = [ui EXCEPT !.busy = FALSE, !.muddled = @ \/ ui.pending # None]
          /\ Ends(s)
    /\ UNCHANGED <<backend, settings, sessions, limiter, now, script, cookie, over, left>>

(* listPlayers: a cursor belongs to its query. *)
PageAfter(cursor) == IF cursor = None THEN 1 ELSE cursor.page + 1
ValidCursor(cursor, query) == cursor = None \/ cursor.query = query

(* Mutant of NextCursor: a full last page has a next page. *)
OnePageMore(cursor, query) ==
    IF PageAfter(cursor) <= Pages THEN [query |-> query, page |-> PageAfter(cursor)] ELSE None

NextCursor(cursor, query) ==
    IF PageAfter(cursor) < Pages THEN [query |-> query, page |-> PageAfter(cursor)] ELSE None

Loaded(c) ==
    [ui EXCEPT !.cursor = c.cursor, !.next = NextCursor(c.cursor, c.query), !.failed = FALSE,
               !.items = [query |-> c.query, page |-> PageAfter(c.cursor)]]

(* loadList's finally: the search that waited goes first *)
Finally(page) ==
    IF page.pending = None THEN [page EXCEPT !.busy = FALSE]
    ELSE [Searching(page, page.pending) EXCEPT !.pending = None, !.busy = TRUE]

(* what the caller of loadList does then *)
Continued(page, c, ok) ==
    CASE c.then = "action" -> [page EXCEPT !.busy = FALSE]
      [] c.then = "next" /\ ok /\ page.query = c.query /\ c.held # None ->
            [page EXCEPT !.previous = Append(@, c.held)]
      [] c.then = "previous" /\ ok /\ page.query = c.query /\ page.previous # <<>> ->
            [page EXCEPT !.previous = SubSeq(@, 1, Len(@) - 1)]
      [] OTHER -> page

(* A page of the query is shown to which there must be a way back. *)
StaysBeyond(query) == ui.cursor # None /\ ui.cursor.query = query /\ ui.cursor.page > 1

(* where the page's own order of events goes wrong; see ListIsItsPage *)
Muddles(c, ok) ==
    \/ c.then = "action" /\ ui.pending # None
    \/ c.then = "next" /\ ui.pending = c.query
    \/ ~ok /\ c.cursor = None /\ ui.pending = None /\ StaysBeyond(c.query)

ListAnswered(s) ==
    LET c    == call[s]
        ok   == c.at = "accepted" /\ ValidCursor(c.cursor, c.query)
        page == IF ok THEN Loaded(c) ELSE [ui EXCEPT !.failed = TRUE]
    IN  /\ c.op = "list" /\ c.at \in {"accepted", "failed"}
        /\ ui' = [Continued(Finally(page), c, ok) EXCEPT !.muddled = @ \/ Muddles(c, ok)]
        /\ call' = [call EXCEPT ![s] = IF ui.pending = None THEN Idle
                                       ELSE Listing(ui.pending, None, "plain", None)]
        /\ UNCHANGED <<backend, settings, sessions, limiter, now, script, cookie, over, left>>

Tick ==
    /\ Spend("tick") /\ now' = now + 1
    /\ UNCHANGED <<backend, settings, sessions, limiter, script, browser, call>>

-----------------------------------------------------------------------------
(* A scene starts on an empty database, or with the console open and signed in. *)
Init ==
    /\ \E scene \in Scenes :
          /\ backend = scene.backend /\ left = scene.left
          /\ IF scene.signedIn
             THEN /\ hash = 1 /\ generation = 1 /\ boot = "done"
                  /\ opened = 1 /\ index = {1} /\ cookie = 1
                  /\ store = [sid \in Sids |-> IF sid = 1 THEN [generation |-> 1, of |-> 1, until |-> TTL]
                                                          ELSE None]
             ELSE /\ hash = 0 /\ generation = 0 /\ boot = "look"
                  /\ opened = 0 /\ index = {} /\ cookie = None /\ store = [sid \in Sids |-> None]
    /\ windows = [k \in Keys |-> None] /\ operations = 0 /\ now = 0
    /\ script = [at |-> "idle", sids |-> {}] /\ over = {} /\ ui = Away
    /\ call = [s \in Slots |-> Idle]
    /\ refusals = [k \in Keys |-> 0]

SignIn(s) ==
    \/ Login(s) \/ ReadRow(s) \/ CheckPassword(s) \/ CheckAgain(s) \/ StoreSession(s)
    \/ IndexSession(s) \/ Logout(s) \/ DeleteSession(s) \/ ForgetSession(s)
    \/ Authenticate(s) \/ RequestFails(s)

Page(s) ==
    \/ OpenConsole(s) \/ CheckSession(s) \/ SignedInAlready(s)
    \/ \E query \in Queries : Search(s, query)
    \/ OnNext(s) \/ OnPrevious(s) \/ Refresh(s) \/ PlayerAction(s) \/ PlayerActionDone(s) \/ ListAnswered(s)

Next ==
    \/ ServerStarts \/ Restart \/ ResetPassword \/ SweepSessions \/ Tick
    \/ \E s \in Slots : SignIn(s) \/ Page(s)

Spec == Init /\ [][Next]_vars

-----------------------------------------------------------------------------
(* Properties *)

TypeOK ==
    /\ hash \in Nat /\ generation \in Nat
    /\ boot \in {"look", "hash", "recall", "generation", "done"}
    /\ store \in [Sids -> Session \cup {None}] /\ index \subseteq 1..opened /\ opened <= MaxSids
    /\ windows \in [Keys -> Minute \cup {None}]
    /\ operations \in 0..(SweepEvery - 1) /\ (backend = "memory" => Size(windows) <= MaxKeys)
    /\ script.at \in {"idle", "index", "delete"} /\ script.sids \subseteq 1..opened
    /\ cookie \in (1..opened) \cup {None} /\ over \subseteq 1..opened
    /\ ui.previous \in Seq(Cursor) /\ {ui.cursor, ui.next} \subseteq Cursor \cup {None}
    /\ \A s \in Slots : call[s].op \in {"none", "login", "logout", "list", "ban", "session"}

(* Whoever is let in holds a session whose password is not older than the
   request, and which had not been signed out before it: a reset ends every
   session (README.md:298), whatever the order in which a sign-in and a request
   read the two rows (password.ts 119-130). *)
SessionIsCurrent ==
    \A s \in Slots : call[s].at = "accepted" =>
        call[s].read.session.of >= call[s].since /\ ~call[s].gone

(* A sign-in is refused only if its address used its minute up, or if the table
   of the memory limiter is full of minutes that still run. *)
Running(w) == {k \in Keys : w[k] # None /\ w[k].until > now}
RefusalIsDeserved ==
    [][\A k \in Keys : refusals'[k] # refusals[k] =>
          \/ k \in Running(windows) /\ windows[k].count >= Limit
          \/ k \notin Running(windows) /\ Cardinality(Running(windows)) >= MaxKeys]_vars

(* What the console shows is one page of the search in its box, with the way on
   and the way back that belong to it; and it is busy exactly while one request
   of its own is under way, however clicks, answers, failures and a search that
   has to wait come together.  Known exceptions (admin.ts:132-162,
   AdminApp.vue:47-57), after which nothing is claimed until the console is
   opened again: a search that waited for a ban; the same search sent again while
   the next page loads; and a search repeated from the third page on, or a ban's
   list, that fails to load, which loses the way back of the page that stays.
   After a load that failed nothing is said of the rows that stay either, only
   of the requests. *)
WayBack(page) ==
    [i \in 1..(PageAfter(page.cursor) - 2) |-> [query |-> page.query, page |-> i]]
Shown(page) ==
    /\ page.items = [query |-> page.query, page |-> PageAfter(page.cursor)]
    /\ ValidCursor(page.cursor, page.query)
    /\ page.next = NextCursor(page.cursor, page.query)
    /\ page.previous = WayBack(page)

Requests == {s \in Slots : OfPage(call[s])}
ListIsItsPage ==
    ui.here /\ ~ui.muddled =>
        /\ ui.busy <=> Requests # {}
        /\ Cardinality(Requests) <= 1
        /\ ~ui.busy => ui.pending = None /\ (ui.failed \/ Shown(ui))
=============================================================================
