-------------------------- MODULE AdminConsole_proofs --------------------------
(***************************************************************************)
(* A request is let in only with a session of the password there was when   *)
(* the request began, or of a later one; a sign-in is refused only when it  *)
(* has to be; and the list of players is one page of one search: for any    *)
(* number of requests, sign-ins, resets, restarts and failures.             *)
(*                                                                         *)
(* The first argument is about the pair of rows.  Once the server has       *)
(* started for the first time, every change of the hash is a reset, which   *)
(* changes the generation with it.  So two readings of the pair that were   *)
(* the rows at one moment each are at the same distance of hash and         *)
(* generation, and the one with the newer generation has the newer hash.    *)
(*                                                                         *)
(* The last is about the page and its one request: what the request asked   *)
(* for is the first page, the page shown, or a neighbour of it, and the way *)
(* back is that of the page shown until the answer is there (Awaits).       *)
(***************************************************************************)
EXTENDS AdminConsole, FiniteSetTheorems, SequenceTheorems, TLAPS

(* The first start is over, but for its mark. *)
Settled == boot = "done" \/ (boot = "look" /\ hash # 0)

(* g and h were the generation and the hash at one moment, or could have been. *)
Level(g, h) == h + generation = hash + g

Reading == [hash : Nat, generation : Nat, session : Session \cup {None}]

(* A request has its fields; what the page keeps in it does not matter. *)
Request(c) ==
    c \in [op : {c.op}, at : {c.at}, todo : SUBSET {"session", "generation", "hash"},
           read : Reading, again : Reading, typed : Nat, sid : {c.sid}, since : Nat,
           gone : BOOLEAN, query : {c.query}, cursor : {c.cursor}, then : {c.then},
           held : {c.held}]

(* Before the first start is over nothing has been read. *)
Unread(c) ==
    /\ c.op # "login" /\ c.read.session = None /\ c.at # "accepted"
    /\ c.at = "read" => "generation" \in c.todo

(* The second reading of a sign-in, as far as it got, vouches for the first. *)
Confirms(c) ==
    /\ c.typed = c.read.hash
    /\ "hash" \notin c.todo /\ c.again.hash = c.read.hash
          => c.read.generation + hash <= generation + c.read.hash
    /\ "generation" \notin c.todo /\ c.again.generation = c.read.generation
          => c.read.hash + generation <= hash + c.read.generation

SignsIn(c) ==
    /\ c.op = "login" => c.read.hash <= hash /\ c.read.generation <= generation /\ ~c.gone
    /\ c.at \in {"again", "set"} => c.op = "login"
    /\ c.at = "again" => Confirms(c)
    /\ c.at = "set" => Level(c.read.generation, c.typed)

(* The generation read is not older than the hash the request began with. *)
Recent(c) ==
    c.op # "login" /\ (c.at = "accepted" \/ (c.at = "read" /\ "generation" \notin c.todo))
        => c.since + generation <= c.read.generation + hash

LetIn(c) ==
    c.at = "accepted" =>
        /\ c.op # "login" /\ ~c.gone
        /\ c.read.session # None /\ c.read.session.generation = c.read.generation

Sound(c) ==
    /\ Request(c)
    /\ ~Settled => Unread(c)
    /\ c.read.session # None => Level(c.read.session.generation, c.read.session.of)
    /\ c.since <= hash
    /\ c.gone => c.sid \in over
    /\ c.op = "logout" \/ c.at = "index" => c.sid \in 1..opened
    /\ SignsIn(c) /\ Recent(c) /\ LetIn(c)

Calls == \A s \in Slots : Sound(call[s])

Types ==
    /\ hash \in Nat /\ generation \in Nat /\ opened \in Nat /\ now \in Nat
    /\ boot \in {"look", "hash", "recall", "generation", "done"}
    /\ boot \in {"recall", "generation", "done"} => hash # 0
    /\ store \in [Sids -> Session \cup {None}]
    /\ over \subseteq 1..opened
    /\ cookie \in (1..opened) \cup {None}
    /\ call = [s \in Slots |-> call[s]]

(* A session is of one moment, and is gone once it was signed out. *)
Stored ==
    \A sid \in Sids : store[sid] # None =>
        Settled /\ Level(store[sid].generation, store[sid].of) /\ sid \notin over

Inv == Types /\ Stored /\ Calls

-----------------------------------------------------------------------------
LEMMA IdleSound ==
  ASSUME Types
  PROVE  Sound(Idle)
<1>1. Request(Idle)
  BY DEF Request, Idle, Nothing, Reading
<1> QED
  BY <1>1 DEF Types, Sound, Idle, Nothing, Unread, SignsIn, Recent, LetIn

LEMMA InitSound == Init => Inv
<1> SUFFICES ASSUME Init PROVE Inv
  OBVIOUS
<1> USE ConsoleAssumption
<1>1. PICK scene \in Scenes :
         IF scene.signedIn
         THEN /\ hash = 1 /\ generation = 1 /\ boot = "done"
              /\ opened = 1 /\ index = {1} /\ cookie = 1
              /\ store = [sid \in Sids |-> IF sid = 1 THEN [generation |-> 1, of |-> 1, until |-> TTL]
                                                      ELSE None]
         ELSE /\ hash = 0 /\ generation = 0 /\ boot = "look"
              /\ opened = 0 /\ index = {} /\ cookie = None /\ store = [sid \in Sids |-> None]
  BY DEF Init
<1>2. Types
  BY <1>1 DEF Init, Types, Session
<1>3. Stored
  BY <1>1 DEF Init, Stored, Settled, Level
<1>4. Calls
  BY <1>2, IdleSound DEF Init, Calls
<1> QED
  BY <1>2, <1>3, <1>4 DEF Inv

(* Where the rows stay as they are, what was sound is sound. *)
Calm ==
    /\ UNCHANGED <<hash, generation>> /\ (Settled => Settled')
    /\ over \subseteq over' /\ opened' >= opened

LEMMA OthersSound ==
  ASSUME Inv, Types', Calm,
         \A s \in Slots : call'[s] \in {call[s], Idle} \/ Sound(call[s])'
  PROVE  Calls'
<1> SUFFICES ASSUME NEW s \in Slots PROVE Sound(call[s])'
  BY DEF Calls
<1>1. CASE call'[s] = call[s]
  <2>1. Sound(call[s])
    BY DEF Inv, Calls
  <2> QED
    BY <1>1, <2>1 DEF Inv, Types, Calm, settings, Sound, Request, Unread, Settled, Level,
       SignsIn, Confirms, Recent, LetIn
<1>2. CASE call'[s] = Idle
  <2>1. Sound(Idle)'
    BY IdleSound, PTL
  <2> QED
    BY <1>2, <2>1
<1> QED
  BY <1>1, <1>2

LEMMA StoreSound ==
  ASSUME Inv, Calm, UNCHANGED <<store, over>>
  PROVE  Stored'
BY DEF Inv, Stored, Calm, settings, Settled, Level

(* A step that changes one slot, and drops others, keeps the rest sound. *)
OneSlot(s) ==
    /\ call' = [t \in Slots |-> call'[t]]
    /\ \A t \in Slots \ {s} : call'[t] \in {call[t], Idle}

LEMMA PlainSlot ==
  ASSUME Types, NEW s \in Slots, NEW c, call' = [call EXCEPT ![s] = c]
  PROVE  OneSlot(s) /\ call'[s] = c
BY DEF Types, OneSlot

LEMMA LeftSlot ==
  ASSUME Types, NEW s \in Slots, NEW c, call' = [PageLeft EXCEPT ![s] = c]
  PROVE  OneSlot(s) /\ call'[s] = c
BY DEF Types, OneSlot, PageLeft

LEMMA SlotKeeps ==
  ASSUME Inv, Calm, UNCHANGED <<boot, sessions, now, cookie, over>>,
         NEW s \in Slots, OneSlot(s), Sound(call[s])' \/ call'[s] \in {call[s], Idle}
  PROVE  Inv'
<1>1. Types'
  BY DEF Inv, Types, Calm, settings, sessions, OneSlot
<1>2. Stored'
  BY StoreSound DEF sessions
<1>3. Calls'
  BY <1>1, OthersSound DEF OneSlot
<1> QED
  BY <1>1, <1>2, <1>3 DEF Inv

-----------------------------------------------------------------------------
(* Requests that begin. *)

Begun(c) ==
    /\ c.op \in {"list", "ban", "session"} /\ c.at = "read"
    /\ c.todo = {"session", "generation"} /\ c.read.session = None /\ c.since = hash
    /\ Request(c)

(* The fields of a request that has just begun. *)
Fresh(op, query, cursor, then, held) ==
    [op : {op}, at : {"read"}, todo : {{"session", "generation"}},
     read : {Nothing}, again : {Nothing}, typed : {0}, sid : {cookie}, since : {hash},
     gone : {(cookie \in over)}, query : {query}, cursor : {cursor}, then : {then}, held : {held}]

LEMMA AskedFresh ==
  ASSUME NEW op
  PROVE  Asked(op) \in Fresh(op, NoQuery, None, "plain", None)
<1> DEFINE Former ==
             [op : {op, "none"}, at : {"read", "idle"}, todo : {{"session", "generation"}, {}},
              read : {Nothing}, again : {Nothing}, typed : {0}, sid : {cookie, None},
              since : {hash, 0}, gone : {(cookie \in over), FALSE}, query : {NoQuery},
              cursor : {None}, then : {"plain"}, held : {None}]
<1>1. Idle \in Former
  BY DEF Idle
<1> QED
  BY <1>1 DEF Asked, Fresh

LEMMA ListingFresh ==
  ASSUME NEW query, NEW cursor, NEW then, NEW held
  PROVE  Listing(query, cursor, then, held) \in Fresh("list", query, cursor, then, held)
<1>1. Asked("list") \in Fresh("list", NoQuery, None, "plain", None)
  BY AskedFresh
<1> QED
  BY <1>1 DEF Listing, Fresh

LEMMA FreshBegun ==
  ASSUME Inv, NEW op \in {"list", "ban", "session"}, NEW query, NEW cursor, NEW then, NEW held,
         NEW c \in Fresh(op, query, cursor, then, held)
  PROVE  Begun(c) /\ (c.gone => c.sid \in over)
<1>1. Nothing \in Reading /\ Nothing.session = None
  BY DEF Nothing, Reading
<1>2. /\ c.op = op /\ c.at = "read" /\ c.todo = {"session", "generation"} /\ c.read = Nothing
      /\ c.since = hash /\ c.sid = cookie /\ c.gone = (cookie \in over)
  BY DEF Fresh
<1>3. Request(c)
  <2>1. /\ hash \in Nat
        /\ {"session", "generation"} \in SUBSET {"session", "generation", "hash"}
        /\ (cookie \in over) \in BOOLEAN
    BY DEF Inv, Types
  <2> DEFINE flag == cookie \in over
  <2>2. flag \in BOOLEAN
    BY <2>1
  <2>3. c \in [op : {op}, at : {"read"}, todo : {{"session", "generation"}},
               read : {Nothing}, again : {Nothing}, typed : {0}, sid : {cookie}, since : {hash},
               gone : {flag}, query : {query}, cursor : {cursor}, then : {then}, held : {held}]
    BY DEF Fresh
  <2> HIDE DEF flag
  <2> QED
    BY <1>1, <2>1, <2>2, <2>3 DEF Request
<1> QED
  BY <1>1, <1>2, <1>3 DEF Begun

LEMMA AskedBegun ==
  ASSUME Inv, NEW op \in {"list", "ban", "session"}
  PROVE  Begun(Asked(op)) /\ (Asked(op).gone => Asked(op).sid \in over)
<1> DEFINE c == Asked(op)
<1>1. c \in Fresh(op, NoQuery, None, "plain", None)
  BY AskedFresh
<1> HIDE DEF c
<1>2. Begun(c) /\ (c.gone => c.sid \in over)
  BY <1>1, FreshBegun
<1> QED
  BY <1>2 DEF c

LEMMA ListingBegun ==
  ASSUME Inv, NEW query, NEW cursor, NEW then, NEW held
  PROVE  LET c == Listing(query, cursor, then, held)
         IN  Begun(c) /\ (c.gone => c.sid \in over)
<1> DEFINE c == Listing(query, cursor, then, held)
<1>1. c \in Fresh("list", query, cursor, then, held)
  BY ListingFresh
<1> HIDE DEF c
<1>2. Begun(c) /\ (c.gone => c.sid \in over)
  BY <1>1, FreshBegun
<1> QED
  BY <1>2 DEF c

LEMMA BegunSound ==
  ASSUME Inv, NEW c, Begun(c), c.gone => c.sid \in over
  PROVE  Sound(c)
BY DEF Inv, Types, Begun, Sound, Unread, SignsIn, Recent, LetIn

LEMMA BeginKeeps ==
  ASSUME Inv, UNCHANGED <<settings, sessions, now, cookie, over>>,
         NEW s \in Slots, NEW c, Begun(c), c.gone => c.sid \in over,
         call' = [call EXCEPT ![s] = c] \/ call' = [PageLeft EXCEPT ![s] = c]
  PROVE  Inv'
<1>1. Sound(c)
  BY BegunSound
<1>2. OneSlot(s) /\ call'[s] = c
  BY PlainSlot, LeftSlot DEF Inv
<1>3. Sound(call[s])'
  BY <1>1, <1>2 DEF Sound, Request, Unread, Settled, Level, SignsIn, Confirms, Recent, LetIn,
     settings, sessions
<1>4. Calm
  BY DEF Calm, Settled, sessions, settings, Inv, Types
<1> QED
  BY <1>2, <1>3, <1>4, SlotKeeps DEF settings

-----------------------------------------------------------------------------
(* What the reader does on the page. *)

LEMMA ConsoleKeeps ==
  ASSUME Inv, NEW s \in Slots, OpenConsole(s) \/ CheckSession(s) \/ SignedInAlready(s)
  PROVE  Inv'
<1>1. CASE CheckSession(s)
  BY <1>1, AskedBegun, BeginKeeps DEF CheckSession, browser
<1>2. CASE OpenConsole(s) \/ SignedInAlready(s)
  <2> DEFINE c == Listing(NoQuery, None, "plain", None)
  <2>1. Begun(c) /\ (c.gone => c.sid \in over)
    BY ListingBegun
  <2> HIDE DEF c
  <2>2. call' = [PageLeft EXCEPT ![s] = c]
    BY <1>2 DEF OpenConsole, SignedInAlready, ConsoleOpens, c
  <2> QED
    BY <1>2, <2>1, <2>2, BeginKeeps DEF OpenConsole, SignedInAlready
<1> QED
  BY <1>1, <1>2

LEMMA LoadKeeps ==
  ASSUME Inv, NEW s \in Slots, NEW page, NEW cursor, NEW then, NEW held,
         Loads(s, page, cursor, then, held)
  PROVE  Inv'
BY ListingBegun, BeginKeeps DEF Loads

LEMMA QuietKeeps ==
  ASSUME Inv, UNCHANGED <<settings, sessions, now, cookie, over, call>>
  PROVE  Inv'
<1>1. Calm
  BY DEF Calm, Settled, sessions, settings, Inv, Types
<1>2. Types'
  BY DEF Inv, Types, settings, sessions
<1>3. Stored'
  BY <1>1, StoreSound DEF sessions
<1>4. Calls'
  BY <1>1, <1>2, OthersSound
<1> QED
  BY <1>2, <1>3, <1>4 DEF Inv

LEMMA ClickKeeps ==
  ASSUME Inv, NEW s \in Slots,
         \/ \E query \in Queries : Search(s, query)
         \/ OnNext(s) \/ OnPrevious(s) \/ Refresh(s) \/ PlayerAction(s)
  PROVE  Inv'
<1>1. ASSUME NEW query \in Queries, Search(s, query) PROVE Inv'
  BY <1>1, LoadKeeps, QuietKeeps DEF Search
<1>2. CASE OnNext(s)
  BY <1>2, LoadKeeps DEF OnNext
<1>3. CASE OnPrevious(s)
  BY <1>3, LoadKeeps DEF OnPrevious
<1>4. CASE PlayerAction(s)
  BY <1>4, AskedBegun, BeginKeeps DEF PlayerAction
<1>5. CASE Refresh(s)
  BY <1>5, LoadKeeps DEF Refresh
<1> QED
  BY <1>1, <1>2, <1>3, <1>4, <1>5

LEMMA AnswerKeeps ==
  ASSUME Inv, NEW s \in Slots, PlayerActionDone(s) \/ ListAnswered(s)
  PROVE  Inv'
<1>1. CASE call' = [call EXCEPT ![s] = Idle]
  <2>1. OneSlot(s) /\ call'[s] = Idle
    BY <1>1, PlainSlot DEF Inv
  <2>2. Calm /\ UNCHANGED <<boot, sessions, now, cookie, over>>
    BY DEF PlayerActionDone, ListAnswered, Calm, Settled, settings, sessions, Inv, Types
  <2> QED
    BY <2>1, <2>2, SlotKeeps
<1>2. ASSUME NEW query, NEW then, call' = [call EXCEPT ![s] = Listing(query, None, then, None)]
      PROVE  Inv'
  BY <1>2, ListingBegun, BeginKeeps DEF PlayerActionDone, ListAnswered
<1>3. CASE PlayerActionDone(s)
  BY <1>1, <1>2, <1>3 DEF PlayerActionDone, Ends
<1>4. CASE ListAnswered(s)
  BY <1>1, <1>2, <1>4 DEF ListAnswered
<1> QED
  BY <1>3, <1>4

-----------------------------------------------------------------------------
(* A sign-in, and the rows a request reads. *)

LEMMA LoginKeeps ==
  ASSUME Inv, NEW s \in Slots, Login(s)
  PROVE  Inv'
<1>1. Calm /\ UNCHANGED <<boot, sessions, now, cookie, over>>
  BY DEF Login, Calm, Settled, settings, sessions, browser, Inv, Types
<1>2. CASE UNCHANGED call
  BY <1>1, <1>2, QuietKeeps DEF Login
<1>3. ASSUME NEW typed \in 1..hash,
             call' = [call EXCEPT ![s] = [Idle EXCEPT !.op = "login", !.at = "read",
                                             !.todo = {"hash", "generation"}, !.typed = typed]]
      PROVE  Inv'
  <2> DEFINE c == [Idle EXCEPT !.op = "login", !.at = "read",
                               !.todo = {"hash", "generation"}, !.typed = typed]
             Signing == [op : {"login"}, at : {"read"}, todo : {{"hash", "generation"}},
                         read : {Nothing}, again : {Nothing}, typed : {typed}, sid : {None},
                         since : {0}, gone : BOOLEAN, query : {NoQuery}, cursor : {None},
                         then : {"plain"}, held : {None}]
  <2>1. c \in Signing
    <3> DEFINE Former ==
                 [op : {"login", "none"}, at : {"read", "idle"}, todo : {{"hash", "generation"}, {}},
                  read : {Nothing}, again : {Nothing}, typed : {typed, 0}, sid : {None},
                  since : {0}, gone : BOOLEAN, query : {NoQuery}, cursor : {None},
                  then : {"plain"}, held : {None}]
    <3>1. Idle \in Former
      BY DEF Idle
    <3> QED
      BY <3>1
  <2>0. ~c.gone
    BY DEF Idle
  <2> HIDE DEF c
  <2>2. Nothing \in Reading /\ Nothing.session = None /\ Nothing.hash = 0 /\ Nothing.generation = 0
    BY DEF Nothing, Reading
  <2>3. typed \in Nat
    BY DEF Inv, Types
  <2>4. Request(c)
    <3>1. {"hash", "generation"} \in SUBSET {"session", "generation", "hash"}
      OBVIOUS
    <3> QED
      BY <2>1, <2>2, <2>3, <3>1 DEF Request
  <2>5. Settled /\ hash \in Nat /\ generation \in Nat
    BY DEF Login, Settled, Inv, Types
  <2>6. Sound(c)
    <3>1. c.op = "login" /\ c.at = "read" /\ c.read = Nothing /\ c.since = 0
      BY <2>1
    <3> QED
      BY <2>0, <2>2, <2>4, <2>5, <3>1 DEF Sound, SignsIn, Recent, LetIn
  <2>7. OneSlot(s) /\ call'[s] = c
    BY <1>3, PlainSlot DEF c, Inv
  <2>8. Sound(call[s])'
    BY <1>1, <2>6, <2>7 DEF Sound, Request, Unread, Settled, Level, SignsIn, Confirms, Recent,
       LetIn, Calm, settings, sessions
  <2> QED
    BY <1>1, <2>7, <2>8, SlotKeeps
<1> QED
  BY <1>2, <1>3 DEF Login

(* A request that has read one more row. *)
Further(c, name, read, again) ==
    [op : {c.op}, at : {c.at}, todo : {(c.todo \ {name})}, read : {read}, again : {again},
     typed : {c.typed}, sid : {c.sid}, since : {c.since}, gone : {c.gone}, query : {c.query},
     cursor : {c.cursor}, then : {c.then}, held : {c.held}]

LEMMA FurtherSound ==
  ASSUME Inv, boot = "done", NEW c, Sound(c), NEW name \in c.todo,
         NEW read, NEW again, NEW d \in Further(c, name, read, again),
         c.at = "read" => read = [c.read EXCEPT ![name] = Row(c, name)],
         c.at # "read" => read = c.read,
         c.at = "again" => again = [c.again EXCEPT ![name] = Row(c, name)],
         c.at # "again" => again = c.again
  PROVE  Sound(d)
<1>1. Settled
  BY DEF Settled
<1>2. /\ hash \in Nat /\ generation \in Nat
      /\ name \in {"session", "generation", "hash"}
      /\ c.read \in Reading /\ c.again \in Reading
      /\ c.read.hash \in Nat /\ c.read.generation \in Nat
      /\ c.again.hash \in Nat /\ c.again.generation \in Nat
      /\ c.since \in Nat /\ c.typed \in Nat
  BY DEF Inv, Types, Sound, Request, Reading
<1>3. /\ d.op = c.op /\ d.at = c.at /\ d.todo = c.todo \ {name} /\ d.read = read
      /\ d.again = again /\ d.typed = c.typed /\ d.sid = c.sid /\ d.since = c.since
      /\ d.gone = c.gone
  BY DEF Further
<1>4. /\ name = "session" => Row(c, name) \in Session \cup {None}
                             /\ (Row(c, name) # None =>
                                   Level(Row(c, name).generation, Row(c, name).of))
      /\ name = "generation" => Row(c, name) = generation
      /\ name = "hash" => Row(c, name) = hash
  BY DEF Row, Live, Inv, Types, Stored
<1>5. /\ read \in Reading /\ again \in Reading
      /\ read.session # None => Level(read.session.generation, read.session.of)
  <2>1. ASSUME NEW r \in Reading PROVE [r EXCEPT ![name] = Row(c, name)] \in Reading
    BY <1>2, <1>4 DEF Reading
  <2>2. read \in Reading /\ again \in Reading
    BY <1>2, <2>1
  <2>3. read.session \in {c.read.session} \cup (IF name = "session" THEN {Row(c, name)} ELSE {})
    BY <1>2 DEF Reading
  <2> QED
    BY <1>4, <2>2, <2>3 DEF Sound
<1>6. Request(d)
  BY <1>2, <1>5 DEF Further, Request, Sound
<1>7. CASE c.at = "read"
  <2>1. CASE name = "hash"
    <3>1. read.hash = hash /\ read.generation = c.read.generation /\ read.session = c.read.session
      BY <1>2, <1>4, <1>7, <2>1 DEF Reading
    <3> QED
      BY <1>1, <1>2, <1>3, <1>5, <1>6, <1>7, <2>1, <3>1 DEF Sound, SignsIn, Recent, LetIn
  <2>2. CASE name = "generation"
    <3>1. read.hash = c.read.hash /\ read.generation = generation /\ read.session = c.read.session
      BY <1>2, <1>4, <1>7, <2>2 DEF Reading
    <3> QED
      BY <1>1, <1>2, <1>3, <1>5, <1>6, <1>7, <2>2, <3>1 DEF Sound, SignsIn, Recent, LetIn
  <2>3. CASE name = "session"
    <3>1. read.hash = c.read.hash /\ read.generation = c.read.generation
      BY <1>2, <1>7, <2>3 DEF Reading
    <3> QED
      BY <1>1, <1>2, <1>3, <1>5, <1>6, <1>7, <2>3, <3>1 DEF Sound, SignsIn, Recent, LetIn
  <2> QED
    BY <1>2, <2>1, <2>2, <2>3
<1>8. CASE c.at = "again"
  <2>1. /\ name = "hash" => again.hash = hash /\ again.generation = c.again.generation
        /\ name = "generation" => again.hash = c.again.hash /\ again.generation = generation
        /\ name = "session" => again.hash = c.again.hash /\ again.generation = c.again.generation
    BY <1>2, <1>4, <1>8 DEF Reading
  <2>2. Confirms(d)
    BY <1>2, <1>3, <1>8, <2>1 DEF Confirms, Sound, SignsIn
  <2> QED
    BY <1>1, <1>2, <1>3, <1>5, <1>6, <1>8, <2>2 DEF Sound, SignsIn, Recent, LetIn
<1>9. CASE c.at \notin {"read", "again"}
  BY <1>1, <1>2, <1>3, <1>5, <1>6, <1>9 DEF Sound, SignsIn, Recent, LetIn, Level
<1> QED
  BY <1>7, <1>8, <1>9

LEMMA ReadRowKeeps ==
  ASSUME Inv, NEW s \in Slots, ReadRow(s)
  PROVE  Inv'
<1> DEFINE c == call[s]
<1>1. PICK name \in c.todo :
        call' = [call EXCEPT
            ![s].todo = @ \ {name},
            ![s].read = IF call[s].at = "read" THEN [@ EXCEPT ![name] = Row(call[s], name)] ELSE @,
            ![s].again = IF call[s].at = "again" THEN [@ EXCEPT ![name] = Row(call[s], name)] ELSE @]
  BY DEF ReadRow
<1> DEFINE read == IF c.at = "read" THEN [c.read EXCEPT ![name] = Row(c, name)] ELSE c.read
           again == IF c.at = "again" THEN [c.again EXCEPT ![name] = Row(c, name)] ELSE c.again
<1>2. Calm /\ UNCHANGED <<boot, sessions, now, cookie, over>> /\ boot = "done"
  BY DEF ReadRow, Calm, Settled, settings, sessions, browser, Inv, Types
<1>3. Sound(c)
  BY DEF Inv, Calls
<1>4. OneSlot(s)
  BY <1>1 DEF OneSlot, Inv, Types
<1>5. call'[s] = [call[s] EXCEPT !.todo = @ \ {name}, !.read = read, !.again = again]
  BY <1>1 DEF Inv, Types
<1> HIDE DEF read, again
<1>6. call'[s] \in Further(c, name, read, again)
  BY <1>3, <1>5 DEF Sound, Request, Further
<1>7. Sound(call'[s])
  <2> DEFINE d == call'[s]
  <2> HIDE DEF c
  <2>1. /\ c.at = "read" => read = [c.read EXCEPT ![name] = Row(c, name)]
        /\ c.at # "read" => read = c.read
        /\ c.at = "again" => again = [c.again EXCEPT ![name] = Row(c, name)]
        /\ c.at # "again" => again = c.again
    BY DEF read, again
  <2>2. d \in Further(c, name, read, again)
    BY <1>6
  <2> HIDE DEF d
  <2>3. Sound(d)
    BY <1>2, <1>3, <2>1, <2>2, FurtherSound
  <2> QED
    BY <2>3 DEF d
<1>8. Sound(call[s])'
  BY <1>2, <1>7 DEF Sound, Request, Unread, Settled, Level, SignsIn, Confirms, Recent,
     LetIn, Calm, settings, sessions
<1> QED
  BY <1>2, <1>4, <1>8, SlotKeeps

-----------------------------------------------------------------------------
(* The steps of a sign-in, a sign-out and an authentication. *)

(* A request that has moved on. *)
Moved(c, at, todo, sid) ==
    [op : {c.op}, at : {at}, todo : {todo}, read : {c.read}, again : {c.again},
     typed : {c.typed}, sid : {sid}, since : {c.since}, gone : {c.gone}, query : {c.query},
     cursor : {c.cursor}, then : {c.then}, held : {c.held}]

LEMMA MovedRequest ==
  ASSUME NEW c, Request(c), NEW at, NEW todo \in SUBSET {"session", "generation", "hash"}, NEW sid,
         NEW d \in Moved(c, at, todo, sid)
  PROVE  /\ Request(d)
         /\ d.op = c.op /\ d.at = at /\ d.todo = todo /\ d.read = c.read /\ d.again = c.again
         /\ d.typed = c.typed /\ d.sid = sid /\ d.since = c.since /\ d.gone = c.gone
BY DEF Request, Moved

(* What a step leaves of everything but the rows is sound with the new call. *)
LEMMA StepKeeps ==
  ASSUME Inv, Types', Stored', Calm, NEW s \in Slots, OneSlot(s),
         Sound(call[s])' \/ call'[s] \in {call[s], Idle}
  PROVE  Inv'
<1>1. Calls'
  BY OthersSound DEF OneSlot
<1> QED
  BY <1>1 DEF Inv

(* The facts that every step has of the call it is about. *)
LEMMA CallFacts ==
  ASSUME Inv, NEW s \in Slots
  PROVE  /\ Sound(call[s]) /\ Request(call[s])
         /\ hash \in Nat /\ generation \in Nat /\ opened \in Nat
         /\ call[s].todo \in SUBSET {"session", "generation", "hash"}
         /\ call[s].read \in Reading /\ call[s].again \in Reading
         /\ call[s].read.hash \in Nat /\ call[s].read.generation \in Nat
         /\ call[s].since \in Nat /\ call[s].typed \in Nat
BY DEF Inv, Types, Calls, Sound, Request, Reading

LEMMA CheckPasswordKeeps ==
  ASSUME Inv, NEW s \in Slots, CheckPassword(s)
  PROVE  Inv'
<1> DEFINE c == call[s]
           d == [c EXCEPT !.at = "again", !.todo = {"hash", "generation"}]
<1>1. Calm /\ UNCHANGED <<boot, sessions, now, cookie, over>> /\ c.op = "login" /\ UNCHANGED Settled
  BY DEF CheckPassword, At, Calm, Settled, settings, sessions, browser, Inv, Types
<1>2. Sound(c) /\ Request(c) /\ hash \in Nat /\ generation \in Nat
  BY CallFacts
<1>3. CASE call' = [call EXCEPT ![s] = d] /\ c.read.hash = c.typed
  <2>1. d \in Moved(c, "again", {"hash", "generation"}, c.sid)
    BY <1>2 DEF Request, Moved
  <2>2. OneSlot(s) /\ call'[s] = d
    BY <1>3, PlainSlot DEF Inv
  <2> HIDE DEF d
  <2>3. /\ Request(d)
        /\ d.op = c.op /\ d.at = "again" /\ d.todo = {"hash", "generation"} /\ d.read = c.read
        /\ d.again = c.again /\ d.typed = c.typed /\ d.sid = c.sid /\ d.since = c.since
        /\ d.gone = c.gone
    BY <1>2, <2>1, MovedRequest
  <2>4. Sound(d)
    BY <1>1, <1>2, <1>3, <2>3 DEF Sound, Unread, SignsIn, Confirms, Recent, LetIn
  <2>5. Sound(call[s])'
    BY <1>1, <2>2, <2>4 DEF Sound, Request, Unread, Settled, Level, SignsIn, Confirms, Recent,
       LetIn, Calm, sessions
  <2> QED
    BY <1>1, <2>2, <2>5, SlotKeeps
<1>4. CASE call' = [call EXCEPT ![s] = Idle]
  BY <1>1, <1>4, PlainSlot, SlotKeeps DEF Inv
<1> QED
  <2>1. call' = [call EXCEPT ![s] = IF c.read.hash # 0 /\ c.read.hash = c.typed THEN d ELSE Idle]
    BY DEF CheckPassword, Inv, Types
  <2> HIDE DEF c, d
  <2> QED
    BY <1>3, <1>4, <2>1

(* A call that goes on to a step that asks nothing of it keeps the rest. *)
LEMMA GoesTo ==
  ASSUME Inv, NEW s \in Slots, NEW at, Goes(s, at)
  PROVE  /\ OneSlot(s) /\ call'[s] \in Moved(call[s], at, call[s].todo, call[s].sid)
         /\ Request(call'[s])
         /\ call'[s].op = call[s].op /\ call'[s].at = at /\ call'[s].todo = call[s].todo
         /\ call'[s].read = call[s].read /\ call'[s].again = call[s].again
         /\ call'[s].typed = call[s].typed /\ call'[s].sid = call[s].sid
         /\ call'[s].since = call[s].since /\ call'[s].gone = call[s].gone
<1>1. OneSlot(s) /\ call'[s] = [call[s] EXCEPT !.at = at]
  BY DEF Goes, Inv, Types, OneSlot
<1>2. call'[s] \in Moved(call[s], at, call[s].todo, call[s].sid)
  BY <1>1, CallFacts DEF Request, Moved
<1> QED
  BY <1>1, <1>2, CallFacts, MovedRequest

LEMMA CheckAgainKeeps ==
  ASSUME Inv, NEW s \in Slots, CheckAgain(s)
  PROVE  Inv'
<1> DEFINE c == call[s]
<1>1. Calm /\ UNCHANGED <<boot, sessions, now, cookie, over>> /\ c.op = "login" /\ UNCHANGED Settled
      /\ c.at = "again" /\ c.todo = {}
  BY DEF CheckAgain, At, Calm, Settled, settings, sessions, browser, Inv, Types
<1>2. CASE StillCurrent(c) /\ Goes(s, "set")
  <2>1. Level(c.read.generation, c.typed)
    BY <1>1, <1>2, CallFacts DEF StillCurrent, Sound, SignsIn, Confirms, Level
  <2>2. Sound(call'[s])
    BY <1>1, <1>2, <2>1, CallFacts, GoesTo DEF Sound, Unread, SignsIn, Recent, LetIn
  <2>3. Sound(call[s])'
    BY <1>1, <2>2 DEF Sound, Request, Unread, Settled, Level, SignsIn, Confirms, Recent, LetIn,
       Calm, sessions
  <2> QED
    BY <1>1, <1>2, <2>3, GoesTo, SlotKeeps
<1>3. CASE Ends(s)
  BY <1>1, <1>3, PlainSlot, SlotKeeps DEF Ends, Inv
<1> QED
  BY <1>2, <1>3 DEF CheckAgain

LEMMA RequestFailsKeeps ==
  ASSUME Inv, NEW s \in Slots, RequestFails(s)
  PROVE  Inv'
<1>1. Calm /\ UNCHANGED <<boot, sessions, now, cookie, over>> /\ UNCHANGED Settled
  BY DEF RequestFails, Calm, Settled, settings, sessions, browser, Inv, Types
<1>2. CASE OfPage(call[s]) /\ Goes(s, "failed")
  <2>1. Sound(call'[s])
    BY <1>2, CallFacts, GoesTo DEF OfPage, Sound, Unread, SignsIn, Recent, LetIn
  <2>2. Sound(call[s])'
    BY <1>1, <2>1 DEF Sound, Request, Unread, Settled, Level, SignsIn, Confirms, Recent, LetIn,
       Calm, sessions
  <2> QED
    BY <1>1, <1>2, <2>2, GoesTo, SlotKeeps
<1>3. CASE Ends(s)
  BY <1>1, <1>3, PlainSlot, SlotKeeps DEF Ends, Inv
<1> QED
  BY <1>2, <1>3 DEF RequestFails

(* The new session is of one moment, for its sign-in read both rows twice. *)
LEMMA StoreSessionKeeps ==
  ASSUME Inv, NEW s \in Slots, StoreSession(s)
  PROVE  Inv'
<1> USE ConsoleAssumption
<1> DEFINE c == call[s]
           new == [generation |-> c.read.generation, of |-> c.typed, until |-> now + TTL]
<1>1. /\ Sound(c) /\ Request(c) /\ opened \in Nat
      /\ c.op = "login" /\ c.at = "set" /\ ~c.gone /\ Settled /\ UNCHANGED <<hash, generation, boot>>
      /\ Level(c.read.generation, c.typed) /\ UNCHANGED Settled
  BY CallFacts DEF StoreSession, At, Sound, SignsIn, Unread, settings, Settled
<1>2. /\ Kept \in [Sids -> Session \cup {None}]
      /\ \A sid \in Sids : Kept[sid] \in {store[sid], None}
  BY DEF Kept, Inv, Types
<1>3. CASE store' = Kept /\ Ends(s) /\ UNCHANGED opened
  <2>1. Calm /\ OneSlot(s) /\ call'[s] = Idle
    BY <1>1, <1>3, PlainSlot DEF StoreSession, Calm, browser, Ends, Inv, Types
  <2>2. Types'
    BY <1>1, <1>2, <1>3, <2>1 DEF StoreSession, settings, browser, OneSlot, Inv, Types
  <2>3. Stored'
    BY <1>1, <1>2, <1>3 DEF StoreSession, browser, Inv, Stored, Level
  <2> QED
    BY <2>1, <2>2, <2>3, StepKeeps
<1>4. CASE /\ opened' = opened + 1
           /\ store' = [Kept EXCEPT ![opened + 1] = new]
           /\ call' = [call EXCEPT ![s].at = "index", ![s].sid = opened + 1]
  <2>1. OneSlot(s) /\ call'[s] = [c EXCEPT !.at = "index", !.sid = opened + 1]
    BY <1>4 DEF Inv, Types, OneSlot
  <2>2. call'[s] \in Moved(c, "index", c.todo, opened + 1)
    BY <1>1, <2>1 DEF Request, Moved
  <2>3. /\ Request(call'[s])
        /\ call'[s].op = "login" /\ call'[s].at = "index" /\ call'[s].read = c.read
        /\ call'[s].sid = opened + 1 /\ call'[s].since = c.since /\ call'[s].gone = c.gone
    BY <1>1, <2>2, CallFacts, MovedRequest
  <2>4. Calm
    BY <1>1, <1>4 DEF StoreSession, browser, Calm
  <2>5. Sound(call[s])'
    <3>1. SignsIn(call[s])' /\ Recent(call[s])' /\ LetIn(call[s])'
      BY <1>1, <2>3, <2>4 DEF Sound, SignsIn, Recent, LetIn, Calm
    <3>2. Settled'
      <4>1. Settled /\ UNCHANGED <<hash, boot>>
        BY <1>1
      <4> HIDE DEF c
      <4> QED
        BY <4>1 DEF Settled
    <3>3. (c.read.session # None => Level(c.read.session.generation, c.read.session.of))'
      BY <1>1, <2>3 DEF Sound, Level
    <3>4. (Request(c) /\ c.since <= hash)'
      BY <1>1, <2>3 DEF Sound, Request
    <3>5. opened + 1 \in 1..opened'
      BY <1>1, <1>4
    <3> QED
      BY <1>1, <2>3, <3>1, <3>2, <3>3, <3>4, <3>5 DEF Sound, Level
  <2>6. new \in Session
    BY <1>1, CallFacts DEF Session, Inv, Types
  <2>7. Types'
    <3>1. store' \in [Sids -> Session \cup {None}]
      BY <1>2, <1>4, <2>6
    <3>2. over' \subseteq 1..opened' /\ cookie' \in (1..opened') \cup {None} /\ opened' \in Nat
      BY <1>1, <1>4 DEF StoreSession, browser, Inv, Types
    <3>3. hash' \in Nat /\ generation' \in Nat /\ now' \in Nat /\ boot' = boot
      BY <1>1 DEF StoreSession, Inv, Types
    <3> QED
      BY <1>1, <2>1, <3>1, <3>2, <3>3 DEF OneSlot, Inv, Types
  <2>8. Stored'
    <3> SUFFICES ASSUME NEW sid \in Sids, store'[sid] # None
                 PROVE  /\ Settled' /\ sid \notin over'
                        /\ Level(store[sid].generation, store[sid].of)'
      BY DEF Stored
    <3> HIDE DEF new
    <3>1. CASE sid = opened + 1
      <4>1. store'[sid] = new
        BY <1>2, <1>4, <3>1
      <4>2. sid \notin over'
        BY <1>1, <3>1 DEF StoreSession, browser, Inv, Types
      <4>3. Level(new.generation, new.of)
        BY <1>1 DEF new
      <4> QED
        BY <1>1, <4>1, <4>2, <4>3 DEF Level
    <3>2. CASE sid # opened + 1
      <4>1. store'[sid] = store[sid]
        BY <1>2, <1>4, <3>2
      <4> QED
        BY <1>1, <4>1 DEF StoreSession, browser, Inv, Stored, Level
    <3> QED
      BY <3>1, <3>2
  <2> QED
    BY <2>1, <2>4, <2>5, <2>7, <2>8, StepKeeps
<1> QED
  BY <1>3, <1>4 DEF StoreSession

(* The sign-in's answer opens the console with its new session. *)
LEMMA IndexSessionKeeps ==
  ASSUME Inv, NEW s \in Slots, IndexSession(s)
  PROVE  Inv'
<1> DEFINE l == Listing(NoQuery, None, "plain", None)
           d == [l EXCEPT !.sid = call[s].sid, !.gone = FALSE]
<1>1. Begun(l)
  BY ListingBegun
<1> HIDE DEF l
<1>2. call[s].sid \in 1..opened
  BY CallFacts DEF IndexSession, At, Sound
<1>3. Begun(d) /\ ~d.gone
  <2>1. d \in [op : {l.op}, at : {l.at}, todo : {l.todo}, read : {l.read}, again : {l.again},
               typed : {l.typed}, sid : {call[s].sid}, since : {l.since}, gone : BOOLEAN,
               query : {l.query}, cursor : {l.cursor}, then : {l.then}, held : {l.held}]
    BY <1>1 DEF Begun, Request
  <2>2. ~d.gone
    BY <1>1 DEF Begun, Request
  <2> HIDE DEF d
  <2>3. Request(d)
    BY <1>1, <2>1 DEF Begun, Request
  <2> QED
    BY <1>1, <2>1, <2>2, <2>3 DEF Begun
<1>4. Sound(d)
  BY <1>3, BegunSound
<1>5. OneSlot(s) /\ call'[s] = d
  BY LeftSlot DEF IndexSession, l, Inv
<1> HIDE DEF d
<1>6. Calm /\ UNCHANGED Settled
  BY DEF IndexSession, Calm, Settled, settings, Inv, Types
<1>7. Sound(call[s])'
  BY <1>4, <1>5, <1>6 DEF IndexSession, Sound, Request, Unread, Level, SignsIn, Confirms,
     Recent, LetIn, Calm
<1>8. Types'
  BY <1>2, <1>5 DEF IndexSession, OneSlot, settings, Inv, Types
<1>9. Stored'
  BY <1>6, StoreSound DEF IndexSession
<1> QED
  BY <1>5, <1>6, <1>7, <1>8, <1>9, StepKeeps

LEMMA LogoutKeeps ==
  ASSUME Inv, NEW s \in Slots, Logout(s)
  PROVE  Inv'
<1> DEFINE d == [Idle EXCEPT !.op = "logout", !.at = "del", !.sid = cookie]
<1>1. OneSlot(s) /\ call'[s] = d
  BY PlainSlot DEF Logout, Inv
<1>2. Calm /\ UNCHANGED <<boot, sessions, now, cookie, over>> /\ UNCHANGED Settled
  BY DEF Logout, Calm, Settled, settings, sessions, browser, Inv, Types
<1>3. Idle \in [op : {"none"}, at : {"idle"}, todo : {{}}, read : {Nothing}, again : {Nothing},
                typed : {0}, sid : {None}, since : {0}, gone : {FALSE}, query : {NoQuery},
                cursor : {None}, then : {"plain"}, held : {None}]
  BY DEF Idle
<1>4. d \in Moved([Idle EXCEPT !.op = "logout"], "del", {}, cookie)
  BY <1>3 DEF Moved
<1>5. Request([Idle EXCEPT !.op = "logout"]) /\ [Idle EXCEPT !.op = "logout"].op = "logout"
      /\ [Idle EXCEPT !.op = "logout"].read = Nothing /\ [Idle EXCEPT !.op = "logout"].since = 0
  BY DEF Request, Idle, Nothing, Reading
<1>6. d.op = "logout" /\ d.at = "del" /\ d.sid = cookie /\ d.read = Nothing /\ d.since = 0 /\ ~d.gone
  BY <1>3
<1> HIDE DEF d
<1>7. Request(d)
  BY <1>4, <1>5, MovedRequest
<1>8. Nothing.session = None
  BY DEF Nothing
<1>9. Sound(d)
  BY <1>6, <1>7, <1>8 DEF Logout, Inv, Types, Sound, Unread, SignsIn, Recent, LetIn
<1>10. Sound(call[s])'
  BY <1>1, <1>2, <1>9 DEF Sound, Request, Unread, Level, SignsIn, Confirms, Recent, LetIn,
     Calm, sessions
<1> QED
  BY <1>1, <1>2, <1>10, SlotKeeps

LEMMA DeleteSessionKeeps ==
  ASSUME Inv, NEW s \in Slots, DeleteSession(s)
  PROVE  Inv'
<1> DEFINE c == call[s]
<1>1. c.op = "logout" /\ c.sid \in 1..opened /\ Goes(s, "rem") /\ UNCHANGED Settled
  BY CallFacts DEF DeleteSession, At, Sound, settings, Settled
<1>2. Calm
  BY <1>1 DEF DeleteSession, Calm, settings, Inv, Types
<1>3. Sound(call[s])'
  BY <1>1, <1>2, CallFacts, GoesTo DEF DeleteSession, Sound, Request, Unread, Level, SignsIn,
     Recent, LetIn, Calm
<1>4. CASE store' = [store EXCEPT ![c.sid] = None] /\ over' = over \cup {c.sid}
  <2>1. Types'
    BY <1>1, <1>4, GoesTo DEF DeleteSession, settings, OneSlot, Inv, Types
  <2>2. Stored'
    BY <1>1, <1>2, <1>4 DEF Calm, Inv, Types, Stored, Level
  <2> QED
    BY <1>1, <1>2, <1>3, <2>1, <2>2, GoesTo, StepKeeps
<1>5. CASE UNCHANGED <<store, over>>
  <2>1. Types'
    BY <1>1, <1>5, GoesTo DEF DeleteSession, settings, OneSlot, Inv, Types
  <2> QED
    BY <1>1, <1>2, <1>3, <1>5, <2>1, GoesTo, StoreSound, StepKeeps
<1> QED
  BY <1>4, <1>5 DEF DeleteSession

LEMMA ForgetSessionKeeps ==
  ASSUME Inv, NEW s \in Slots, ForgetSession(s)
  PROVE  Inv'
<1>1. Calm /\ OneSlot(s) /\ call'[s] = Idle
  BY PlainSlot DEF ForgetSession, Ends, Calm, Settled, settings, Inv, Types
<1>2. Types'
  BY <1>1 DEF ForgetSession, OneSlot, settings, Inv, Types
<1>3. Stored'
  BY <1>1, StoreSound DEF ForgetSession
<1> QED
  BY <1>1, <1>2, <1>3, StepKeeps

(* Who is let in has a session that is still there, and so was not signed out. *)
LEMMA AuthenticateKeeps ==
  ASSUME Inv, NEW s \in Slots, Authenticate(s)
  PROVE  Inv'
<1> USE ConsoleAssumption
<1> DEFINE c == call[s]
<1>1. /\ c.op # "login" /\ c.at = "read" /\ c.todo = {} /\ UNCHANGED <<boot, opened, now, cookie, over>>
      /\ Calm /\ UNCHANGED Settled
  BY DEF Authenticate, OfPage, Calm, Settled, settings, Inv, Types
<1>2. CASE /\ SessionMatches(c) /\ Live(c.sid) /\ Goes(s, "accepted")
           /\ store' = [store EXCEPT ![c.sid].until = now + TTL]
  <2>1. Settled /\ ~c.gone
    BY <1>1, <1>2, CallFacts DEF Sound, Unread, Live, Inv, Stored
  <2>2. Sound(call[s])'
    <3>1. Recent(call'[s])
      BY <1>1, <1>2, CallFacts, GoesTo DEF Sound, Recent
    <3>2. LetIn(call'[s])
      BY <1>1, <1>2, <2>1, GoesTo DEF SessionMatches, LetIn
    <3>3. c.op \in {"list", "ban", "session"}
      BY DEF Authenticate, OfPage
    <3>4. Sound(call'[s])
      BY <1>1, <1>2, <2>1, <3>1, <3>2, <3>3, CallFacts, GoesTo DEF Sound, SignsIn
    <3> QED
      BY <1>1, <3>4 DEF Sound, Request, Unread, Level, SignsIn, Confirms, Recent, LetIn, Calm
  <2>3. \A sid \in Sids : store[sid] # None => [store[sid] EXCEPT !.until = now + TTL] \in Session
    BY DEF Inv, Types, Session
  <2>4. Types'
    <3>1. store' \in [Sids -> Session \cup {None}]
      BY <1>2, <2>3 DEF Live, Inv, Types
    <3> QED
      BY <1>1, <1>2, <3>1, GoesTo DEF OneSlot, Authenticate, settings, Inv, Types
  <2>5. Stored'
    <3> SUFFICES ASSUME NEW sid \in Sids, store'[sid] # None
                 PROVE  /\ Settled' /\ sid \notin over'
                        /\ Level(store[sid].generation, store[sid].of)'
      BY DEF Stored
    <3>1. store[sid] # None /\ store'[sid].generation = store[sid].generation
          /\ store'[sid].of = store[sid].of
      BY <1>2 DEF Live, Inv, Types, Session
    <3> QED
      BY <1>1, <3>1 DEF Calm, Inv, Stored, Level
  <2> QED
    BY <1>1, <1>2, <2>2, <2>4, <2>5, GoesTo, StepKeeps
<1>3. CASE UNCHANGED store /\ (call' = PageLeft \/ Ends(s))
  <2>1. OneSlot(s) /\ call'[s] \in {call[s], Idle}
    BY <1>3 DEF OneSlot, PageLeft, Ends, Inv, Types
  <2>2. Types'
    BY <1>1, <1>3, <2>1 DEF OneSlot, Authenticate, settings, Inv, Types
  <2>3. Stored'
    BY <1>1, <1>3, StoreSound
  <2> QED
    BY <1>1, <2>1, <2>2, <2>3, StepKeeps
<1> QED
  BY <1>2, <1>3 DEF Authenticate

-----------------------------------------------------------------------------
(* The server's start and restart, the reset, and time. *)

(* The first start writes the rows one by one, but nothing has been read yet. *)
LEMMA ServerStartsKeeps ==
  ASSUME Inv, ServerStarts
  PROVE  Inv'
<1>1. hash \in Nat /\ generation \in Nat /\ UNCHANGED <<sessions, browser, call, now>>
  BY DEF ServerStarts, Inv, Types
<1>2. CASE UNCHANGED <<hash, generation>>
  <2>1. Calm
    BY <1>1, <1>2 DEF ServerStarts, Bootstrap, Calm, Settled, sessions, browser, Inv, Types
  <2>2. Types'
    BY <1>1, <1>2 DEF ServerStarts, Bootstrap, sessions, browser, Inv, Types
  <2>3. Stored'
    BY <1>1, <2>1, StoreSound DEF sessions, browser
  <2>4. Calls'
    BY <1>1, <2>1, <2>2, OthersSound
  <2> QED
    BY <2>2, <2>3, <2>4 DEF Inv
<1>3. CASE /\ ~Settled
           /\ \/ hash' = hash + 1 /\ generation' = generation /\ boot' = "recall"
              \/ hash' = hash /\ generation' = generation + 1 /\ boot' = "done" /\ hash # 0
  <2>1. Types'
    BY <1>1, <1>3 DEF sessions, browser, Inv, Types
  <2>2. Stored'
    BY <1>1, <1>3 DEF sessions, browser, Inv, Stored
  <2>3. Calls'
    <3> SUFFICES ASSUME NEW s \in Slots PROVE Sound(call[s])'
      BY DEF Calls
    <3>1. Sound(call[s]) /\ Unread(call[s]) /\ call[s].since \in Nat
      BY <1>3, CallFacts DEF Sound
    <3>2. SignsIn(call[s])' /\ Recent(call[s])' /\ LetIn(call[s])'
      BY <1>1, <3>1 DEF Unread, Sound, SignsIn, Recent, LetIn
    <3> QED
      BY <1>1, <1>3, <3>1, <3>2 DEF Unread, Sound, Request, sessions, browser
  <2> QED
    BY <2>1, <2>2, <2>3 DEF Inv
<1> QED
  BY <1>2, <1>3 DEF ServerStarts, Bootstrap, Settled, Inv, Types

(* A restart that cuts the first start short leaves it over: there is a hash. *)
LEMMA RestartKeeps ==
  ASSUME Inv, Restart
  PROVE  Inv'
<1>1. Calm /\ UNCHANGED <<opened, now, cookie, over, hash, generation>>
  BY DEF Restart, Calm, Settled, browser, Inv, Types
<1>2. Types' /\ (\A sid \in Sids : store'[sid] \in {store[sid], None})
  BY <1>1 DEF Restart, Inv, Types
<1>3. Stored'
  BY <1>1, <1>2 DEF Calm, Inv, Stored, Level
<1>4. ASSUME NEW s \in Slots PROVE call'[s] \in {call[s], Idle} \/ Sound(call[s])'
  <2> DEFINE c == call[s]
  <2>1. CASE c.op \in {"list", "ban"}
    <3>1. call'[s] = [c EXCEPT !.at = "failed"]
      BY <2>1 DEF Restart
    <3>2. call'[s] \in Moved(c, "failed", c.todo, c.sid)
      BY <3>1, CallFacts DEF Request, Moved
    <3>3. /\ Request(call'[s])
          /\ call'[s].op = c.op /\ call'[s].at = "failed" /\ call'[s].todo = c.todo
          /\ call'[s].read = c.read /\ call'[s].sid = c.sid /\ call'[s].since = c.since
          /\ call'[s].gone = c.gone
      BY <3>2, CallFacts, MovedRequest
    <3>4. SignsIn(call[s])' /\ Recent(call[s])' /\ LetIn(call[s])'
      BY <2>1, <3>3 DEF SignsIn, Recent, LetIn
    <3>5. ~Settled' => Unread(call[s])'
      BY <1>1, <3>3, CallFacts DEF Calm, Sound, Unread
    <3> QED
      BY <1>1, <2>1, <3>3, <3>4, <3>5, CallFacts DEF Sound, Request, Level
  <2>2. CASE c.op \notin {"list", "ban"}
    BY <2>2 DEF Restart
  <2> QED
    BY <2>1, <2>2
<1>5. Calls'
  BY <1>1, <1>2, <1>4, OthersSound
<1> QED
  BY <1>2, <1>3, <1>5 DEF Inv

(* The reset moves both rows by one: their distance stays. *)
LEMMA ResetKeeps ==
  ASSUME Inv, ResetPassword
  PROVE  Inv'
<1>1. /\ hash' = hash + 1 /\ generation' = generation + 1 /\ hash \in Nat /\ generation \in Nat
      /\ UNCHANGED <<boot, sessions, now, cookie, over, call>> /\ (Settled => Settled')
  BY DEF ResetPassword, NewPassword, browser, Settled, Inv, Types
<1>2. Types'
  BY <1>1 DEF sessions, Inv, Types
<1>3. ASSUME NEW g \in Nat, NEW h \in Nat, Level(g, h) PROVE Level(g, h)'
  BY <1>1, <1>3 DEF Level
<1>4. Stored'
  BY <1>1, <1>3 DEF sessions, Inv, Types, Stored, Session
<1>5. Calls'
  <2> SUFFICES ASSUME NEW s \in Slots PROVE Sound(call[s])'
    BY DEF Calls
  <2> DEFINE c == call[s]
  <2>1. UNCHANGED c
    BY <1>1
  <2>2. SignsIn(c)'
    BY <1>1, <1>3, <2>1, CallFacts DEF Sound, SignsIn, Confirms
  <2>3. Recent(c)' /\ LetIn(c)'
    BY <1>1, <2>1, CallFacts DEF Sound, Recent, LetIn
  <2>4. (c.read.session # None => Level(c.read.session.generation, c.read.session.of))'
    BY <1>1, <1>3, <2>1, CallFacts DEF Sound, Reading, Session
  <2> QED
    BY <1>1, <2>1, <2>2, <2>3, <2>4, CallFacts DEF Sound, Request, Unread, sessions
<1> QED
  BY <1>2, <1>4, <1>5 DEF Inv

LEMMA SweepKeeps ==
  ASSUME Inv, SweepSessions
  PROVE  Inv'
<1>1. Calm /\ UNCHANGED <<settings, opened, now, cookie, over, call>>
  BY DEF SweepSessions, Calm, Settled, settings, browser, Inv, Types
<1>2. store' \in [Sids -> Session \cup {None}] /\ \A sid \in Sids : store'[sid] \in {store[sid], None}
  BY DEF SweepSessions, Inv, Types
<1>3. Types'
  BY <1>1, <1>2 DEF settings, Inv, Types
<1>4. Stored'
  BY <1>1, <1>2 DEF Calm, Inv, Stored, Level
<1>5. Calls'
  BY <1>1, <1>3, OthersSound
<1> QED
  BY <1>3, <1>4, <1>5 DEF Inv

LEMMA TickKeeps ==
  ASSUME Inv, Tick
  PROVE  Inv'
<1>1. Calm
  BY DEF Tick, Calm, Settled, settings, sessions, browser, Inv, Types
<1>2. Types'
  BY DEF Tick, settings, sessions, browser, Inv, Types
<1>3. Stored' /\ Calls'
  BY <1>1, <1>2, StoreSound, OthersSound DEF Tick, sessions, browser
<1> QED
  BY <1>2, <1>3 DEF Inv

-----------------------------------------------------------------------------
LEMMA NextKeeps == Inv /\ [Next]_vars => Inv'
<1> SUFFICES ASSUME Inv, [Next]_vars PROVE Inv'
  OBVIOUS
<1>1. CASE UNCHANGED vars
  BY <1>1, QuietKeeps DEF vars, browser
<1>2. CASE ServerStarts \/ Restart \/ ResetPassword \/ SweepSessions \/ Tick
  BY <1>2, ServerStartsKeeps, RestartKeeps, ResetKeeps, SweepKeeps, TickKeeps
<1>3. ASSUME NEW s \in Slots, SignIn(s) PROVE Inv'
  BY <1>3, LoginKeeps, ReadRowKeeps, CheckPasswordKeeps, CheckAgainKeeps, StoreSessionKeeps,
     IndexSessionKeeps, LogoutKeeps, DeleteSessionKeeps, ForgetSessionKeeps, AuthenticateKeeps,
     RequestFailsKeeps DEF SignIn
<1>4. ASSUME NEW s \in Slots, Page(s) PROVE Inv'
  BY <1>4, ConsoleKeeps, ClickKeeps, AnswerKeeps DEF Page
<1> QED
  BY <1>1, <1>2, <1>3, <1>4 DEF Next

(* The session's pair of rows was of one moment, and its generation is the one read. *)
LEMMA InvCurrent == Inv => SessionIsCurrent
<1> SUFFICES ASSUME Inv, NEW s \in Slots, call[s].at = "accepted"
             PROVE  call[s].read.session.of >= call[s].since /\ ~call[s].gone
  BY DEF SessionIsCurrent
<1>1. LetIn(call[s]) /\ Recent(call[s])
  BY CallFacts DEF Sound
<1>2. /\ call[s].read.session \in Session
      /\ Level(call[s].read.session.generation, call[s].read.session.of)
  BY <1>1, CallFacts DEF LetIn, Sound, Reading
<1> QED
  BY <1>1, <1>2, CallFacts DEF LetIn, Recent, Level, Session

(* Whoever is let in holds a session whose password is not older than the
   request, and which had not been signed out before it (password.ts 119-130). *)
THEOREM AcceptedIsCurrent == Spec => []SessionIsCurrent
<1>1. Spec => []Inv
  BY InitSound, NextKeeps, PTL DEF Spec
<1> QED
  BY <1>1, InvCurrent, PTL

-----------------------------------------------------------------------------
(* The rate limit. *)

Limits ==
    /\ windows \in [Keys -> Minute \cup {None}]
    /\ operations \in 0..(SweepEvery - 1)
    /\ backend = "memory" => Size(windows) <= MaxKeys
    /\ refusals = [k \in Keys |-> refusals[k]]
    /\ now \in Nat

Used(w) == {k \in Keys : w[k] # None}

LEMMA SizeOf ==
  ASSUME NEW w
  PROVE  IsFiniteSet(Used(w)) /\ Size(w) \in Nat /\ Size(w) = Cardinality(Used(w))
<1>1. IsFiniteSet(Used(w))
  BY FS_Subset, ConsoleAssumption DEF Used
<1> QED
  BY <1>1, FS_CardinalityType DEF Used, Size

LEMMA SizeShrinks ==
  ASSUME NEW v, NEW w, Used(v) \subseteq Used(w)
  PROVE  Size(v) <= Size(w)
BY SizeOf, FS_Subset

(* One call of the memory limiter: the table with what has expired dropped. *)
Asking == IF operations + 1 = SweepEvery THEN Swept(windows) ELSE windows
Cleared(k) == OwnDropped(Asking, k)
Room(k) == MakeRoom(Cleared(k), k)

LEMMA SweptWindows ==
  ASSUME NEW w \in [Keys -> Minute \cup {None}], now \in Nat
  PROVE  /\ Swept(w) \in [Keys -> Minute \cup {None}]
         /\ Used(Swept(w)) = Running(w) /\ Running(w) \subseteq Used(w)
         /\ \A k \in Running(w) : Swept(w)[k] = w[k]
         /\ Running(Swept(w)) = Running(w)
BY DEF Swept, Used, Running, Minute

LEMMA RoomWindows ==
  ASSUME Limits, NEW k \in Keys
  PROVE  /\ Room(k) \in [Keys -> Minute \cup {None}] /\ Used(Room(k)) \subseteq Used(windows)
         /\ Room(k)[k] # None => k \in Running(windows) /\ Room(k)[k] = windows[k]
         /\ Room(k)[k] = None => k \notin Running(windows)
         /\ Room(k)[k] = None /\ Size(Room(k)) >= MaxKeys => Used(Room(k)) = Running(windows)
<1>1. /\ Asking \in [Keys -> Minute \cup {None}] /\ Running(Asking) = Running(windows)
      /\ Used(Asking) \subseteq Used(windows)
      /\ \A q \in Keys : Asking[q] \in {windows[q], None}
  BY SweptWindows DEF Asking, Limits, Used, Swept
<1> HIDE DEF Asking
<1>2. /\ Cleared(k) \in [Keys -> Minute \cup {None}] /\ Used(Cleared(k)) \subseteq Used(Asking)
      /\ Running(Cleared(k)) = Running(Asking)
      /\ Cleared(k)[k] # None => k \in Running(Asking) /\ Cleared(k)[k] = Asking[k]
      /\ Cleared(k)[k] = None => k \notin Running(Asking)
  <2>1. /\ Swept(Asking) \in [Keys -> Minute \cup {None}]
        /\ Swept(Asking)[k] # None => k \in Running(Asking) /\ Swept(Asking)[k] = Asking[k]
        /\ Swept(Asking)[k] = None => k \notin Running(Asking)
    BY <1>1, SweptWindows DEF Limits, Used
  <2>2. /\ Cleared(k) \in [Keys -> Minute \cup {None}] /\ Cleared(k)[k] = Swept(Asking)[k]
        /\ \A q \in Keys \ {k} : Cleared(k)[q] = Asking[q]
    BY <1>1, <2>1 DEF Cleared, OwnDropped
  <2> HIDE DEF Cleared
  <2>3. Used(Cleared(k)) \subseteq Used(Asking)
    BY <2>1, <2>2 DEF Used, Running
  <2>4. Running(Cleared(k)) = Running(Asking)
    BY <2>1, <2>2 DEF Running
  <2> QED
    BY <2>1, <2>2, <2>3, <2>4
<1> HIDE DEF Cleared
<1>3. CASE Cleared(k)[k] = None /\ Size(Cleared(k)) >= MaxKeys
  <2>1. Room(k) = Swept(Cleared(k))
    BY <1>3 DEF Room, MakeRoom
  <2> QED
    BY <1>1, <1>2, <1>3, <2>1, SweptWindows DEF Limits, Used
<1>4. CASE ~(Cleared(k)[k] = None /\ Size(Cleared(k)) >= MaxKeys)
  <2>1. Room(k) = Cleared(k)
    BY <1>4 DEF Room, MakeRoom
  <2> QED
    BY <1>1, <1>2, <1>4, <2>1
<1> QED
  BY <1>3, <1>4

LEMMA CountedWindows ==
  ASSUME NEW w \in [Keys -> Minute \cup {None}], NEW k \in Keys, now \in Nat
  PROVE  /\ Counted(w, k) \in [Keys -> Minute \cup {None}]
         /\ Counted(w, k)[k] # None
         /\ Counted(w, k)[k].count = IF w[k] = None THEN 1 ELSE w[k].count + 1
         /\ Used(Counted(w, k)) = Used(w) \cup {k}
<1> DEFINE d == IF w[k] = None THEN [count |-> 1, until |-> now + Window]
                               ELSE [count |-> w[k].count + 1, until |-> w[k].until]
<1>1. d \in Minute /\ d.count = IF w[k] = None THEN 1 ELSE w[k].count + 1
  BY ConsoleAssumption DEF Minute
<1>2. Counted(w, k) = [w EXCEPT ![k] = d]
  BY DEF Counted
<1> HIDE DEF d
<1>3. d # None
  BY <1>1, ConsoleAssumption
<1> QED
  BY <1>1, <1>2, <1>3 DEF Used

(* What one call of the limiter does to the windows, and when it refuses. *)
LEMMA AllowEffect ==
  ASSUME Limits, NEW k \in Keys, Allow(k)
  PROVE  /\ windows' \in [Keys -> Minute \cup {None}] /\ operations' \in 0..(SweepEvery - 1)
         /\ backend = "memory" => Size(windows') <= MaxKeys
         /\ ~(windows'[k] # None /\ windows'[k].count <= Limit) =>
              \/ k \in Running(windows) /\ windows[k].count >= Limit
              \/ k \notin Running(windows) /\ Cardinality(Running(windows)) >= MaxKeys
<1> USE ConsoleAssumption
<1>1. CASE backend = "memory"
  <2> DEFINE room == Room(k)
  <2>1. /\ operations' = (operations + 1) % SweepEvery
        /\ windows' = IF room[k] = None /\ Size(room) >= MaxKeys THEN room ELSE Counted(room, k)
    BY <1>1 DEF Allow, MemoryAllow, Room, Cleared, Asking
  <2>2. operations' \in 0..(SweepEvery - 1)
    BY <2>1 DEF Limits
  <2>3. /\ room \in [Keys -> Minute \cup {None}] /\ Used(room) \subseteq Used(windows)
        /\ room[k] # None => k \in Running(windows) /\ room[k] = windows[k]
        /\ room[k] = None => k \notin Running(windows)
        /\ room[k] = None /\ Size(room) >= MaxKeys => Used(room) = Running(windows)
    BY RoomWindows
  <2>4. Size(room) <= Size(windows) /\ Size(room) \in Nat /\ Size(room) = Cardinality(Used(room))
        /\ Size(windows) <= MaxKeys /\ Size(windows) \in Nat /\ IsFiniteSet(Used(room))
    BY <1>1, <2>3, SizeShrinks, SizeOf DEF Limits
  <2> HIDE DEF room
  <2>5. CASE room[k] = None /\ Size(room) >= MaxKeys
    BY <1>1, <2>1, <2>2, <2>3, <2>4, <2>5
  <2>6. CASE ~(room[k] = None /\ Size(room) >= MaxKeys)
    <3>1. windows' = Counted(room, k) /\ now \in Nat
      BY <2>1, <2>6 DEF Limits
    <3>2. /\ windows' \in [Keys -> Minute \cup {None}] /\ windows'[k] # None
          /\ windows'[k].count = IF room[k] = None THEN 1 ELSE room[k].count + 1
          /\ Used(windows') = Used(room) \cup {k}
      BY <2>3, <3>1, CountedWindows
    <3>3. Size(windows') <= MaxKeys
      <4>1. CASE room[k] # None
        <5>1. Used(windows') \subseteq Used(room)
          BY <3>2, <4>1 DEF Used
        <5> QED
          BY <2>4, <5>1, SizeShrinks, SizeOf
      <4>2. CASE room[k] = None
        <5>1. k \notin Used(room) /\ Size(room) < MaxKeys
          BY <2>4, <2>6, <4>2 DEF Used
        <5>2. Cardinality(Used(windows')) = Cardinality(Used(room)) + 1
          BY <2>4, <3>2, <5>1, FS_AddElement
        <5> QED
          BY <2>4, <5>1, <5>2, SizeOf
      <4> QED
        BY <4>1, <4>2
    <3>4. windows'[k].count > Limit => k \in Running(windows) /\ windows[k].count >= Limit
      <4>1. room[k] # None => room[k].count \in Nat
        BY <2>3 DEF Minute
      <4> QED
        BY <2>3, <3>2, <4>1
    <3>5. windows'[k].count \in Nat
      BY <3>2 DEF Minute
    <3> QED
      BY <2>2, <3>2, <3>3, <3>4, <3>5
  <2> QED
    BY <2>5, <2>6
<1>2. CASE backend # "memory"
  <2>1. windows' = Counted(Swept(windows), k) /\ operations' = operations /\ now \in Nat
    BY <1>2 DEF Allow, RedisAllow, Limits
  <2>2. /\ Swept(windows) \in [Keys -> Minute \cup {None}]
        /\ Used(Swept(windows)) = Running(windows)
        /\ \A q \in Running(windows) : Swept(windows)[q] = windows[q]
    BY <2>1, SweptWindows DEF Limits
  <2> DEFINE w == Swept(windows)
  <2> HIDE DEF w
  <2>3. w \in [Keys -> Minute \cup {None}]
    BY <2>2 DEF w
  <2>4. /\ windows' \in [Keys -> Minute \cup {None}] /\ windows'[k] # None
        /\ windows'[k].count = IF w[k] = None THEN 1 ELSE w[k].count + 1
    BY <2>1, <2>3, CountedWindows DEF w
  <2>5. windows'[k].count > Limit => k \in Running(windows) /\ windows[k].count >= Limit
    <3>1. w[k] # None => w[k].count \in Nat /\ k \in Running(windows) /\ w[k] = windows[k]
      BY <2>2, <2>3 DEF w, Used, Minute
    <3> QED
      BY <2>4, <3>1
  <2>6. windows'[k].count \in Nat
    BY <2>4 DEF Minute
  <2> QED
    BY <1>2, <2>1, <2>4, <2>5, <2>6 DEF Limits
<1> QED
  BY <1>1, <1>2

LEMMA LimitsStart == Init => Limits
<1> SUFFICES ASSUME Init PROVE Limits
  OBVIOUS
<1>1. windows \in [Keys -> Minute \cup {None}] /\ operations = 0 /\ now = 0
      /\ refusals = [k \in Keys |-> refusals[k]]
  BY DEF Init
<1>2. Size(windows) = 0
  <2>1. {k \in Keys : windows[k] # None} = {}
    BY DEF Init
  <2> QED
    BY <2>1, FS_EmptySet DEF Size
<1> QED
  BY <1>1, <1>2, ConsoleAssumption DEF Limits

(* Nothing but a sign-in, a restart and the clock touches the limiter. *)
LEMMA LimitsStay ==
  ASSUME Limits, UNCHANGED <<backend, windows, operations, refusals>>, now' \in Nat
  PROVE  Limits'
BY DEF Limits, Size

LEMMA LoginLimits ==
  ASSUME Limits, NEW s \in Slots, Login(s)
  PROVE  /\ Limits'
         /\ \A k \in Keys : refusals'[k] # refusals[k] =>
              \/ k \in Running(windows) /\ windows[k].count >= Limit
              \/ k \notin Running(windows) /\ Cardinality(Running(windows)) >= MaxKeys
<1>1. PICK k \in Keys :
        /\ Allow(k)
        /\ IF windows'[k] # None /\ windows'[k].count <= Limit
           THEN UNCHANGED refusals
           ELSE refusals' = [refusals EXCEPT ![k] = @ + 1]
  BY DEF Login
<1>2. refusals = [q \in Keys |-> refusals[q]] /\ UNCHANGED <<backend, now>> /\ now \in Nat
  BY DEF Limits, Login
<1>3. /\ windows' \in [Keys -> Minute \cup {None}] /\ operations' \in 0..(SweepEvery - 1)
      /\ backend = "memory" => Size(windows') <= MaxKeys
      /\ ~(windows'[k] # None /\ windows'[k].count <= Limit) =>
           \/ k \in Running(windows) /\ windows[k].count >= Limit
           \/ k \notin Running(windows) /\ Cardinality(Running(windows)) >= MaxKeys
  BY <1>1, AllowEffect
<1>4. Limits'
  <2>1. refusals' = [q \in Keys |-> refusals'[q]]
    BY <1>1, <1>2
  <2> QED
    BY <1>2, <1>3, <2>1 DEF Limits, Size
<1>5. \A q \in Keys : refusals'[q] # refusals[q] => q = k /\ ~(windows'[k] # None /\ windows'[k].count <= Limit)
  BY <1>1, <1>2
<1> QED
  BY <1>3, <1>4, <1>5

(* Every step but a sign-in's and a restart's. *)
LEMMA StepsLeaveLimits ==
  ASSUME Limits, [Next]_vars, ~Restart, \A s \in Slots : ~Login(s)
  PROVE  UNCHANGED <<backend, windows, operations, refusals>> /\ now' \in Nat
<1> DEFINE Left == UNCHANGED <<backend, windows, operations, refusals>> /\ now' \in Nat
<1>1. CASE UNCHANGED vars
  BY <1>1 DEF vars, limiter, Limits
<1>2. CASE ServerStarts \/ ResetPassword \/ SweepSessions \/ Tick
  BY <1>2 DEF ServerStarts, ResetPassword, SweepSessions, Tick, limiter, Limits
<1>3. ASSUME NEW s \in Slots, SignIn(s) PROVE Left
  BY <1>3 DEF SignIn, ReadRow, CheckPassword, CheckAgain, StoreSession, IndexSession, Logout,
     DeleteSession, ForgetSession, Authenticate, RequestFails, limiter, Limits
<1>4. ASSUME NEW s \in Slots, Page(s) PROVE Left
  <2>1. CASE \/ OpenConsole(s) \/ CheckSession(s) \/ SignedInAlready(s) \/ PlayerAction(s)
             \/ PlayerActionDone(s) \/ ListAnswered(s)
    BY <2>1 DEF OpenConsole, CheckSession, SignedInAlready, PlayerAction, PlayerActionDone,
       ListAnswered, limiter, Limits
  <2>2. CASE (\E query \in Queries : Search(s, query)) \/ OnNext(s) \/ OnPrevious(s) \/ Refresh(s)
    BY <2>2 DEF Search, OnNext, OnPrevious, Refresh, Loads, limiter, Limits
  <2> QED
    BY <1>4, <2>1, <2>2 DEF Page
<1> QED
  BY <1>1, <1>2, <1>3, <1>4 DEF Next

LEMMA RestartLimits ==
  ASSUME Limits, Restart
  PROVE  Limits' /\ UNCHANGED refusals
<1>1. now' \in Nat /\ UNCHANGED <<backend, refusals>>
  BY DEF Restart, Limits
<1>2. CASE backend # "memory"
  BY <1>1, <1>2, LimitsStay DEF Restart
<1>3. CASE backend = "memory"
  <2>1. windows' = [k \in Keys |-> None] /\ operations' = 0
    BY <1>3 DEF Restart
  <2>2. {k \in Keys : windows'[k] # None} = {}
    BY <2>1
  <2>3. Size(windows') = 0
    BY <2>2, FS_EmptySet DEF Size
  <2> QED
    BY <1>1, <2>1, <2>3, ConsoleAssumption DEF Limits, Size
<1> QED
  BY <1>2, <1>3

LEMMA LimitsKept ==
  ASSUME Limits, [Next]_vars
  PROVE  /\ Limits'
         /\ \A k \in Keys : refusals'[k] # refusals[k] =>
              \/ k \in Running(windows) /\ windows[k].count >= Limit
              \/ k \notin Running(windows) /\ Cardinality(Running(windows)) >= MaxKeys
<1>1. CASE Restart
  BY <1>1, RestartLimits
<1>2. ASSUME NEW s \in Slots, Login(s)
      PROVE  /\ Limits'
             /\ \A k \in Keys : refusals'[k] # refusals[k] =>
                  \/ k \in Running(windows) /\ windows[k].count >= Limit
                  \/ k \notin Running(windows) /\ Cardinality(Running(windows)) >= MaxKeys
  BY <1>2, LoginLimits
<1>3. CASE ~Restart /\ \A s \in Slots : ~Login(s)
  BY <1>3, StepsLeaveLimits, LimitsStay
<1> QED
  BY <1>1, <1>2, <1>3

LEMMA AlwaysLimits == Spec => []Limits
<1>1. Limits /\ [Next]_vars => Limits'
  BY LimitsKept
<1> QED
  BY <1>1, LimitsStart, PTL DEF Spec

(* A sign-in is refused only if its address used its minute up, or if the table
   of the memory limiter is full of minutes that still run. *)
THEOREM RefusalsAreDeserved == Spec => RefusalIsDeserved
<1>1. Limits /\ [Next]_vars =>
        [\A k \in Keys : refusals'[k] # refusals[k] =>
          \/ k \in Running(windows) /\ windows[k].count >= Limit
          \/ k \notin Running(windows) /\ Cardinality(Running(windows)) >= MaxKeys]_vars
  BY LimitsKept
<1> QED
  BY <1>1, AlwaysLimits, PTL DEF Spec, RefusalIsDeserved

-----------------------------------------------------------------------------
(* The sessions that are indexed, or that the reset has still to delete, were opened. *)

Indexed ==
    /\ index \subseteq 1..opened /\ opened <= MaxSids
    /\ script.at \in {"idle", "index", "delete"} /\ script.sids \subseteq 1..opened

LEMMA IndexedStart == Init => Indexed
<1> SUFFICES ASSUME Init PROVE Indexed
  OBVIOUS
<1>1. opened \in {0, 1} /\ index = {i \in {1} : opened = 1}
  BY DEF Init
<1>2. script.at = "idle" /\ script.sids = {}
  BY DEF Init
<1> QED
  BY <1>1, <1>2, ConsoleAssumption DEF Indexed

LEMMA IndexedStay ==
  ASSUME Inv, Indexed, opened' = opened, index' \subseteq index,
         script' = script
  PROVE  Indexed'
BY DEF Indexed

LEMMA StepsIndex ==
  ASSUME Inv, Indexed, [Next]_vars
  PROVE  Indexed'
<1>1. CASE ServerStarts \/ Tick \/ UNCHANGED vars
  BY <1>1, IndexedStay DEF ServerStarts, Tick, sessions, vars
<1>2. CASE Restart
  <2>1. index' \in {{}, index} /\ UNCHANGED <<opened, script>>
    BY <1>2 DEF Restart
  <2> QED
    BY <2>1, IndexedStay
<1>3. CASE ResetPassword
  BY <1>3 DEF ResetPassword, Script, sessions, Indexed
<1>4. CASE SweepSessions
  <2>1. opened' = opened /\ index' \subseteq index
    BY <1>4 DEF SweepSessions
  <2>2. script'.at \in {"idle", "delete"} /\ script'.sids \subseteq script.sids \cup index
    BY <1>4 DEF SweepSessions, Script
  <2> QED
    BY <2>1, <2>2 DEF Indexed
<1>5. ASSUME NEW s \in Slots, SignIn(s) PROVE Indexed'
  <2>1. CASE Login(s) \/ ReadRow(s) \/ CheckPassword(s) \/ CheckAgain(s) \/ Logout(s)
             \/ Authenticate(s) \/ RequestFails(s)
    BY <2>1, IndexedStay DEF Login, ReadRow, CheckPassword, CheckAgain, Logout, Authenticate,
       RequestFails, sessions
  <2>2. CASE StoreSession(s)
    <3>1. /\ opened < MaxSids /\ opened' \in {opened, opened + 1} /\ index' \subseteq index
          /\ UNCHANGED script
      BY <2>2 DEF StoreSession
    <3> QED
      BY <3>1, ConsoleAssumption DEF Indexed, Inv, Types
  <2>3. CASE IndexSession(s)
    <3>1. call[s].sid \in 1..opened
      BY <2>3, CallFacts DEF IndexSession, At, Sound
    <3> QED
      BY <2>3, <3>1 DEF IndexSession, Indexed
  <2>4. CASE DeleteSession(s) \/ ForgetSession(s)
    <3>1. index' \subseteq index /\ UNCHANGED <<opened, script>>
      BY <2>4 DEF DeleteSession, ForgetSession
    <3> QED
      BY <3>1, IndexedStay
  <2> QED
    BY <1>5, <2>1, <2>2, <2>3, <2>4 DEF SignIn
<1>6. ASSUME NEW s \in Slots, Page(s) PROVE Indexed'
  <2>1. CASE \/ OpenConsole(s) \/ CheckSession(s) \/ SignedInAlready(s) \/ PlayerAction(s)
             \/ PlayerActionDone(s) \/ ListAnswered(s)
    BY <2>1, IndexedStay DEF OpenConsole, CheckSession, SignedInAlready, PlayerAction,
       PlayerActionDone, ListAnswered, sessions
  <2>2. CASE (\E query \in Queries : Search(s, query)) \/ OnNext(s) \/ OnPrevious(s) \/ Refresh(s)
    BY <2>2, IndexedStay DEF Search, OnNext, OnPrevious, Refresh, Loads, sessions
  <2> QED
    BY <1>6, <2>1, <2>2 DEF Page
<1> QED
  BY <1>1, <1>2, <1>3, <1>4, <1>5, <1>6 DEF Next

-----------------------------------------------------------------------------
(* The list of players in the browser.  Its state and that of its one request
   hang together, in every state that no known exception went before. *)

Paged(p) ==
    p \in [here : BOOLEAN, busy : BOOLEAN, cursor : Cursor \cup {None}, next : Cursor \cup {None},
           previous : Seq(Cursor), query : Queries, pending : Queries \cup {None},
           items : {p.items}, failed : BOOLEAN, muddled : BOOLEAN]

Wanted(c) ==
    /\ c.op \in {"none", "login", "logout", "list", "ban", "session"}
    /\ c.query \in Queries /\ c.cursor \in Cursor \cup {None} /\ c.held \in Cursor \cup {None}

(* The cursor of the next page belongs to that of the page loaded last. *)
Linked(p) ==
    p.next # None => ValidCursor(p.cursor, p.next.query) /\ p.next = NextCursor(p.cursor, p.next.query)

(* The way back is that of the page loaded last, or there is none: the query has
   been replaced, and its first page is not there yet. *)
Backed(p) == p.previous = IF ValidCursor(p.cursor, p.query) THEN WayBack(p) ELSE <<>>

Rests(p) == Backed(p) /\ (p.failed \/ Shown(p))

(* What the request under way asked for. *)
Asks(c, p) ==
    \/ c.then \in {"plain", "action"} /\ c.cursor = None /\ p.previous = <<>>
    \/ c.then = "plain" /\ c.cursor = p.cursor /\ Backed(p)
    \/ c.then = "next" /\ c.cursor = p.next /\ c.cursor # None /\ c.held = p.cursor /\ Backed(p)
    \/ /\ c.then = "previous" /\ p.previous # <<>> /\ Backed(p)
       /\ c.cursor = p.previous[Len(p.previous)]

Awaits(c, p) ==
    \/ c.op = "ban" /\ Rests(p)
    \/ c.op = "list" /\ c.query = p.query /\ Asks(c, p)

Orderly ==
    /\ ~ui.busy => Requests = {} /\ ui.pending = None /\ Rests(ui)
    /\ ui.busy => \E s \in Slots : Requests = {s} /\ Awaits(call[s], ui)

PageInv ==
    /\ Paged(ui) /\ Linked(ui) /\ \A s \in Slots : Wanted(call[s])
    /\ ui.here /\ ~ui.muddled => Orderly

-----------------------------------------------------------------------------
(* What the page's state means where some of it has changed. *)

LEMMA BackedSame ==
  ASSUME NEW p, NEW q, q.cursor = p.cursor, q.query = p.query, q.previous = p.previous
  PROVE  Backed(q) = Backed(p)
BY DEF Backed, WayBack

LEMMA RestsSame ==
  ASSUME NEW p, NEW q, q.cursor = p.cursor, q.query = p.query, q.previous = p.previous,
         q.next = p.next, q.items = p.items, q.failed = p.failed
  PROVE  Rests(q) <=> Rests(p)
BY BackedSame DEF Rests, Shown, WayBack

LEMMA AwaitsSame ==
  ASSUME NEW p, NEW q, q.cursor = p.cursor, q.query = p.query, q.previous = p.previous,
         q.next = p.next, q.items = p.items, q.failed = p.failed,
         NEW c, NEW d, d.op = c.op, d.query = c.query, d.cursor = c.cursor, d.then = c.then,
         d.held = c.held, Awaits(c, p)
  PROVE  Awaits(d, q)
BY BackedSame, RestsSame DEF Awaits, Asks

LEMMA LinkedSame ==
  ASSUME NEW p, NEW q, q.cursor = p.cursor, q.next = p.next, Linked(p)
  PROVE  Linked(q)
BY DEF Linked

LEMMA WayBackShort ==
  ASSUME NEW p, PageAfter(p.cursor) \in {1, 2}
  PROVE  WayBack(p) = <<>>
<1>1. 1..(PageAfter(p.cursor) - 2) = {}
  OBVIOUS
<1> QED
  BY <1>1 DEF WayBack

LEMMA AwayPaged == Paged(Away) /\ Linked(Away)
<1>1. Away.items = None /\ Away.next = None
  BY DEF Away
<1>2. <<>> \in Seq(Cursor)
  OBVIOUS
<1> QED
  BY <1>1, <1>2, ConsoleAssumption DEF Paged, Linked, Away

LEMMA IdleWanted == Wanted(Idle) /\ ~OfPage(Idle)
BY ConsoleAssumption DEF Wanted, Idle, OfPage

LEMMA FreshWanted ==
  ASSUME NEW op, NEW query, NEW cursor, NEW then, NEW held,
         NEW c \in Fresh(op, query, cursor, then, held)
  PROVE  /\ c.op = op /\ c.query = query /\ c.cursor = cursor /\ c.then = then /\ c.held = held
BY DEF Fresh

(* The requests of the page after a step that touches one slot. *)
LEMMA RequestsOf ==
  ASSUME NEW s \in Slots, \A t \in Slots \ {s} : ~OfPage(call'[t])
  PROVE  Requests' = IF OfPage(call'[s]) THEN {s} ELSE {}
BY DEF Requests, OfPage

LEMMA OnlyRequest ==
  ASSUME NEW s \in Slots, OfPage(call[s]), Orderly, Paged(ui)
  PROVE  ui.busy /\ Awaits(call[s], ui) /\ \A t \in Slots \ {s} : ~OfPage(call[t])
<1>1. s \in Requests
  BY DEF Requests
<1>2. ui.busy
  BY <1>1 DEF Orderly, Paged
<1>3. PICK t \in Slots : Requests = {t} /\ Awaits(call[t], ui)
  BY <1>2 DEF Orderly
<1>4. t = s
  BY <1>1, <1>3
<1> QED
  BY <1>2, <1>3, <1>4 DEF Requests

-----------------------------------------------------------------------------
(* Steps that the page does not notice. *)

Retains(d, c) ==
    \/ d.op = c.op /\ d.query = c.query /\ d.cursor = c.cursor /\ d.then = c.then /\ d.held = c.held
    \/ ~OfPage(c) /\ ~OfPage(d) /\ Wanted(d)

LEMMA UnnoticedKeeps ==
  ASSUME PageInv, ui' = ui, \A s \in Slots : Retains(call'[s], call[s])
  PROVE  PageInv'
<1>1. \A s \in Slots : Wanted(call'[s])
  BY DEF PageInv, Wanted, Retains
<1>2. Requests' = Requests
  BY DEF Requests, OfPage, Retains
<1>3. ASSUME Orderly PROVE Orderly'
  <2>1. CASE ~ui.busy
    BY <1>2, <1>3, <2>1, RestsSame DEF Orderly
  <2>2. CASE ui.busy
    <3>1. PICK s \in Slots : Requests = {s} /\ Awaits(call[s], ui)
      BY <1>3, <2>2 DEF Orderly
    <3>2. OfPage(call[s])
      BY <3>1 DEF Requests
    <3>3. Awaits(call'[s], ui')
      BY <3>1, <3>2, AwaitsSame DEF Retains
    <3> QED
      BY <1>2, <2>2, <3>1, <3>3 DEF Orderly
  <2> QED
    BY <2>1, <2>2
<1>4. (Paged(ui) /\ Linked(ui))'
  BY LinkedSame DEF PageInv, Paged
<1> QED
  BY <1>1, <1>3, <1>4 DEF PageInv

LEMMA SlotUnnoticed ==
  ASSUME PageInv, ui' = ui, NEW s \in Slots, Retains(call'[s], call[s]),
         \A t \in Slots \ {s} : call'[t] = call[t]
  PROVE  PageInv'
BY UnnoticedKeeps DEF Retains

LEMMA GoesUnnoticed ==
  ASSUME Inv, PageInv, ui' = ui, NEW s \in Slots, NEW at, Goes(s, at)
  PROVE  PageInv'
<1>1. call'[s] \in Moved(call[s], at, call[s].todo, call[s].sid) /\ OneSlot(s)
  BY GoesTo
<1>2. Retains(call'[s], call[s])
  BY <1>1 DEF Moved, Retains
<1>3. \A t \in Slots \ {s} : call'[t] = call[t]
  BY DEF Goes, Inv, Types
<1> QED
  BY <1>2, <1>3, SlotUnnoticed

(* A request that is not the page's, and one that takes its place. *)
LEMMA OtherUnnoticed ==
  ASSUME Inv, PageInv, ui' = ui, NEW s \in Slots, NEW d, call' = [call EXCEPT ![s] = d],
         ~OfPage(call[s]), ~OfPage(d), Wanted(d)
  PROVE  PageInv'
<1>1. call'[s] = d /\ \A t \in Slots \ {s} : call'[t] = call[t]
  BY DEF Inv, Types
<1> QED
  BY <1>1, SlotUnnoticed DEF Retains

LEMMA EndsUnnoticed ==
  ASSUME Inv, PageInv, ui' = ui, NEW s \in Slots, ~OfPage(call[s]), Ends(s)
  PROVE  PageInv'
BY OtherUnnoticed, IdleWanted DEF Ends

LEMMA SystemUnnoticed ==
  ASSUME Inv, PageInv, ServerStarts \/ Restart \/ ResetPassword \/ SweepSessions \/ Tick
  PROVE  PageInv'
<1>1. ui' = ui
  BY DEF ServerStarts, Restart, ResetPassword, SweepSessions, Tick, browser
<1>2. CASE ServerStarts \/ ResetPassword \/ SweepSessions \/ Tick
  <2>1. call' = call
    BY <1>2 DEF ServerStarts, ResetPassword, SweepSessions, Tick
  <2> QED
    BY <1>1, <2>1, UnnoticedKeeps DEF Retains
<1>3. CASE Restart
  <2>1. ASSUME NEW s \in Slots PROVE Retains(call'[s], call[s])
    <3> DEFINE c == call[s]
               d == [c EXCEPT !.at = "failed"]
    <3>1. CASE OfPage(c)
      <4>1. call'[s] = d
        BY <1>3, <3>1 DEF Restart, OfPage
      <4>2. Retains(d, c)
        BY CallFacts DEF Request, Retains
      <4> QED
        BY <4>1, <4>2
    <3>2. CASE ~OfPage(c)
      <4>1. call'[s] = Idle
        BY <1>3, <3>2 DEF Restart, OfPage
      <4> QED
        BY <3>2, <4>1, IdleWanted DEF Retains
    <3> QED
      BY <3>1, <3>2
  <2> QED
    BY <1>1, <2>1, UnnoticedKeeps
<1> QED
  BY <1>2, <1>3

LEMMA SignInUnnoticed ==
  ASSUME Inv, PageInv, NEW s \in Slots,
         \/ Login(s) \/ ReadRow(s) \/ CheckPassword(s) \/ CheckAgain(s) \/ StoreSession(s)
         \/ Logout(s) \/ DeleteSession(s) \/ ForgetSession(s) \/ RequestFails(s)
  PROVE  PageInv'
<1> DEFINE c == call[s]
<1>1. ui' = ui
  BY DEF Login, ReadRow, CheckPassword, CheckAgain, StoreSession, Logout, DeleteSession,
     ForgetSession, RequestFails, browser
<1>2. CASE Login(s)
  <2>1. CASE UNCHANGED call
    BY <1>1, <2>1, UnnoticedKeeps DEF Retains
  <2>2. ASSUME NEW typed \in 1..hash,
               call' = [call EXCEPT ![s] = [Idle EXCEPT !.op = "login", !.at = "read",
                                               !.todo = {"hash", "generation"}, !.typed = typed]]
        PROVE  PageInv'
    <3> DEFINE d == [Idle EXCEPT !.op = "login", !.at = "read",
                                 !.todo = {"hash", "generation"}, !.typed = typed]
    <3>1. Wanted(d) /\ ~OfPage(d)
      BY ConsoleAssumption DEF Wanted, Idle, OfPage
    <3>2. ~OfPage(c)
      BY <1>2, IdleWanted DEF Login, Idles
    <3> HIDE DEF d
    <3> QED
      BY <1>1, <2>2, <3>1, <3>2, OtherUnnoticed DEF d
  <2> QED
    BY <1>2, <2>1, <2>2 DEF Login
<1>3. CASE ReadRow(s)
  <2>1. PICK name \in c.todo :
          call' = [call EXCEPT
              ![s].todo = @ \ {name},
              ![s].read = IF call[s].at = "read" THEN [@ EXCEPT ![name] = Row(call[s], name)] ELSE @,
              ![s].again = IF call[s].at = "again" THEN [@ EXCEPT ![name] = Row(call[s], name)] ELSE @]
    BY <1>3 DEF ReadRow
  <2> DEFINE todo == c.todo \ {name}
             read == IF c.at = "read" THEN [c.read EXCEPT ![name] = Row(c, name)] ELSE c.read
             again == IF c.at = "again" THEN [c.again EXCEPT ![name] = Row(c, name)] ELSE c.again
             d == [c EXCEPT !.todo = todo, !.read = read, !.again = again]
  <2>2. call'[s] = d /\ \A t \in Slots \ {s} : call'[t] = call[t]
    BY <2>1 DEF Inv, Types
  <2> HIDE DEF todo, read, again
  <2>3. Retains(d, c)
    BY CallFacts DEF Request, Retains
  <2> HIDE DEF d
  <2> QED
    BY <1>1, <2>2, <2>3, SlotUnnoticed
<1>4. CASE CheckPassword(s)
  <2> DEFINE d == [c EXCEPT !.at = "again", !.todo = {"hash", "generation"}]
  <2>1. call' = [call EXCEPT ![s] = IF c.read.hash # 0 /\ c.read.hash = c.typed THEN d ELSE Idle]
        /\ c.op = "login"
    BY <1>4 DEF CheckPassword, At, Inv, Types
  <2>2. Wanted(d) /\ ~OfPage(d) /\ ~OfPage(c)
    BY <2>1, CallFacts DEF Request, PageInv, Wanted, OfPage
  <2> HIDE DEF d, c
  <2>3. CASE call' = [call EXCEPT ![s] = d]
    BY <1>1, <2>2, <2>3, OtherUnnoticed DEF c
  <2>4. CASE call' = [call EXCEPT ![s] = Idle]
    BY <1>1, <2>2, <2>4, OtherUnnoticed, IdleWanted DEF c
  <2> QED
    BY <2>1, <2>3, <2>4
<1>5. CASE CheckAgain(s)
  <2>1. ~OfPage(c)
    BY <1>5 DEF CheckAgain, At, OfPage
  <2> QED
    BY <1>1, <1>5, <2>1, GoesUnnoticed, EndsUnnoticed DEF CheckAgain
<1>6. CASE StoreSession(s)
  <2>1. ~OfPage(c) /\ c.op = "login"
    BY <1>6 DEF StoreSession, At, OfPage
  <2>2. CASE Ends(s)
    BY <1>1, <2>1, <2>2, EndsUnnoticed
  <2>3. CASE call' = [call EXCEPT ![s].at = "index", ![s].sid = opened + 1]
    <3> DEFINE d == [c EXCEPT !.at = "index", !.sid = opened + 1]
    <3>1. call'[s] = d /\ \A t \in Slots \ {s} : call'[t] = call[t]
      BY <2>3 DEF Inv, Types
    <3>2. Retains(d, c)
      BY CallFacts DEF Request, Retains
    <3> HIDE DEF d
    <3> QED
      BY <1>1, <3>1, <3>2, SlotUnnoticed
  <2> QED
    BY <1>6, <2>2, <2>3 DEF StoreSession
<1>7. CASE Logout(s)
  <2> DEFINE d == [Idle EXCEPT !.op = "logout", !.at = "del", !.sid = cookie]
  <2>1. Wanted(d) /\ ~OfPage(d)
    BY ConsoleAssumption DEF Wanted, Idle, OfPage
  <2>2. ~OfPage(c)
    BY <1>7, IdleWanted DEF Logout, Idles
  <2> HIDE DEF d
  <2> QED
    BY <1>1, <1>7, <2>1, <2>2, OtherUnnoticed DEF Logout, d
<1>8. CASE DeleteSession(s)
  BY <1>1, <1>8, GoesUnnoticed DEF DeleteSession
<1>9. CASE ForgetSession(s)
  BY <1>1, <1>9, EndsUnnoticed DEF ForgetSession, At, OfPage
<1>10. CASE RequestFails(s)
  BY <1>1, <1>10, GoesUnnoticed, EndsUnnoticed DEF RequestFails
<1> QED
  BY <1>2, <1>3, <1>4, <1>5, <1>6, <1>7, <1>8, <1>9, <1>10

-----------------------------------------------------------------------------
(* The console is opened, and left for the sign-in. *)

(* A page that has just been opened, with its first request. *)
LEMMA OpenedKeeps ==
  ASSUME Inv, PageInv, NEW s \in Slots, ui' = [Away EXCEPT !.here = TRUE, !.busy = TRUE],
         NEW d, call' = [PageLeft EXCEPT ![s] = d], Wanted(d),
         d.op = "list", d.query = NoQuery, d.cursor = None, d.then = "plain"
  PROVE  PageInv'
<1>1. call'[s] = d /\ \A t \in Slots \ {s} : call'[t] \in {call[t], Idle} /\ ~OfPage(call'[t])
  BY IdleWanted DEF PageLeft
<1>2. \A t \in Slots : Wanted(call'[t])
  BY <1>1, IdleWanted DEF PageInv
<1>3. Requests' = {s}
  BY <1>1, RequestsOf DEF OfPage
<1>4. /\ ui'.busy /\ ui'.query = NoQuery /\ ui'.previous = <<>>
      /\ ui'.cursor = Away.cursor /\ ui'.next = Away.next
  BY DEF Away
<1>5. Paged(ui') /\ Linked(ui')
  <2>1. Paged(ui')
    BY AwayPaged DEF Paged
  <2> QED
    BY <1>4, <2>1, AwayPaged, LinkedSame
<1>6. Awaits(call'[s], ui')
  BY <1>1, <1>4 DEF Awaits, Asks
<1>7. Orderly'
  BY <1>3, <1>4, <1>6 DEF Orderly
<1> QED
  BY <1>2, <1>5, <1>7 DEF PageInv

LEMMA ConsolePage ==
  ASSUME Inv, PageInv, NEW s \in Slots, OpenConsole(s) \/ SignedInAlready(s) \/ IndexSession(s)
  PROVE  PageInv'
<1> DEFINE l == Listing(NoQuery, None, "plain", None)
<1>1. l \in Fresh("list", NoQuery, None, "plain", None) /\ NoQuery \in Queries
  BY ListingFresh, ConsoleAssumption
<1> HIDE DEF l
<1>2. Wanted(l) /\ l.op = "list" /\ l.query = NoQuery /\ l.cursor = None /\ l.then = "plain"
      /\ l.held = None
  BY <1>1, FreshWanted DEF Wanted
<1>3. CASE OpenConsole(s) \/ SignedInAlready(s)
  BY <1>2, <1>3, OpenedKeeps DEF OpenConsole, SignedInAlready, ConsoleOpens, l
<1>4. CASE IndexSession(s)
  <2> DEFINE d == [l EXCEPT !.sid = call[s].sid, !.gone = FALSE]
  <2>1. d.op = l.op /\ d.query = l.query /\ d.cursor = l.cursor /\ d.then = l.then /\ d.held = l.held
    BY <1>1 DEF Fresh
  <2>2. call' = [PageLeft EXCEPT ![s] = d] /\ ui' = [Away EXCEPT !.here = TRUE, !.busy = TRUE]
    BY <1>4 DEF IndexSession, l
  <2> HIDE DEF d
  <2> QED
    BY <1>2, <2>1, <2>2, OpenedKeeps DEF Wanted
<1> QED
  BY <1>3, <1>4

LEMMA CheckSessionPage ==
  ASSUME Inv, PageInv, NEW s \in Slots, CheckSession(s)
  PROVE  PageInv'
<1> DEFINE d == Asked("session")
<1>1. d \in Fresh("session", NoQuery, None, "plain", None) /\ NoQuery \in Queries
  BY AskedFresh, ConsoleAssumption
<1>2. ui' = ui /\ call' = [call EXCEPT ![s] = d] /\ ~OfPage(call[s])
  BY IdleWanted DEF CheckSession, browser, Idles
<1> HIDE DEF d
<1>3. Wanted(d) /\ ~OfPage(d)
  BY <1>1, FreshWanted DEF Wanted, OfPage
<1> QED
  BY <1>2, <1>3, OtherUnnoticed

(* A refused request takes its page to the sign-in. *)
LEMMA AuthenticatePage ==
  ASSUME Inv, PageInv, NEW s \in Slots, Authenticate(s)
  PROVE  PageInv'
<1>1. CASE Goes(s, "accepted") /\ ui' = ui
  BY <1>1, GoesUnnoticed
<1>2. CASE ~OfPage(call[s]) /\ Ends(s) /\ ui' = ui
  BY <1>2, EndsUnnoticed
<1>3. CASE ui' = Away /\ call' = PageLeft
  <2>1. \A t \in Slots : Wanted(call'[t])
    BY <1>3, IdleWanted DEF PageLeft, PageInv
  <2>2. ~Away.here
    BY DEF Away
  <2> QED
    BY <1>3, <2>1, <2>2, AwayPaged DEF PageInv
<1> QED
  BY <1>1, <1>2, <1>3 DEF Authenticate

-----------------------------------------------------------------------------
(* The clicks. *)

(* What an idle page is, whose order was never muddled. *)
LEMMA AtRest ==
  ASSUME PageInv, ui.here, ~ui.busy
  PROVE  ui.muddled \/ (Requests = {} /\ ui.pending = None /\ Rests(ui))
BY DEF PageInv, Orderly

(* The page asks for a list while no request of it is under way. *)
LEMMA LoadsPage ==
  ASSUME Inv, PageInv, NEW s \in Slots, NEW page, NEW cursor \in Cursor \cup {None}, NEW then,
         NEW held \in Cursor \cup {None}, Loads(s, page, cursor, then, held),
         Paged(page), Linked(page), page.here,
         page.muddled \/ (Requests = {} /\ Asks(Listing(page.query, cursor, then, held), page))
  PROVE  PageInv'
<1> DEFINE l == Listing(page.query, cursor, then, held)
           q == [page EXCEPT !.busy = TRUE]
<1>1. l \in Fresh("list", page.query, cursor, then, held) /\ page.query \in Queries
  BY ListingFresh DEF Paged
<1>2. call' = [call EXCEPT ![s] = l] /\ ui' = q
  BY DEF Loads
<1> HIDE DEF l
<1>3. /\ Wanted(l) /\ OfPage(l) /\ l.op = "list" /\ l.query = page.query /\ l.cursor = cursor
      /\ l.then = then /\ l.held = held
  BY <1>1, FreshWanted DEF Wanted, OfPage
<1>4. call'[s] = l /\ \A t \in Slots \ {s} : call'[t] = call[t]
  BY <1>2 DEF Inv, Types
<1>5. /\ Paged(q) /\ q.busy /\ q.here = page.here /\ q.cursor = page.cursor /\ q.next = page.next
      /\ q.previous = page.previous /\ q.query = page.query /\ q.muddled = page.muddled
  BY DEF Paged
<1> HIDE DEF q
<1>6. Linked(q)
  BY <1>5, LinkedSame
<1>7. \A t \in Slots : Wanted(call'[t])
  BY <1>3, <1>4 DEF PageInv
<1>8. ASSUME ~page.muddled PROVE Orderly'
  <2>1. Requests' = {s}
    BY <1>3, <1>4, <1>8, RequestsOf DEF Requests, OfPage
  <2>2. Asks(l, q)
    BY <1>5, <1>8, BackedSame DEF Asks, l
  <2>3. Awaits(call'[s], ui')
    BY <1>2, <1>3, <1>4, <1>5, <2>2 DEF Awaits
  <2> QED
    BY <1>2, <1>5, <2>1, <2>3 DEF Orderly
<1> QED
  BY <1>2, <1>5, <1>6, <1>7, <1>8 DEF PageInv

(* What a list asks for. *)
LEMMA ListingAsks ==
  ASSUME NEW query, NEW cursor, NEW then, NEW held
  PROVE  LET c == Listing(query, cursor, then, held)
         IN  /\ c.op = "list" /\ c.query = query /\ c.cursor = cursor /\ c.then = then
             /\ c.held = held
<1> DEFINE c == Listing(query, cursor, then, held)
<1>1. c \in Fresh("list", query, cursor, then, held)
  BY ListingFresh
<1> HIDE DEF c
<1> QED
  BY <1>1, FreshWanted DEF c

LEMMA SearchingPaged ==
  ASSUME NEW page, Paged(page), NEW query \in Queries
  PROVE  LET q == Searching(page, query)
         IN  /\ Paged(q) /\ q.query = query /\ q.previous = <<>> /\ q.here = page.here
             /\ q.busy = page.busy /\ q.cursor = page.cursor /\ q.next = page.next
             /\ q.pending = page.pending /\ q.muddled = page.muddled
<1>1. <<>> \in Seq(Cursor)
  OBVIOUS
<1> QED
  BY <1>1 DEF Searching, Paged

LEMMA SearchPage ==
  ASSUME Inv, PageInv, NEW s \in Slots, NEW query \in Queries, Search(s, query)
  PROVE  PageInv'
<1>1. CASE ui.busy
  <2> DEFINE q == [ui EXCEPT !.pending = query]
  <2>1. ui' = q /\ call' = call
    BY <1>1 DEF Search
  <2>2. /\ Paged(q) /\ q.busy = ui.busy /\ q.here = ui.here /\ q.cursor = ui.cursor
        /\ q.next = ui.next /\ q.previous = ui.previous /\ q.query = ui.query
        /\ q.muddled = ui.muddled /\ q.items = ui.items /\ q.failed = ui.failed
    BY DEF Paged, PageInv
  <2> HIDE DEF q
  <2>3. Linked(q) /\ Requests' = Requests /\ \A t \in Slots : Wanted(call'[t])
    BY <2>1, <2>2, LinkedSame DEF PageInv, Requests, OfPage
  <2>4. ASSUME Orderly PROVE Orderly'
    <3>1. PICK t \in Slots : Requests = {t} /\ Awaits(call[t], ui)
      BY <1>1, <2>4 DEF Orderly
    <3>2. Awaits(call[t], q)
      BY <2>2, <3>1, AwaitsSame
    <3> QED
      BY <1>1, <2>1, <2>2, <2>3, <3>1, <3>2 DEF Orderly
  <2> QED
    BY <2>1, <2>2, <2>3, <2>4 DEF PageInv
<1>2. CASE ~ui.busy
  <2> DEFINE q == Searching(ui, query)
             l == Listing(q.query, None, "plain", None)
  <2>1. Loads(s, q, None, "plain", None) /\ ui.here
    BY <1>2 DEF Search
  <2>2. /\ Paged(q) /\ q.query = query /\ q.previous = <<>> /\ q.here = ui.here
        /\ q.cursor = ui.cursor /\ q.next = ui.next /\ q.muddled = ui.muddled
    BY SearchingPaged DEF PageInv
  <2>3. l.cursor = None /\ l.then = "plain"
    BY ListingAsks
  <2> HIDE DEF q
  <2>4. Linked(q)
    BY <2>2, LinkedSame DEF PageInv
  <2>5. Asks(l, q)
    BY <2>2, <2>3 DEF Asks
  <2> HIDE DEF l
  <2>6. q.muddled \/ (Requests = {} /\ Asks(l, q))
    BY <1>2, <2>1, <2>2, <2>5, AtRest
  <2> QED
    BY <2>1, <2>2, <2>4, <2>6, LoadsPage DEF l
<1> QED
  BY <1>1, <1>2 DEF Search, PageInv, Paged

LEMMA LastPrevious ==
  ASSUME Paged(ui), ui.previous # <<>>
  PROVE  ui.previous[Len(ui.previous)] \in Cursor
<1>1. ui.previous \in Seq(Cursor)
  BY DEF Paged
<1>2. Len(ui.previous) \in 1..Len(ui.previous)
  BY <1>1
<1> QED
  BY <1>1, <1>2

LEMMA TurnPage ==
  ASSUME Inv, PageInv, NEW s \in Slots, OnNext(s) \/ OnPrevious(s) \/ Refresh(s)
  PROVE  PageInv'
<1>1. /\ ui.here /\ ~ui.busy /\ Paged(ui) /\ Linked(ui)
      /\ ui.cursor \in Cursor \cup {None} /\ ui.next \in Cursor \cup {None}
      /\ None \in Cursor \cup {None}
  BY DEF OnNext, OnPrevious, Refresh, PageInv, Paged
<1>2. ui.muddled \/ (Requests = {} /\ Backed(ui))
  BY <1>1, AtRest DEF Rests
<1>3. CASE OnNext(s)
  <2> DEFINE l == Listing(ui.query, ui.next, "next", ui.cursor)
  <2>1. l.cursor = ui.next /\ l.then = "next" /\ l.held = ui.cursor
    BY ListingAsks
  <2> HIDE DEF l
  <2>2. Backed(ui) => Asks(l, ui)
    BY <1>3, <2>1 DEF Asks, OnNext
  <2> QED
    BY <1>1, <1>2, <1>3, <2>2, LoadsPage DEF OnNext, l
<1>4. CASE OnPrevious(s)
  <2> DEFINE last == ui.previous[Len(ui.previous)]
             l == Listing(ui.query, last, "previous", None)
  <2>1. l.cursor = last /\ l.then = "previous" /\ last \in Cursor
    BY <1>1, <1>4, ListingAsks, LastPrevious DEF OnPrevious
  <2> HIDE DEF l
  <2>2. Backed(ui) => Asks(l, ui)
    BY <1>4, <2>1 DEF Asks, OnPrevious
  <2>3. Loads(s, ui, last, "previous", None) /\ last \in Cursor \cup {None}
    BY <1>4, <2>1 DEF OnPrevious
  <2> HIDE DEF last
  <2> QED
    BY <1>1, <1>2, <2>2, <2>3, LoadsPage DEF l
<1>5. CASE Refresh(s)
  <2> DEFINE l == Listing(ui.query, ui.cursor, "plain", None)
  <2>1. l.cursor = ui.cursor /\ l.then = "plain"
    BY ListingAsks
  <2> HIDE DEF l
  <2>2. Backed(ui) => Asks(l, ui)
    BY <1>5, <2>1 DEF Asks, Refresh
  <2> QED
    BY <1>1, <1>2, <1>5, <2>2, LoadsPage DEF Refresh, l
<1> QED
  BY <1>3, <1>4, <1>5

LEMMA BanPage ==
  ASSUME Inv, PageInv, NEW s \in Slots, PlayerAction(s)
  PROVE  PageInv'
<1> DEFINE d == Asked("ban")
           q == [ui EXCEPT !.busy = TRUE]
<1>1. d \in Fresh("ban", NoQuery, None, "plain", None) /\ NoQuery \in Queries
  BY AskedFresh, ConsoleAssumption
<1>2. call' = [call EXCEPT ![s] = d] /\ ui' = q /\ ui.here /\ ~ui.busy
  BY DEF PlayerAction
<1> HIDE DEF d
<1>3. Wanted(d) /\ OfPage(d) /\ d.op = "ban"
  BY <1>1, FreshWanted DEF Wanted, OfPage
<1>4. call'[s] = d /\ \A t \in Slots \ {s} : call'[t] = call[t]
  BY <1>2 DEF Inv, Types
<1>5. /\ Paged(q) /\ q.busy /\ q.here = ui.here /\ q.cursor = ui.cursor
      /\ q.next = ui.next /\ q.previous = ui.previous /\ q.query = ui.query
      /\ q.muddled = ui.muddled /\ q.items = ui.items /\ q.failed = ui.failed
  BY DEF Paged, PageInv
<1> HIDE DEF q
<1>6. Linked(q) /\ \A t \in Slots : Wanted(call'[t])
  BY <1>3, <1>4, <1>5, LinkedSame DEF PageInv
<1>7. ASSUME Requests = {}, Rests(ui) PROVE Orderly'
  <2>1. Requests' = {s}
    BY <1>3, <1>4, <1>7, RequestsOf DEF Requests, OfPage
  <2>2. Rests(q)
    BY <1>5, <1>7, RestsSame
  <2>3. Awaits(call'[s], ui')
    BY <1>2, <1>3, <1>4, <2>2 DEF Awaits
  <2> QED
    BY <1>2, <1>5, <2>1, <2>3 DEF Orderly
<1> QED
  BY <1>2, <1>5, <1>6, <1>7, AtRest DEF PageInv

(* The answer of a ban: its list is asked for, without a way back. *)
LEMMA BanDonePage ==
  ASSUME Inv, PageInv, NEW s \in Slots, PlayerActionDone(s)
  PROVE  PageInv'
<1>1. OfPage(call[s]) /\ call[s].op = "ban" /\ Paged(ui) /\ Linked(ui)
  BY DEF PlayerActionDone, At, OfPage, PageInv
<1>2. ui.here /\ ~ui.muddled => ui.busy /\ Rests(ui) /\ \A t \in Slots \ {s} : ~OfPage(call[t])
  BY <1>1, OnlyRequest DEF PageInv, Awaits
<1>3. ASSUME ui' = [ui EXCEPT !.busy = TRUE, !.previous = <<>>],
             call' = [call EXCEPT ![s] = Listing(ui.query, None, "action", None)]
      PROVE  PageInv'
  <2> DEFINE l == Listing(ui.query, None, "action", None)
             q == [ui EXCEPT !.busy = TRUE, !.previous = <<>>]
  <2>1. l.op = "list" /\ l.query = ui.query /\ l.cursor = None /\ l.then = "action" /\ l.held = None
    BY ListingAsks
  <2>2. ui' = q /\ call'[s] = l /\ \A t \in Slots \ {s} : call'[t] = call[t]
    BY <1>3 DEF Inv, Types
  <2> HIDE DEF l
  <2>3. Wanted(l) /\ OfPage(l)
    BY <1>1, <2>1 DEF Wanted, OfPage, Paged
  <2>4. <<>> \in Seq(Cursor)
    OBVIOUS
  <2>5. /\ Paged(q) /\ q.busy /\ q.here = ui.here /\ q.cursor = ui.cursor
        /\ q.next = ui.next /\ q.previous = <<>> /\ q.query = ui.query /\ q.muddled = ui.muddled
    BY <1>1, <2>4 DEF Paged
  <2> HIDE DEF q
  <2>6. Linked(q) /\ \A t \in Slots : Wanted(call'[t])
    BY <1>1, <2>2, <2>3, <2>5, LinkedSame DEF PageInv
  <2>7. ASSUME \A t \in Slots \ {s} : ~OfPage(call[t]) PROVE Orderly'
    <3>1. Requests' = {s}
      BY <2>2, <2>3, <2>7, RequestsOf DEF OfPage
    <3>2. Awaits(call'[s], ui')
      BY <2>1, <2>2, <2>5 DEF Awaits, Asks
    <3> QED
      BY <2>2, <2>5, <3>1, <3>2 DEF Orderly
  <2> QED
    BY <1>2, <2>2, <2>5, <2>6, <2>7 DEF PageInv
<1>4. ASSUME ui' = [ui EXCEPT !.busy = FALSE, !.muddled = @ \/ ui.pending # None], Ends(s)
      PROVE  PageInv'
  <2> DEFINE flag == ui.muddled \/ ui.pending # None
             q == [ui EXCEPT !.busy = FALSE, !.muddled = flag]
  <2>1. ui' = q /\ call'[s] = Idle /\ \A t \in Slots \ {s} : call'[t] = call[t]
    BY <1>4 DEF Ends, Inv, Types
  <2>2. flag \in BOOLEAN
    BY <1>1 DEF Paged
  <2> HIDE DEF flag
  <2>3. /\ Paged(q) /\ ~q.busy /\ q.here = ui.here /\ q.cursor = ui.cursor
        /\ q.next = ui.next /\ q.previous = ui.previous /\ q.query = ui.query
        /\ q.muddled = flag /\ q.items = ui.items /\ q.failed = ui.failed /\ q.pending = ui.pending
    BY <1>1, <2>2 DEF Paged
  <2> HIDE DEF q
  <2>4. Linked(q) /\ \A t \in Slots : Wanted(call'[t])
    BY <1>1, <2>1, <2>3, IdleWanted, LinkedSame DEF PageInv
  <2>5. ASSUME \A t \in Slots \ {s} : ~OfPage(call[t]), Rests(ui), ~flag PROVE Orderly'
    <3>1. Requests' = {}
      BY <2>1, <2>5, IdleWanted, RequestsOf DEF OfPage
    <3>2. Rests(ui') /\ ui'.pending = None
      BY <2>1, <2>3, <2>5, RestsSame DEF flag
    <3> QED
      BY <2>1, <2>3, <3>1, <3>2 DEF Orderly
  <2>6. ~flag => ~ui.muddled
    BY DEF flag
  <2> QED
    BY <1>2, <2>1, <2>3, <2>4, <2>5, <2>6 DEF PageInv
<1> QED
  BY <1>3, <1>4 DEF PlayerActionDone

-----------------------------------------------------------------------------
(* The way back: the pages before the one shown, in their order. *)

LEMMA NextCursorOf ==
  ASSUME NEW cursor \in Cursor \cup {None}, NEW query \in Queries
  PROVE  /\ PageAfter(cursor) \in Nat \ {0}
         /\ NextCursor(cursor, query) \in Cursor \cup {None}
         /\ NextCursor(cursor, query) # None =>
              NextCursor(cursor, query) = [query |-> query, page |-> PageAfter(cursor)]
<1>1. PageAfter(cursor) \in Nat \ {0}
  BY DEF PageAfter, Cursor
<1> QED
  BY <1>1, ConsoleAssumption DEF NextCursor, Cursor

LEMMA WayBackOf ==
  ASSUME NEW p, p.query \in Queries, NEW n \in 1..(Pages - 1), p.cursor = [query |-> p.query, page |-> n]
  PROVE  /\ WayBack(p) = [i \in 1..(n - 1) |-> [query |-> p.query, page |-> i]]
         /\ WayBack(p) \in Seq(Cursor) /\ Len(WayBack(p)) = n - 1 /\ p.cursor \in Cursor
<1>1. p.cursor \in Cursor /\ p.cursor # None
  BY ConsoleAssumption DEF Cursor
<1>2. PageAfter(p.cursor) - 2 = n - 1
  BY <1>1 DEF PageAfter
<1>3. WayBack(p) = [i \in 1..(n - 1) |-> [query |-> p.query, page |-> i]]
  BY <1>2 DEF WayBack
<1>4. n - 1 \in Nat /\ \A i \in 1..(n - 1) : [query |-> p.query, page |-> i] \in Cursor
  BY ConsoleAssumption DEF Cursor
<1> QED
  BY <1>1, <1>3, <1>4

LEMMA WayOn ==
  ASSUME NEW p, p.query \in Queries, NEW n \in 1..(Pages - 1), p.cursor = [query |-> p.query, page |-> n],
         n + 1 < Pages, NEW q, q.query = p.query, q.cursor = [query |-> p.query, page |-> n + 1]
  PROVE  WayBack(q) = Append(WayBack(p), p.cursor)
<1>1. n + 1 \in 1..(Pages - 1)
  BY ConsoleAssumption
<1>2. /\ WayBack(q) = [i \in 1..((n + 1) - 1) |-> [query |-> p.query, page |-> i]]
      /\ WayBack(q) \in Seq(Cursor) /\ Len(WayBack(q)) = (n + 1) - 1
  BY <1>1, WayBackOf
<1>3. /\ WayBack(p) = [i \in 1..(n - 1) |-> [query |-> p.query, page |-> i]]
      /\ WayBack(p) \in Seq(Cursor) /\ Len(WayBack(p)) = n - 1 /\ p.cursor \in Cursor
  BY WayBackOf
<1> DEFINE v == WayBack(p)
           w == WayBack(q)
           u == Append(v, p.cursor)
<1>4. u \in Seq(Cursor) /\ Len(u) = n /\ u[n] = p.cursor /\ \A i \in 1..(n - 1) : u[i] = v[i]
  BY <1>3
<1>5. w \in Seq(Cursor) /\ Len(w) = n /\ \A i \in 1..n : w[i] = [query |-> p.query, page |-> i]
  BY <1>2
<1>6. \A i \in 1..(n - 1) : v[i] = [query |-> p.query, page |-> i]
  BY <1>3
<1> HIDE DEF u, v, w
<1>7. \A i \in 1..n : u[i] = w[i]
  BY <1>4, <1>5, <1>6
<1>8. u = w
  BY <1>4, <1>5, <1>7
<1> QED
  BY <1>8 DEF u, v, w

LEMMA WayOff ==
  ASSUME NEW p, p.query \in Queries, NEW n \in 1..(Pages - 1), p.cursor = [query |-> p.query, page |-> n],
         n > 1, NEW q, q.query = p.query, q.cursor = [query |-> p.query, page |-> n - 1]
  PROVE  WayBack(q) = SubSeq(WayBack(p), 1, Len(WayBack(p)) - 1)
<1>1. n - 1 \in 1..(Pages - 1)
  BY ConsoleAssumption
<1>2. /\ WayBack(q) = [i \in 1..((n - 1) - 1) |-> [query |-> p.query, page |-> i]]
      /\ WayBack(q) \in Seq(Cursor) /\ Len(WayBack(q)) = (n - 1) - 1
  BY <1>1, WayBackOf
<1>3. /\ WayBack(p) = [i \in 1..(n - 1) |-> [query |-> p.query, page |-> i]]
      /\ WayBack(p) \in Seq(Cursor) /\ Len(WayBack(p)) = n - 1
  BY WayBackOf
<1> DEFINE v == WayBack(p)
           w == WayBack(q)
           u == SubSeq(v, 1, Len(v) - 1)
<1>4. u \in Seq(Cursor) /\ Len(u) = n - 2 /\ \A i \in 1..(n - 2) : u[i] = v[i]
  <2>0. v \in Seq(Cursor) /\ Len(v) = n - 1
    BY <1>3
  <2> HIDE DEF v
  <2>1. Len(v) - 1 = n - 2 /\ \A i \in 1..(n - 2) : v[i] \in Cursor
    BY <2>0
  <2>2. u = SubSeq(v, 1, n - 2)
    BY <2>1
  <2>3. n - 2 \in Int /\ (IF 1 <= n - 2 THEN (n - 2) - 1 + 1 ELSE 0) = n - 2 /\ (n - 2) - 1 + 1 = n - 2
    OBVIOUS
  <2> HIDE DEF u
  <2>4. /\ u \in Seq(Cursor) /\ Len(u) = IF 1 <= n - 2 THEN (n - 2) - 1 + 1 ELSE 0
        /\ \A i \in 1..((n - 2) - 1 + 1) : u[i] = v[1 + i - 1]
    BY <2>1, <2>2, <2>3, SubSeqProperties
  <2> QED
    BY <2>3, <2>4
<1>5. w \in Seq(Cursor) /\ Len(w) = n - 2 /\ \A i \in 1..(n - 2) : w[i] = [query |-> p.query, page |-> i]
  BY <1>2
<1>6. \A i \in 1..(n - 2) : v[i] = [query |-> p.query, page |-> i]
  BY <1>3
<1> HIDE DEF u, v, w
<1>7. \A i \in 1..(n - 2) : u[i] = w[i]
  BY <1>4, <1>5, <1>6
<1>8. u = w
  BY <1>4, <1>5, <1>7
<1> QED
  BY <1>8 DEF u, v, w

-----------------------------------------------------------------------------
(* The answer of a list, part by part. *)

Answered(c, ok) == IF ok THEN Loaded(c) ELSE [ui EXCEPT !.failed = TRUE]

LEMMA AnsweredPage ==
  ASSUME Paged(ui), Linked(ui), NEW c, Wanted(c), NEW ok \in BOOLEAN,
         ok => ValidCursor(c.cursor, c.query)
  PROVE  LET p == Answered(c, ok)
         IN  /\ Paged(p) /\ Linked(p) /\ p.here = ui.here /\ p.busy = ui.busy
             /\ p.query = ui.query /\ p.pending = ui.pending /\ p.previous = ui.previous
             /\ p.muddled = ui.muddled
             /\ ok => /\ p.cursor = c.cursor /\ p.next = NextCursor(c.cursor, c.query) /\ ~p.failed
                      /\ p.items = [query |-> c.query, page |-> PageAfter(c.cursor)]
             /\ ~ok => /\ p.cursor = ui.cursor /\ p.next = ui.next /\ p.failed
<1> DEFINE p == Answered(c, ok)
           next == NextCursor(c.cursor, c.query)
           items == [query |-> c.query, page |-> PageAfter(c.cursor)]
<1>1. next \in Cursor \cup {None} /\ (next # None => next.query = c.query)
  BY NextCursorOf DEF Wanted
<1>2. CASE ok
  <2>1. p = [ui EXCEPT !.cursor = c.cursor, !.next = next, !.failed = FALSE, !.items = items]
    BY <1>2 DEF Answered, Loaded
  <2> HIDE DEF p, items
  <2>2. /\ p.here = ui.here /\ p.busy = ui.busy /\ p.query = ui.query /\ p.pending = ui.pending
        /\ p.previous = ui.previous /\ p.muddled = ui.muddled /\ p.cursor = c.cursor
        /\ p.next = next /\ ~p.failed /\ p.items = items
    BY <2>1 DEF Paged
  <2>3. Paged(p)
    <3>1. c.cursor \in Cursor \cup {None}
      BY DEF Wanted
    <3> HIDE DEF next
    <3> QED
      BY <1>1, <2>1, <3>1 DEF Paged
  <2>4. Linked(p)
    BY <1>1, <1>2, <2>2 DEF Linked
  <2> QED
    BY <1>2, <2>2, <2>3, <2>4 DEF p, items
<1>3. CASE ~ok
  <2>1. p = [ui EXCEPT !.failed = TRUE]
    BY <1>3 DEF Answered
  <2> HIDE DEF p
  <2>2. /\ p.here = ui.here /\ p.busy = ui.busy /\ p.query = ui.query /\ p.pending = ui.pending
        /\ p.previous = ui.previous /\ p.muddled = ui.muddled /\ p.cursor = ui.cursor
        /\ p.next = ui.next /\ p.failed
    BY <2>1 DEF Paged
  <2>3. Paged(p)
    BY <2>1 DEF Paged
  <2>4. Linked(p)
    BY <2>2, LinkedSame
  <2> QED
    BY <1>3, <2>2, <2>3, <2>4 DEF p
<1> QED
  BY <1>2, <1>3

LEMMA FinallyPage ==
  ASSUME NEW p, Paged(p), Linked(p)
  PROVE  LET q == Finally(p)
         IN  /\ Paged(q) /\ Linked(q) /\ q.here = p.here /\ q.cursor = p.cursor /\ q.next = p.next
             /\ q.failed = p.failed /\ q.items = p.items /\ q.muddled = p.muddled
             /\ q.pending = None
             /\ p.pending = None => ~q.busy /\ q.query = p.query /\ q.previous = p.previous
             /\ p.pending # None => q.busy /\ q.query = p.pending /\ q.previous = <<>>
<1> DEFINE q == Finally(p)
<1>1. CASE p.pending = None
  <2>1. q = [p EXCEPT !.busy = FALSE]
    BY <1>1 DEF Finally
  <2> HIDE DEF q
  <2>2. /\ q.here = p.here /\ q.cursor = p.cursor /\ q.next = p.next
        /\ q.failed = p.failed /\ q.items = p.items /\ q.muddled = p.muddled
        /\ q.pending = None /\ ~q.busy /\ q.query = p.query /\ q.previous = p.previous /\ Paged(q)
    BY <1>1, <2>1 DEF Paged
  <2>3. Linked(q)
    BY <2>2, LinkedSame
  <2> QED
    BY <1>1, <2>2, <2>3 DEF q
<1>2. CASE p.pending # None
  <2> DEFINE r == Searching(p, p.pending)
  <2>1. q = [r EXCEPT !.pending = None, !.busy = TRUE]
    BY <1>2 DEF Finally
  <2>2. p.pending \in Queries
    BY <1>2 DEF Paged
  <2>3. /\ Paged(r) /\ r.query = p.pending /\ r.previous = <<>> /\ r.here = p.here
        /\ r.cursor = p.cursor /\ r.next = p.next /\ r.muddled = p.muddled
    BY <2>2, SearchingPaged
  <2>4. r.failed = p.failed /\ r.items = p.items
    BY DEF Searching, Paged
  <2> HIDE DEF q, r
  <2>5. /\ q.here = r.here /\ q.cursor = r.cursor /\ q.next = r.next
        /\ q.failed = r.failed /\ q.items = r.items /\ q.muddled = r.muddled
        /\ q.pending = None /\ q.busy /\ q.query = r.query /\ q.previous = r.previous /\ Paged(q)
    BY <2>1, <2>3 DEF Paged
  <2>6. Linked(q)
    BY <2>3, <2>5, LinkedSame
  <2> QED
    BY <1>2, <2>3, <2>4, <2>5, <2>6 DEF q
<1> QED
  BY <1>1, <1>2

LEMMA Shorter ==
  ASSUME NEW w \in Seq(Cursor), w # <<>>
  PROVE  SubSeq(w, 1, Len(w) - 1) \in Seq(Cursor)
<1>1. Len(w) - 1 \in Int /\ \A i \in 1..(Len(w) - 1) : w[i] \in Cursor
  OBVIOUS
<1> QED
  BY <1>1, SubSeqProperties

(* Onward: the way back after a next page, or after a previous one. *)
Onward(p, c, ok) == c.then = "next" /\ ok /\ p.query = c.query /\ c.held # None
Backward(p, c, ok) == c.then = "previous" /\ ok /\ p.query = c.query /\ p.previous # <<>>
WayAfter(p, c, ok) ==
    IF Onward(p, c, ok) THEN Append(p.previous, c.held)
    ELSE IF Backward(p, c, ok) THEN SubSeq(p.previous, 1, Len(p.previous) - 1) ELSE p.previous

LEMMA ContinuedPage ==
  ASSUME NEW p, Paged(p), Linked(p), NEW c, Wanted(c), NEW ok \in BOOLEAN
  PROVE  LET q == Continued(p, c, ok)
         IN  /\ Paged(q) /\ Linked(q) /\ q.here = p.here /\ q.cursor = p.cursor /\ q.next = p.next
             /\ q.failed = p.failed /\ q.items = p.items /\ q.muddled = p.muddled
             /\ q.pending = p.pending /\ q.query = p.query
             /\ q.busy = (p.busy /\ c.then # "action") /\ q.previous = WayAfter(p, c, ok)
<1> DEFINE q == Continued(p, c, ok)
           w == WayAfter(p, c, ok)
<1>1. w \in Seq(Cursor) /\ p.previous \in Seq(Cursor) /\ p.busy \in BOOLEAN
  <2>1. p.previous \in Seq(Cursor) /\ p.busy \in BOOLEAN /\ (c.held # None => c.held \in Cursor)
    BY DEF Paged, Wanted
  <2> QED
    BY <2>1, Shorter DEF WayAfter, Onward, Backward
<1>2. CASE c.then = "action"
  <2>1. q = [p EXCEPT !.busy = FALSE] /\ w = p.previous
    BY <1>2 DEF Continued, WayAfter, Onward, Backward
  <2> HIDE DEF q, w
  <2>2. /\ q.here = p.here /\ q.cursor = p.cursor /\ q.next = p.next
        /\ q.failed = p.failed /\ q.items = p.items /\ q.muddled = p.muddled
        /\ q.pending = p.pending /\ ~q.busy /\ q.query = p.query /\ q.previous = p.previous /\ Paged(q)
    BY <2>1 DEF Paged
  <2>3. q.busy \in BOOLEAN
    BY <2>2 DEF Paged
  <2> QED
    BY <1>2, <2>1, <2>2, <2>3, LinkedSame DEF q, w
<1>3. CASE c.then # "action"
  <2>1. q = [p EXCEPT !.previous = w] \/ (q = p /\ w = p.previous)
    BY <1>3 DEF Continued, WayAfter, Onward, Backward
  <2> HIDE DEF q, w
  <2>2. CASE q = [p EXCEPT !.previous = w]
    <3>1. /\ q.here = p.here /\ q.cursor = p.cursor /\ q.next = p.next
          /\ q.failed = p.failed /\ q.items = p.items /\ q.muddled = p.muddled
          /\ q.pending = p.pending /\ q.busy = p.busy /\ q.query = p.query /\ q.previous = w /\ Paged(q)
      BY <1>1, <2>2 DEF Paged
    <3> QED
      BY <1>1, <1>3, <3>1, LinkedSame DEF q, w
  <2>3. CASE q = p /\ w = p.previous
    BY <1>1, <1>3, <2>3, LinkedSame DEF q, w
  <2> QED
    BY <2>1, <2>2, <2>3
<1> QED
  BY <1>2, <1>3

(* The way back is right again once the list is there. *)
LEMMA WayBackAgain ==
  ASSUME Paged(ui), Linked(ui), NEW c, Wanted(c), c.query = ui.query, Asks(c, ui),
         ValidCursor(c.cursor, c.query), NEW f, f.query = ui.query, f.previous = ui.previous,
         NEW q, q.query = ui.query, q.cursor = c.cursor, q.previous = WayAfter(f, c, TRUE)
  PROVE  q.previous = WayBack(q)
<1> USE ConsoleAssumption
<1>1. ui.query \in Queries /\ ui.cursor \in Cursor \cup {None} /\ ui.next \in Cursor \cup {None}
  BY DEF Paged
<1>2. CASE c.then \in {"plain", "action"} /\ c.cursor = None /\ ui.previous = <<>>
  <2>1. q.previous = <<>>
    BY <1>2 DEF WayAfter, Onward, Backward
  <2>2. PageAfter(q.cursor) = 1
    BY <1>2 DEF PageAfter
  <2>3. WayBack(q) = <<>>
    BY <2>2, WayBackShort
  <2> QED
    BY <2>1, <2>3
<1>3. CASE c.then = "plain" /\ c.cursor = ui.cursor /\ Backed(ui)
  <2>1. q.previous = ui.previous
    BY <1>3 DEF WayAfter, Onward, Backward
  <2>2. ui.previous = WayBack(ui)
    BY <1>3 DEF Backed
  <2> QED
    BY <1>3, <2>1, <2>2 DEF WayBack
<1>4. CASE c.then = "next" /\ c.cursor = ui.next /\ c.cursor # None /\ c.held = ui.cursor /\ Backed(ui)
  <2>1. c.cursor.query = ui.query
    BY <1>4 DEF ValidCursor
  <2>2. ValidCursor(ui.cursor, ui.query) /\ c.cursor = NextCursor(ui.cursor, ui.query)
    BY <1>4, <2>1 DEF Linked
  <2>3. c.cursor = [query |-> ui.query, page |-> PageAfter(ui.cursor)] /\ c.cursor \in Cursor
    BY <1>1, <1>4, <2>2, NextCursorOf
  <2>4. ui.previous = WayBack(ui)
    BY <1>4, <2>2 DEF Backed
  <2>5. CASE ui.cursor = None
    <3>1. q.previous = ui.previous
      BY <1>4, <2>5 DEF WayAfter, Onward, Backward
    <3>2. PageAfter(ui.cursor) = 1
      BY <2>5 DEF PageAfter
    <3>3. PageAfter(q.cursor) = 2
      BY <1>4, <2>3, <3>2 DEF PageAfter
    <3>4. WayBack(ui) = <<>> /\ WayBack(q) = <<>>
      BY <3>2, <3>3, WayBackShort
    <3> QED
      BY <2>4, <3>1, <3>4
  <2>6. CASE ui.cursor # None
    <3> DEFINE n == ui.cursor.page
    <3>1. n \in 1..(Pages - 1) /\ ui.cursor = [query |-> ui.query, page |-> n]
      BY <1>1, <2>2, <2>6 DEF ValidCursor, Cursor
    <3>2. c.cursor = [query |-> ui.query, page |-> n + 1] /\ n + 1 < Pages
      BY <2>3, <2>6, <3>1 DEF PageAfter, Cursor
    <3>3. WayBack(q) = Append(WayBack(ui), ui.cursor)
      BY <1>1, <3>1, <3>2, WayOn
    <3>4. q.previous = Append(ui.previous, ui.cursor)
      BY <1>4, <2>6 DEF WayAfter, Onward
    <3> QED
      BY <2>4, <3>3, <3>4
  <2> QED
    BY <2>5, <2>6
<1>5. CASE /\ c.then = "previous" /\ ui.previous # <<>> /\ Backed(ui)
           /\ c.cursor = ui.previous[Len(ui.previous)]
  <2>1. ui.previous = WayBack(ui) /\ ValidCursor(ui.cursor, ui.query)
    BY <1>5 DEF Backed
  <2>2. PageAfter(ui.cursor) \notin {1, 2}
    BY <1>5, <2>1, WayBackShort
  <2> DEFINE n == ui.cursor.page
  <2>3. ui.cursor # None /\ n \in 1..(Pages - 1) /\ ui.cursor = [query |-> ui.query, page |-> n]
    BY <1>1, <2>1, <2>2 DEF PageAfter, ValidCursor, Cursor
  <2>4. n > 1
    BY <2>2, <2>3 DEF PageAfter
  <2>5. /\ ui.previous = [i \in 1..(n - 1) |-> [query |-> ui.query, page |-> i]]
        /\ Len(ui.previous) = n - 1
    BY <1>1, <2>1, <2>3, WayBackOf
  <2>6. c.cursor = [query |-> ui.query, page |-> n - 1]
    BY <1>5, <2>3, <2>4, <2>5
  <2>7. WayBack(q) = SubSeq(WayBack(ui), 1, Len(WayBack(ui)) - 1)
    BY <1>1, <2>3, <2>4, <2>6, WayOff
  <2>8. q.previous = SubSeq(ui.previous, 1, Len(ui.previous) - 1)
    BY <1>5 DEF WayAfter, Onward, Backward
  <2> QED
    BY <2>1, <2>7, <2>8
<1> QED
  BY <1>2, <1>3, <1>4, <1>5 DEF Asks

LEMMA BackedAfter ==
  ASSUME Paged(ui), Linked(ui), NEW c, Wanted(c), c.query = ui.query, Asks(c, ui),
         NEW ok \in BOOLEAN, ok => ValidCursor(c.cursor, c.query),
         ~(~ok /\ c.cursor = None /\ StaysBeyond(c.query)),
         NEW f, f.query = ui.query, f.previous = ui.previous,
         NEW q, q.query = ui.query, q.cursor = IF ok THEN c.cursor ELSE ui.cursor,
         q.previous = WayAfter(f, c, ok)
  PROVE  Backed(q)
<1>1. CASE ok
  BY <1>1, WayBackAgain DEF Backed
<1>2. CASE ~ok
  <2>1. q.previous = ui.previous /\ q.cursor = ui.cursor
    BY <1>2 DEF WayAfter, Onward, Backward
  <2>2. CASE Backed(ui)
    BY <2>1, <2>2, BackedSame
  <2>3. CASE c.cursor = None /\ ui.previous = <<>>
    <3>1. ~StaysBeyond(ui.query)
      BY <1>2, <2>3
    <3>2. ValidCursor(ui.cursor, ui.query) => PageAfter(ui.cursor) \in {1, 2}
      BY <3>1 DEF StaysBeyond, ValidCursor, PageAfter, Paged, Cursor
    <3> QED
      BY <2>1, <2>3, <3>2, WayBackShort DEF Backed
  <2> QED
    BY <2>2, <2>3 DEF Asks
<1> QED
  BY <1>1, <1>2

LEMMA ListAnsweredPage ==
  ASSUME Inv, PageInv, NEW s \in Slots, ListAnswered(s)
  PROVE  PageInv'
<1> DEFINE c == call[s]
           ok == c.at = "accepted" /\ ValidCursor(c.cursor, c.query)
           p == Answered(c, ok)
           f == Finally(p)
           k == Continued(f, c, ok)
           flag == k.muddled \/ Muddles(c, ok)
           q == [k EXCEPT !.muddled = flag]
           d == IF ui.pending = None THEN Idle ELSE Listing(ui.pending, None, "plain", None)
<1>1. c.op = "list" /\ OfPage(c) /\ ui' = q /\ call' = [call EXCEPT ![s] = d]
  BY DEF ListAnswered, Answered, OfPage
<1>2. Paged(ui) /\ Linked(ui) /\ Wanted(c) /\ ok \in BOOLEAN /\ (ok => ValidCursor(c.cursor, c.query))
  BY DEF PageInv
<1> HIDE DEF c, ok, d
<1>3. /\ Paged(p) /\ Linked(p) /\ p.here = ui.here /\ p.busy = ui.busy
      /\ p.query = ui.query /\ p.pending = ui.pending /\ p.previous = ui.previous
      /\ p.muddled = ui.muddled
      /\ ok => /\ p.cursor = c.cursor /\ p.next = NextCursor(c.cursor, c.query) /\ ~p.failed
               /\ p.items = [query |-> c.query, page |-> PageAfter(c.cursor)]
      /\ ~ok => /\ p.cursor = ui.cursor /\ p.next = ui.next /\ p.failed
  BY <1>2, AnsweredPage
<1> HIDE DEF p
<1>4. /\ Paged(f) /\ Linked(f) /\ f.here = p.here /\ f.cursor = p.cursor /\ f.next = p.next
      /\ f.failed = p.failed /\ f.items = p.items /\ f.muddled = p.muddled
      /\ f.pending = None
      /\ p.pending = None => ~f.busy /\ f.query = p.query /\ f.previous = p.previous
      /\ p.pending # None => f.busy /\ f.query = p.pending /\ f.previous = <<>>
  BY <1>3, FinallyPage
<1> HIDE DEF f
<1>5. /\ Paged(k) /\ Linked(k) /\ k.here = f.here /\ k.cursor = f.cursor /\ k.next = f.next
      /\ k.failed = f.failed /\ k.items = f.items /\ k.muddled = f.muddled
      /\ k.pending = f.pending /\ k.query = f.query
      /\ k.busy = (f.busy /\ c.then # "action") /\ k.previous = WayAfter(f, c, ok)
  BY <1>2, <1>4, ContinuedPage
<1> HIDE DEF k
<1>6. flag \in BOOLEAN
  BY <1>5 DEF Paged
<1> HIDE DEF flag
<1>7. /\ Paged(q) /\ q.here = k.here /\ q.cursor = k.cursor /\ q.next = k.next
      /\ q.failed = k.failed /\ q.items = k.items /\ q.muddled = flag
      /\ q.pending = k.pending /\ q.query = k.query /\ q.busy = k.busy /\ q.previous = k.previous
  BY <1>5, <1>6 DEF Paged
<1> HIDE DEF q
<1>8. Linked(q)
  BY <1>5, <1>7, LinkedSame
<1>9. call'[s] = d /\ \A t \in Slots \ {s} : call'[t] = call[t]
  BY <1>1 DEF Inv, Types
<1>10. Wanted(d) /\ (ui.pending = None => d = Idle)
       /\ (ui.pending # None => /\ d.op = "list" /\ d.query = ui.pending /\ d.cursor = None
                                /\ d.then = "plain")
  <2>1. CASE ui.pending = None
    BY <2>1, IdleWanted DEF d
  <2>2. CASE ui.pending # None
    <3>1. ui.pending \in Queries
      BY <1>2, <2>2 DEF Paged
    <3> DEFINE l == Listing(ui.pending, None, "plain", None)
    <3>2. l.op = "list" /\ l.query = ui.pending /\ l.cursor = None /\ l.then = "plain" /\ l.held = None
      BY ListingAsks
    <3> HIDE DEF l
    <3>3. d = l
      BY <2>2 DEF d, l
    <3> QED
      BY <2>2, <3>1, <3>2, <3>3 DEF Wanted
  <2> QED
    BY <2>1, <2>2
<1>11. \A t \in Slots : Wanted(call'[t])
  BY <1>9, <1>10 DEF PageInv
<1>12. ASSUME ui.here, ~flag PROVE Orderly'
  <2>1. ~ui.muddled /\ ~Muddles(c, ok)
    BY <1>3, <1>4, <1>5, <1>12 DEF flag
  <2>2. Awaits(c, ui) /\ \A t \in Slots \ {s} : ~OfPage(call[t])
    BY <1>1, <1>2, <1>12, <2>1, OnlyRequest DEF PageInv, c
  <2>3. c.query = ui.query /\ Asks(c, ui)
    BY <1>1, <2>2 DEF Awaits
  <2>4. CASE ui.pending = None
    <3>1. ~q.busy /\ q.pending = None
      BY <1>3, <1>4, <1>5, <1>7, <2>4
    <3>2. Requests' = {}
      BY <1>9, <1>10, <2>2, <2>4, IdleWanted, RequestsOf DEF OfPage
    <3>3. ~(~ok /\ c.cursor = None /\ StaysBeyond(c.query))
      BY <2>1, <2>4 DEF Muddles
    <3>4. /\ f.query = ui.query /\ f.previous = ui.previous /\ q.query = ui.query
          /\ q.cursor = IF ok THEN c.cursor ELSE ui.cursor
          /\ q.previous = WayAfter(f, c, ok)
      BY <1>3, <1>4, <1>5, <1>7, <2>4
    <3>5. Backed(q)
      BY <1>2, <2>3, <3>3, <3>4, BackedAfter
    <3>6. q.failed \/ Shown(q)
      <4>1. CASE ok
        <5>1. /\ q.cursor = c.cursor /\ q.next = NextCursor(c.cursor, c.query)
              /\ q.items = [query |-> c.query, page |-> PageAfter(c.cursor)]
          BY <1>3, <1>4, <1>5, <1>7, <4>1
        <5> QED
          BY <1>2, <2>3, <3>4, <3>5, <4>1, <5>1 DEF Shown, Backed
      <4>2. CASE ~ok
        BY <1>3, <1>4, <1>5, <1>7, <4>2
      <4> QED
        BY <4>1, <4>2
    <3> QED
      BY <1>1, <3>1, <3>2, <3>5, <3>6 DEF Orderly, Rests
  <2>5. CASE ui.pending # None
    <3>1. c.then # "action" /\ ~(c.then = "next" /\ ui.pending = c.query)
      BY <2>1, <2>5 DEF Muddles
    <3>2. Requests' = {s}
      BY <1>9, <1>10, <2>2, <2>5, RequestsOf DEF OfPage
    <3>3. q.busy /\ q.query = ui.pending
      BY <1>3, <1>4, <1>5, <1>7, <2>5, <3>1
    <3>4. q.previous = <<>>
      BY <1>3, <1>4, <1>5, <1>7, <2>5, <3>1 DEF WayAfter, Onward, Backward
    <3>5. Awaits(call'[s], ui')
      BY <1>1, <1>9, <1>10, <2>5, <3>3, <3>4 DEF Awaits, Asks
    <3> QED
      BY <1>1, <3>2, <3>3, <3>5 DEF Orderly
  <2> QED
    BY <2>4, <2>5
<1> QED
  BY <1>1, <1>3, <1>4, <1>5, <1>7, <1>8, <1>11, <1>12 DEF PageInv

-----------------------------------------------------------------------------
LEMMA PageStart == Init => PageInv
<1> SUFFICES ASSUME Init PROVE PageInv
  OBVIOUS
<1>1. ui = Away /\ ~Away.here
  BY DEF Init, Away
<1>2. \A s \in Slots : Wanted(call[s])
  BY IdleWanted DEF Init
<1> QED
  BY <1>1, <1>2, AwayPaged DEF PageInv

LEMMA PageKept ==
  ASSUME Inv, PageInv, [Next]_vars
  PROVE  PageInv'
<1>1. CASE UNCHANGED vars
  BY <1>1, UnnoticedKeeps DEF vars, browser, Retains
<1>2. CASE ServerStarts \/ Restart \/ ResetPassword \/ SweepSessions \/ Tick
  BY <1>2, SystemUnnoticed
<1>3. ASSUME NEW s \in Slots, SignIn(s) PROVE PageInv'
  BY <1>3, SignInUnnoticed, ConsolePage, AuthenticatePage DEF SignIn
<1>4. ASSUME NEW s \in Slots, Page(s) PROVE PageInv'
  BY <1>4, ConsolePage, CheckSessionPage, SearchPage, TurnPage, BanPage, BanDonePage,
     ListAnsweredPage DEF Page
<1> QED
  BY <1>1, <1>2, <1>3, <1>4 DEF Next

LEMMA Always == Spec => [](Inv /\ Limits /\ Indexed /\ PageInv)
<1>1. Init => Inv /\ Limits /\ Indexed /\ PageInv
  BY InitSound, LimitsStart, IndexedStart, PageStart
<1>2. (Inv /\ Limits /\ Indexed /\ PageInv) /\ [Next]_vars => (Inv /\ Limits /\ Indexed /\ PageInv)'
  BY NextKeeps, LimitsKept, StepsIndex, PageKept
<1> QED
  BY <1>1, <1>2, PTL DEF Spec

(* Every variable has its type; the table of the memory limiter never holds more
   than its limit, and no session is indexed that was never opened. *)
THEOREM ConsoleTypeCorrect == Spec => []TypeOK
<1>1. Inv /\ Limits /\ Indexed /\ PageInv => TypeOK
  <2> SUFFICES ASSUME Inv, Limits, Indexed, PageInv PROVE TypeOK
    OBVIOUS
  <2>1. ui.previous \in Seq(Cursor) /\ ui.cursor \in Cursor \cup {None} /\ ui.next \in Cursor \cup {None}
    BY DEF PageInv, Paged
  <2>2. \A s \in Slots : call[s].op \in {"none", "login", "logout", "list", "ban", "session"}
    BY DEF PageInv, Wanted
  <2> QED
    BY <2>1, <2>2 DEF TypeOK, Inv, Types, Limits, Indexed
<1> QED
  BY <1>1, Always, PTL

(* What the console shows is one page of the search in its box, with its way on
   and its way back, and it is busy exactly while one request of its own is under
   way (useAdminList, admin.ts 92-190), but for the known exceptions. *)
THEOREM ListIsAlwaysItsPage == Spec => []ListIsItsPage
<1>1. Inv /\ Limits /\ Indexed /\ PageInv => ListIsItsPage
  <2> SUFFICES ASSUME Inv, PageInv, ui.here, ~ui.muddled
               PROVE  /\ ui.busy <=> Requests # {}
                      /\ Cardinality(Requests) <= 1
                      /\ ~ui.busy => ui.pending = None /\ (ui.failed \/ Shown(ui))
    BY DEF ListIsItsPage
  <2>1. CASE ui.busy
    <3>1. PICK s \in Slots : Requests = {s}
      BY <2>1 DEF PageInv, Orderly
    <3>2. Cardinality(Requests) = 1 /\ Requests # {}
      BY <3>1, FS_Singleton
    <3> QED
      BY <2>1, <3>2
  <2>2. CASE ~ui.busy
    <3>1. Requests = {} /\ ui.pending = None /\ Rests(ui)
      BY <2>2 DEF PageInv, Orderly
    <3>2. Cardinality(Requests) = 0
      BY <3>1, FS_EmptySet
    <3> QED
      BY <2>2, <3>1, <3>2 DEF Rests
  <2> QED
    BY <2>1, <2>2
<1> QED
  BY <1>1, Always, PTL
===============================================================================
