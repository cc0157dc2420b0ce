------------------------- MODULE RoomLifecycle_proofs -------------------------
(* What every implementation of RoomLifecycle inherits. *)
EXTENDS RoomLifecycle, TLAPS

Table == history \in [Plays -> Entry]

(* The rows of a room have their shape. *)
LEMMA TableInit == Init => Table
  BY DEF Init, Table, Entry, Unplayed

LEMMA TableStep ==
  ASSUME Table, [Next]_lifecycle
  PROVE  Table'
<1>1. CASE Starts
  <2>1. PICK n \in Plays, cast \in [Seats -> Players \cup {Nobody}] :
           history' = [history EXCEPT ![n] = [Unplayed EXCEPT !.state = "open", !.cast = cast]]
    BY <1>1 DEF Starts
  <2>2. [Unplayed EXCEPT !.state = "open", !.cast = cast] \in Entry
    BY DEF Entry, Unplayed
  <2> QED
    BY <2>1, <2>2 DEF Table
<1>2. CASE Ends \/ Closes
  BY <1>2 DEF Ends, Closes, OpenPlaySettles, Table
<1> QED
  BY <1>1, <1>2 DEF Next, Opens, Table, lifecycle

(* Whatever happens to the open play, it is not open afterwards. *)
LEMMA NothingStaysOpen ==
  ASSUME OpenPlaySettles, NEW n \in Plays
  PROVE  history'[n].state # "open"
<1>1. CASE history[n].state = "open"
  BY <1>1 DEF OpenPlaySettles, Settles, Unplayed
<1> QED
  BY <1>1 DEF OpenPlaySettles

LEMMA OnePlayStep ==
  ASSUME Table, OnePlayAtATime, [Next]_lifecycle
  PROVE  OnePlayAtATime'
<1>1. CASE Opens \/ UNCHANGED lifecycle
  BY <1>1 DEF Opens, lifecycle, OnePlayAtATime
<1>2. CASE Starts
  <2>1. PICK n \in Plays, cast \in [Seats -> Players \cup {Nobody}] :
           history' = [history EXCEPT ![n] = [Unplayed EXCEPT !.state = "open", !.cast = cast]]
    BY <1>2 DEF Starts
  <2>2. \A m \in Plays : m # n => history'[m].state # "open"
    BY <1>2, <2>1 DEF Starts, OnePlayAtATime, Table
  <2> QED
    BY <1>2, <2>2 DEF Starts, OnePlayAtATime
<1>3. CASE Ends \/ Closes
  BY <1>3, NothingStaysOpen DEF Ends, Closes, OnePlayAtATime
<1> QED
  BY <1>1, <1>2, <1>3 DEF Next

(* A room has one open play while it plays, and none otherwise: what the    *)
(* directory lists and what the history lists never contradict each other.  *)
THEOREM OnePlay == Spec => []OnePlayAtATime
<1>1. Init => Table /\ OnePlayAtATime
  BY TableInit DEF Init, OnePlayAtATime, Unplayed
<1>2. Table /\ OnePlayAtATime /\ [Next]_lifecycle => (Table /\ OnePlayAtATime)'
  BY TableStep, OnePlayStep
<1> QED
  BY <1>1, <1>2, PTL DEF Spec

(* A settled play keeps its row, and a closed room its status and history.  *)
Kept(n) == history[n].state \in {"ended", "deleted"} => history'[n] = history[n]

THEOREM SettledStays ==
  Spec => [][/\ \A n \in Plays : Kept(n)
             /\ status = "closed" => UNCHANGED lifecycle]_lifecycle
<1>1. Table /\ [Next]_lifecycle =>
        [/\ \A n \in Plays : Kept(n)
         /\ status = "closed" => UNCHANGED lifecycle]_lifecycle
  BY DEF Table, Next, Opens, Starts, Ends, Closes, OpenPlaySettles, Kept, lifecycle
<1>2. Table /\ [Next]_lifecycle => Table'
  BY TableStep
<1> QED
  BY <1>1, <1>2, TableInit, PTL DEF Spec
===============================================================================
