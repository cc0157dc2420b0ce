---------------------------- MODULE RoomLifecycle ----------------------------
(***************************************************************************)
(* What a room promises to those who read about it in the database: the    *)
(* directory, the match endpoint and the history.  A room opens once,      *)
(* recruits and plays in turn, one play at a time, and closes for good.    *)
(* RoomEngine implements it (ImplementsLifecycle there), through writes    *)
(* that fail, crashes and recoveries.                                      *)
(***************************************************************************)
CONSTANTS Plays, Seats, Host, Players, Nobody

VARIABLES
    status,    \* rooms.status
    history    \* the plays rows of the room

lifecycle == <<status, history>>

Report == Plays \X Players
Entry == [state : {"none", "open", "ended", "deleted"},
          cast : [Seats -> Players \cup {Nobody}],
          result : [Seats -> SUBSET Report]]

Unplayed == [state |-> "none", cast |-> [p \in Seats |-> Nobody], result |-> [p \in Seats |-> {}]]

Init == status = "absent" /\ history = [n \in Plays |-> Unplayed]

Opens == status = "absent" /\ status' = "recruiting" /\ UNCHANGED history

(* A play starts with its host, and nothing reported yet. *)
Starts ==
    /\ status = "recruiting" /\ status' = "playing"
    /\ \E n \in Plays, cast \in [Seats -> Players \cup {Nobody}] :
          /\ history[n].state = "none" /\ cast[Host] # Nobody
          /\ history' = [history EXCEPT ![n] = [Unplayed EXCEPT !.state = "open", !.cast = cast]]

(* What becomes of an open play: it leaves the history if it was not yet under
   way; or it stays with its cast, or with nobody if the cast could not be read,
   and with nothing but what each of the cast reported in it. *)
Settles(n, before, after) ==
    \/ after = [Unplayed EXCEPT !.state = "deleted"]
    \/ /\ after.state = "ended"
       /\ after.cast \in {before.cast, Unplayed.cast}
       /\ \A p \in Seats : after.result[p] \subseteq {<<n, after.cast[p]>>}

OpenPlaySettles ==
    /\ history' \in [Plays -> Entry]
    /\ \A n \in Plays : IF history[n].state = "open" THEN Settles(n, history[n], history'[n])
                                                     ELSE history'[n] = history[n]

Ends == status = "playing" /\ status' = "recruiting" /\ OpenPlaySettles

Closes == status \in {"recruiting", "playing"} /\ status' = "closed" /\ OpenPlaySettles

Next == Opens \/ Starts \/ Ends \/ Closes

Spec == Init /\ [][Next]_lifecycle

(* One play is open while the room plays, and none otherwise. *)
OnePlayAtATime ==
    /\ status # "playing" => \A n \in Plays : history[n].state # "open"
    /\ \A m, n \in Plays : history[m].state = "open" /\ history[n].state = "open" => m = n
=============================================================================
