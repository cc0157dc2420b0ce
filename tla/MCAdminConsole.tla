---------------------------- MODULE MCAdminConsole ----------------------------
(* Instances of AdminConsole: scenes for the races of sign-in, sign-out and
   reset, for the rate limit in memory, and for the list in the browser. *)
EXTENDS AdminConsole, TLC

None_of == [kind \in Kinds |-> 0]

Races(where) ==
    [backend |-> where, signedIn |-> FALSE,
     left |-> ("login" :> 2 @@ "logout" :> 1 @@ "reset" :> 1 @@ "open" :> 1) @@ None_of]

Bounced(where) ==
    [backend |-> where, signedIn |-> TRUE,
     left |-> ("login" :> 1 @@ "open" :> 1 @@ "restart" :> 1 @@ "fault" :> 1 @@ "tick" :> 2) @@ None_of]

Crowd(where) == [backend |-> where, signedIn |-> FALSE, left |-> ("login" :> 3 @@ "tick" :> 2) @@ None_of]

Turns ==
    [backend |-> "memory", signedIn |-> TRUE,
     left |-> ("open" :> 1 @@ "search" :> 2 @@ "next" :> 3 @@ "previous" :> 1 @@ "refresh" :> 1
               @@ "fault" :> 2) @@ None_of]

Bans ==
    [backend |-> "memory", signedIn |-> TRUE,
     left |-> ("open" :> 1 @@ "search" :> 1 @@ "next" :> 2 @@ "refresh" :> 1 @@ "ban" :> 2
               @@ "fault" :> 2) @@ None_of]

Alike == Permutations(Slots) \cup Permutations(Keys)

MCScenes == {Races("redis"), Races("memory"), Bounced("redis"), Bounced("memory"),
             Crowd("redis"), Crowd("memory"), Turns, Bans}
===============================================================================
