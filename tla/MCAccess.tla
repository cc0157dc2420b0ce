------------------------------ MODULE MCAccess ------------------------------
(* Small instances of Access: two clients, and five scenes with what is there
   at the start and how often each request is made. *)
EXTENDS Access, TLC

CONSTANTS c1, c2, k1, k2

Asked(times) == [kind \in Kinds |-> IF kind \in DOMAIN times THEN times[kind] ELSE 0]
Scene(cards, rows, legacy, mode, times) ==
    [card |-> (c1 :> cards[1] @@ c2 :> cards[2]), rows |-> rows, legacy |-> legacy,
     required |-> mode, left |-> Asked(times)]

MCScenes == {
    \* two installations with one card, and a reset
    Scene(<<k1, k1>>, <<None, None>>, {}, TRUE,
          [register |-> 3, challenge |-> 1, session |-> 1, reset |-> 1, ban |-> 1]),
    \* sessions of a row an older version wrote
    Scene(<<k1, k1>>, <<c1, None>>, {1}, TRUE,
          [register |-> 1, challenge |-> 2, session |-> 3, reset |-> 1, purge |-> 1]),
    \* anonymous players and bans
    Scene(<<k1, k2>>, <<None, None>>, {}, FALSE,
          [match |-> 2, admit |-> 1, ban |-> 2, unban |-> 1, fault |-> 1, purge |-> 1]),
    \* a registered player, a reset and a change of mode
    Scene(<<k1, k2>>, <<c1, None>>, {}, TRUE,
          [challenge |-> 1, session |-> 1, match |-> 2, admit |-> 2, ban |-> 1, reset |-> 1, mode |-> 1]),
    \* lobbies
    Scene(<<k1, k2>>, <<None, None>>, {}, FALSE,
          [match |-> 3, admit |-> 2, start |-> 1, end |-> 1, close |-> 1])}

(* Songs and pools, too, are only ever compared for equality. *)
Symmetric == Permutations(Slots) \cup Permutations(Songs) \cup Permutations(Pools)
=============================================================================
