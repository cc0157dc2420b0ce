---------------------------- MODULE MCRedisRooms ----------------------------
EXTENDS RedisRooms, TLC

CONSTANTS i1, i2, t1, t2, g1

Symmetries == Permutations({t1, t2}) \cup Permutations({i1, i2})

(* Bound of the run redis: once a lease, a command or an instance is lost, when
   the lock's is the only one of its properties that still claims anything, the
   room is used by one instance. *)
InUse == closing \cup {s[1] : s \in sockets} \cup {task[h].at : h \in {k \in Tasks : task[k] # Idle}}

DamagedAlone == Damaged => Cardinality(InUse) <= 1
=============================================================================
