------------------------------ MODULE Lifecycle ------------------------------
(***************************************************************************)
(* The life of a sandbox, as every layer of the control plane has it: an   *)
(* identifier is used once.  The scheduler's map, the machines on the      *)
(* nodes, the API's record and the rows of the databases each keep a copy  *)
(* of this life, and no stale write, late command, retry or restart may    *)
(* bring one back that has ended.  Several may end in one step.            *)
(***************************************************************************)
CONSTANT Ids    \* sandbox identifiers
VARIABLE life   \* unborn, running, paused or gone

Alive == {"running", "paused"}
Lives == {"unborn", "gone"} \cup Alive

Begins(id) == life[id] = "unborn" /\ life'[id] = "running"
Freezes(id) == life[id] = "running" /\ life'[id] = "paused"
Thaws(id) == life[id] = "paused" /\ life'[id] = "running"
(* One that never began may be given up, too. *)
Ends(id) == life[id] # "gone" /\ life'[id] = "gone"
Stays(id) == life'[id] = life[id]

Init == life = [id \in Ids |-> "unborn"]

Next == /\ life' \in [Ids -> Lives]
        /\ \A id \in Ids : Stays(id) \/ Begins(id) \/ Freezes(id) \/ Thaws(id) \/ Ends(id)

Spec == Init /\ [][Next]_life
=============================================================================
