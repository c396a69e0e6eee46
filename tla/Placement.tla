----------------------------- MODULE Placement -----------------------------
(***************************************************************************)
(* What the scheduler promises, with no counters, no remote calls and no   *)
(* clock: every sandbox lives at most once, on one node, and starts only   *)
(* where there is room for it.  Room is computed from the sandboxes placed *)
(* on a node, where the scheduler keeps running counters.                  *)
(***************************************************************************)
EXTENDS Load

CONSTANTS
  Nodes,   \* compute nodes
  Ids,     \* sandbox identifiers
  NoNode,  \* "not placed"
  Cpu, Mem,        \* what each sandbox asks for: any number
  CpuCap, MemCap   \* what each node has

VARIABLES
  life,   \* unborn, running, paused or gone
  place   \* the node of a sandbox that lives

avars == <<life, place>>

Alive == {"running", "paused"}
Lives == {"unborn", "gone"} \cup Alive

Placed(n) == {id \in Ids : life[id] \in Alive /\ place[id] = n}

HasRoom(n, id) == /\ LoadOf(Placed(n), Cpu) + Cpu[id] <= CpuCap[n]
                  /\ LoadOf(Placed(n), Mem) + Mem[id] <= MemCap[n]

-----------------------------------------------------------------------------
Init == /\ life = [id \in Ids |-> "unborn"]
        /\ place = [id \in Ids |-> NoNode]

(* A sandbox starts on a node with room for it. *)
Start(id, n) == /\ life[id] = "unborn"
                /\ HasRoom(n, id)
                /\ life' = [life EXCEPT ![id] = "running"]
                /\ place' = [place EXCEPT ![id] = n]

(* Or it never starts. *)
Refuse(id) == /\ life[id] = "unborn"
              /\ life' = [life EXCEPT ![id] = "gone"]
              /\ UNCHANGED place

Freeze(id) == /\ life[id] = "running"
              /\ life' = [life EXCEPT ![id] = "paused"]
              /\ UNCHANGED place

Thaw(id) == /\ life[id] = "paused"
            /\ life' = [life EXCEPT ![id] = "running"]
            /\ UNCHANGED place

(* A sandbox ends for good; its node gets its room back. *)
End(id) == /\ life[id] \in Alive
           /\ life' = [life EXCEPT ![id] = "gone"]
           /\ place' = [place EXCEPT ![id] = NoNode]

Next == \E id \in Ids : \/ \E n \in Nodes : Start(id, n)
                        \/ Refuse(id)
                        \/ Freeze(id)
                        \/ Thaw(id)
                        \/ End(id)

Spec == Init /\ [][Next]_avars

-----------------------------------------------------------------------------
(* What a reader may conclude from it. *)

(* What negative demands have given so far, to whatever node. *)
Born == {id \in Ids : life[id] # "unborn"}

(* What the sandboxes on a node demand together exceeds what it has by no more
   than what negative demands have given: without any, not at all.  A sandbox
   has a place as long as it lives. *)
RoomKept ==
  /\ \A n \in Nodes : /\ Taken(Placed(n), Cpu) <= CpuCap[n] + Given(Born, Cpu)
                     /\ Taken(Placed(n), Mem) <= MemCap[n] + Given(Born, Mem)
  /\ \A id \in Ids : place[id] # NoNode <=> life[id] \in Alive

L == INSTANCE Lifecycle

(* A sandbox lives once: one that was stopped or refused does not come back. *)
LivesOnce == L!Spec

(* A sandbox never moves: it ends on the node that it was started on. *)
NeverMoves ==
  [][\A id \in Ids : place[id] # NoNode => place'[id] \in {place[id], NoNode}]_avars
=============================================================================
