--------------------------- MODULE PlacementProofs ---------------------------
(***************************************************************************)
(* What the abstract placement guarantees, and with it every component     *)
(* that implements it: for any nodes, sandboxes, demands and capacities.   *)
(***************************************************************************)
EXTENDS Placement, LoadProofs

\* What the scheduler assumes of its nodes and sandboxes.
Sized == /\ NoNode \notin Nodes /\ IsFiniteSet(Ids)
         /\ Cpu \in [Ids -> Int] /\ Mem \in [Ids -> Int]
         /\ CpuCap \in [Nodes -> Nat] /\ MemCap \in [Nodes -> Nat]

TypeOK == /\ life \in [Ids -> Lives]
          /\ place \in [Ids -> Nodes \cup {NoNode}]

LEMMA TypeStep == TypeOK /\ [Next]_avars => TypeOK'
  BY DEF TypeOK, Next, Start, Refuse, Freeze, Thaw, End, avars, Lives, Alive

LEMMA TypeInit == Init => TypeOK
  BY DEF Init, TypeOK, Lives

(* What is placed on a node after a step that begins, ends or keeps a life. *)
LEMMA PlacedAfter ==
  ASSUME Sized, TypeOK, RoomKept, NEW n \in Nodes, NEW id \in Ids
  PROVE  /\ IsFiniteSet(Placed(n)) /\ Placed(n) \subseteq Ids
         /\ \A m \in Nodes : Start(id, m) =>
              Placed(n)' = IF m = n THEN Placed(n) \cup {id} ELSE Placed(n)
         /\ Start(id, n) => id \notin Placed(n)
         /\ End(id) => Placed(n)' = Placed(n) \ {id}
         /\ Refuse(id) \/ Freeze(id) \/ Thaw(id) => Placed(n)' = Placed(n)
<1>1. IsFiniteSet(Placed(n)) /\ Placed(n) \subseteq Ids
  BY FS_Subset DEF Sized, Placed
<1>2. ASSUME NEW m \in Nodes, Start(id, m)
      PROVE  Placed(n)' = IF m = n THEN Placed(n) \cup {id} ELSE Placed(n)
  BY <1>2 DEF Start, Placed, TypeOK, Alive
<1>3. Start(id, n) => id \notin Placed(n)
  BY DEF Start, Placed, Alive
<1>4. End(id) => Placed(n)' = Placed(n) \ {id}
  BY DEF End, Placed, TypeOK, Alive
<1>5. Refuse(id) \/ Freeze(id) \/ Thaw(id) => Placed(n)' = Placed(n)
  BY DEF Refuse, Freeze, Thaw, Placed, TypeOK, Alive
<1>. QED
  BY <1>1, <1>2, <1>3, <1>4, <1>5

(* One kind of room, after any step. *)
LEMMA TakenStep ==
  ASSUME Sized, TypeOK, RoomKept, NEW demand \in [Ids -> Int], NEW cap \in Nat,
         NEW n \in Nodes, Taken(Placed(n), demand) <= cap + Given(Born, demand),
         NEW id \in Ids,
         \/ \E m \in Nodes : Start(id, m)
         \/ Refuse(id) \/ Freeze(id) \/ Thaw(id) \/ End(id),
         Start(id, n) => LoadOf(Placed(n), demand) + demand[id] <= cap
  PROVE  Taken(Placed(n)', demand) <= cap + Given(Born', demand)
<1>1. IsFiniteSet(Placed(n)) /\ Placed(n) \in SUBSET Ids
  BY PlacedAfter
<1>2. Born \in SUBSET Ids /\ Born' \in SUBSET Ids /\ Born \subseteq Born'
  BY DEF Born, Start, Refuse, Freeze, Thaw, End, TypeOK
<1>3. IsFiniteSet(Born) /\ IsFiniteSet(Born')
  BY <1>2, FS_Subset DEF Sized
<1>4. /\ Given(Born, demand) <= Given(Born', demand)
      /\ Given(Born, demand) \in Nat /\ Given(Born', demand) \in Nat
      /\ Taken(Placed(n), demand) \in Nat
  BY <1>1, <1>2, <1>3, GivenGrows, LoadType
<1>5. CASE Start(id, n)
  <2>1. Placed(n)' = Placed(n) \cup {id} /\ id \in Ids \ Placed(n)
    BY <1>5, PlacedAfter
  <2>2. Placed(n) \in SUBSET Born
    BY DEF Placed, Born, Alive
  <2>3. Taken(Placed(n) \cup {id}, demand) <= cap + Given(Born, demand)
    BY <1>2, <1>3, <1>5, <2>1, <2>2, TakenFits
  <2>4. Taken(Placed(n) \cup {id}, demand) \in Nat
    BY <1>1, <2>1, LoadType, FS_AddElement
  <2>. QED
    BY <1>4, <2>1, <2>3, <2>4
<1>6. CASE ~Start(id, n)
  <2>1. ASSUME NEW m \in Nodes, Start(id, m) PROVE Placed(n)' = Placed(n)
    BY <1>6, <2>1, PlacedAfter
  <2>2. End(id) => Placed(n)' = Placed(n) \ {id}
    BY PlacedAfter
  <2>3. Refuse(id) \/ Freeze(id) \/ Thaw(id) => Placed(n)' = Placed(n)
    BY PlacedAfter
  <2>4. Placed(n)' \in SUBSET Placed(n)
    BY <2>1, <2>2, <2>3
  <2>5. Taken(Placed(n)', demand) <= Taken(Placed(n), demand)
    BY <1>1, <2>4, TakenGrows
  <2>6. Taken(Placed(n)', demand) \in Nat
    BY <1>1, <2>4, FS_Subset, LoadType
  <2>. QED
    BY <1>4, <2>5, <2>6
<1>. QED
  BY <1>5, <1>6

LEMMA RoomStep == Sized /\ TypeOK /\ RoomKept /\ [Next]_avars => RoomKept'
<1>. SUFFICES ASSUME Sized, TypeOK, RoomKept, Next PROVE RoomKept'
  BY DEF RoomKept, Placed, Born, avars
<1>1. PICK id \in Ids : \/ \E m \in Nodes : Start(id, m)
                        \/ Refuse(id) \/ Freeze(id) \/ Thaw(id) \/ End(id)
  BY DEF Next
<1>2. ASSUME NEW n \in Nodes
      PROVE  /\ Taken(Placed(n)', Cpu) <= CpuCap[n] + Given(Born', Cpu)
             /\ Taken(Placed(n)', Mem) <= MemCap[n] + Given(Born', Mem)
  <2>1. /\ Taken(Placed(n), Cpu) <= CpuCap[n] + Given(Born, Cpu)
        /\ Taken(Placed(n), Mem) <= MemCap[n] + Given(Born, Mem)
        /\ CpuCap[n] \in Nat /\ MemCap[n] \in Nat
    BY DEF RoomKept, Sized
  <2>2. Start(id, n) => HasRoom(n, id)
    BY DEF Start
  <2>3. Taken(Placed(n)', Cpu) <= CpuCap[n] + Given(Born', Cpu)
    BY <1>1, <2>1, <2>2, TakenStep DEF Sized, HasRoom
  <2>4. Taken(Placed(n)', Mem) <= MemCap[n] + Given(Born', Mem)
    BY <1>1, <2>1, <2>2, TakenStep DEF Sized, HasRoom
  <2>. QED
    BY <2>3, <2>4
<1>3. \A x \in Ids : place'[x] # NoNode <=> life'[x] \in Alive
  BY <1>1 DEF Sized, TypeOK, RoomKept, Start, Refuse, Freeze, Thaw, End, Alive
<1>. QED
  BY <1>2, <1>3 DEF RoomKept, Taken, Given, Units, UnitsOf, Negated

LEMMA RoomInit == Sized /\ Init => RoomKept
<1>. SUFFICES ASSUME Sized, Init PROVE RoomKept
  OBVIOUS
<1>1. \A n \in Nodes : Placed(n) = {}
  BY DEF Init, Placed, Alive
<1>2. Born \in SUBSET Ids /\ IsFiniteSet(Born)
  BY FS_Subset DEF Born, Sized
<1>3. Given(Born, Cpu) \in Nat /\ Given(Born, Mem) \in Nat
  BY <1>2, LoadType DEF Sized
<1>. QED
  BY <1>1, <1>3, LoadOfNone DEF RoomKept, Init, Sized, Alive

(* RoomKept: for any demands, negative ones included, the sandboxes on a node
   never demand more than it has and negative demands have given, and a sandbox
   has a place exactly as long as it lives. *)
THEOREM RoomIsKept == ASSUME Sized PROVE Spec => []RoomKept
<1>1. Sized
  OBVIOUS
<1>2. Init => TypeOK /\ RoomKept
  BY <1>1, TypeInit, RoomInit
<1>3. TypeOK /\ RoomKept /\ [Next]_avars => (TypeOK /\ RoomKept)'
  BY <1>1, TypeStep, RoomStep
<1>. QED
  BY <1>2, <1>3, PTL DEF Spec

(* LivesOnce: every step of the placement moves each sandbox one step along its
   life, or not at all. *)
LEMMA OneLifeEach == Spec => LivesOnce
<1>1. Init => L!Init
  BY DEF Init, L!Init
<1>2. TypeOK /\ [Next]_avars => [L!Next]_life
  <2>. SUFFICES ASSUME TypeOK, Next PROVE L!Next
    BY DEF avars
  <2>1. life' \in [Ids -> L!Lives]
    BY TypeStep DEF TypeOK, Lives, Alive, L!Lives, L!Alive
  <2>2. PICK id \in Ids : \/ \E m \in Nodes : Start(id, m)
                          \/ Refuse(id) \/ Freeze(id) \/ Thaw(id) \/ End(id)
    BY DEF Next
  <2>3. \A x \in Ids \ {id} : L!Stays(x)
    BY <2>2 DEF Start, Refuse, Freeze, Thaw, End, TypeOK, L!Stays
  <2>4. L!Begins(id) \/ L!Freezes(id) \/ L!Thaws(id) \/ L!Ends(id)
    BY <2>2 DEF Start, Refuse, Freeze, Thaw, End, TypeOK, Alive,
                L!Begins, L!Freezes, L!Thaws, L!Ends
  <2>. QED
    BY <2>1, <2>3, <2>4 DEF L!Next
<1>. QED
  BY <1>1, <1>2, TypeInit, TypeStep, PTL DEF Spec, LivesOnce, L!Spec

(* NeverMoves: a sandbox ends on the node that it was started on. *)
LEMMA StaysInPlace == ASSUME Sized PROVE Spec => NeverMoves
<1>1. Sized
  OBVIOUS
<1>2. Init => TypeOK /\ RoomKept
  BY <1>1, TypeInit, RoomInit
<1>3. TypeOK /\ RoomKept /\ [Next]_avars => (TypeOK /\ RoomKept)'
  BY <1>1, TypeStep, RoomStep
<1>4. TypeOK /\ RoomKept /\ [Next]_avars =>
        [\A id \in Ids : place[id] # NoNode => place'[id] \in {place[id], NoNode}]_avars
  BY DEF TypeOK, RoomKept, Next, Start, Refuse, Freeze, Thaw, End, Alive
<1>. QED
  BY <1>2, <1>3, <1>4, PTL DEF Spec, NeverMoves
=============================================================================
