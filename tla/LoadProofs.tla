------------------------------ MODULE LoadProofs ------------------------------
(***************************************************************************)
(* What the load of a set of sandboxes is when one joins or leaves it, for *)
(* every demand, the negative ones included.                               *)
(***************************************************************************)
EXTENDS Load, FiniteSetTheorems, TLAPS

(* A sandbox's own units: as many as it asks for, none if that is negative. *)
LEMMA UnitsOfOne ==
  ASSUME NEW D, NEW demand \in [D -> Int], NEW x \in D
  PROVE  /\ IsFiniteSet(UnitsOf(x, demand))
         /\ Cardinality(UnitsOf(x, demand)) = IF demand[x] > 0 THEN demand[x] ELSE 0
<1>1. demand[x] \in Int
  OBVIOUS
<1>2. /\ IsFiniteSet(1 .. demand[x])
      /\ Cardinality(1 .. demand[x]) = IF demand[x] > 0 THEN demand[x] ELSE 0
  BY <1>1, FS_Interval
<1>3. IsFiniteSet({x}) /\ Cardinality({x}) = 1
  BY FS_Singleton
<1>4. /\ IsFiniteSet({x} \X (1 .. demand[x]))
      /\ Cardinality({x} \X (1 .. demand[x])) = Cardinality({x}) * Cardinality(1 .. demand[x])
  BY <1>2, <1>3, FS_Product
<1>. QED
  BY <1>1, <1>2, <1>3, <1>4 DEF UnitsOf

(* Finitely many sandboxes take finitely many units. *)
LEMMA UnitsFinite ==
  ASSUME NEW D, NEW demand \in [D -> Int], NEW S \in SUBSET D, IsFiniteSet(S)
  PROVE  IsFiniteSet(Units(S, demand)) /\ Taken(S, demand) \in Nat
<1>. DEFINE T == {UnitsOf(x, demand) : x \in S}
            f == [x \in S |-> UnitsOf(x, demand)]
<1>1. f \in Surjection(S, T)
  BY DEF Surjection
<1>2. IsFiniteSet(T)
  BY <1>1, FS_Surjection
<1>3. \A U \in T : IsFiniteSet(U)
  BY UnitsOfOne
<1>4. IsFiniteSet(UNION T)
  BY <1>2, <1>3, FS_UNION
<1>. QED
  BY <1>4, FS_CardinalityType DEF Units, Taken

(* A sandbox that joins adds its units. *)
LEMMA TakenOfMore ==
  ASSUME NEW D, NEW demand \in [D -> Int], NEW S \in SUBSET D, IsFiniteSet(S),
         NEW x \in D \ S
  PROVE  Taken(S \cup {x}, demand) = Taken(S, demand) + IF demand[x] > 0 THEN demand[x] ELSE 0
<1>1. Units(S \cup {x}, demand) = Units(S, demand) \cup UnitsOf(x, demand)
  BY DEF Units
<1>2. Units(S, demand) \cap UnitsOf(x, demand) = {}
  BY DEF Units, UnitsOf
<1>3. IsFiniteSet(Units(S, demand)) /\ Taken(S, demand) \in Nat
  BY UnitsFinite
<1>4. /\ IsFiniteSet(UnitsOf(x, demand))
      /\ Cardinality(UnitsOf(x, demand)) = IF demand[x] > 0 THEN demand[x] ELSE 0
  BY UnitsOfOne
<1>5. Cardinality(Units(S, demand) \cup UnitsOf(x, demand))
        = Cardinality(Units(S, demand)) + Cardinality(UnitsOf(x, demand))
            - Cardinality(Units(S, demand) \cap UnitsOf(x, demand))
  BY <1>3, <1>4, FS_Union
<1>6. Cardinality({}) = 0
  BY FS_EmptySet
<1>7. demand[x] \in Int
  OBVIOUS
<1>8. Taken(S \cup {x}, demand) = Taken(S, demand) + Cardinality(UnitsOf(x, demand)) - 0
  BY <1>1, <1>2, <1>5, <1>6, Zenon DEF Taken
<1>. QED
  BY <1>3, <1>4, <1>7, <1>8

(* More sandboxes take no less. *)
LEMMA TakenGrows ==
  ASSUME NEW D, NEW demand \in [D -> Int], NEW T \in SUBSET D, IsFiniteSet(T),
         NEW S \in SUBSET T
  PROVE  Taken(S, demand) <= Taken(T, demand)
<1>1. Units(S, demand) \subseteq Units(T, demand)
  BY DEF Units
<1>2. IsFiniteSet(Units(T, demand))
  BY UnitsFinite
<1>. QED
  BY <1>1, <1>2, FS_Subset DEF Taken

(* The demands the other way round. *)
LEMMA NegatedType ==
  ASSUME NEW D, NEW demand \in [D -> Int]
  PROVE  /\ Negated(demand) \in [D -> Int]
         /\ \A x \in D : Negated(demand)[x] = 0 - demand[x]
  BY DEF Negated

(* A load is a number between what is given and what is taken. *)
LEMMA LoadType ==
  ASSUME NEW D, NEW demand \in [D -> Int], NEW S \in SUBSET D, IsFiniteSet(S)
  PROVE  /\ LoadOf(S, demand) \in Int
         /\ Taken(S, demand) \in Nat /\ Given(S, demand) \in Nat
         /\ 0 - Given(S, demand) <= LoadOf(S, demand)
         /\ LoadOf(S, demand) <= Taken(S, demand)
<1>1. Taken(S, demand) \in Nat
  BY UnitsFinite
<1>2. Given(S, demand) \in Nat
  BY UnitsFinite, NegatedType DEF Given
<1>. QED
  BY <1>1, <1>2 DEF LoadOf

(* More sandboxes give no less. *)
LEMMA GivenGrows ==
  ASSUME NEW D, NEW demand \in [D -> Int], NEW T \in SUBSET D, IsFiniteSet(T),
         NEW S \in SUBSET T
  PROVE  Given(S, demand) <= Given(T, demand)
BY NegatedType, TakenGrows DEF Given

(* No sandboxes, no load. *)
LEMMA LoadOfNone ==
  ASSUME NEW demand
  PROVE  Taken({}, demand) = 0 /\ LoadOf({}, demand) = 0
<1>1. Units({}, demand) = {} /\ Units({}, Negated(demand)) = {}
  BY DEF Units
<1>. QED
  BY <1>1, FS_EmptySet DEF LoadOf, Given, Taken

(* A sandbox that joins adds its demand. *)
LEMMA LoadOfMore ==
  ASSUME NEW D, NEW demand \in [D -> Int], NEW S \in SUBSET D, IsFiniteSet(S),
         NEW x \in D \ S
  PROVE  LoadOf(S \cup {x}, demand) = LoadOf(S, demand) + demand[x]
<1>1. Taken(S \cup {x}, demand) = Taken(S, demand) + IF demand[x] > 0 THEN demand[x] ELSE 0
  BY TakenOfMore
<1>2. Negated(demand) \in [D -> Int] /\ Negated(demand)[x] = 0 - demand[x]
  BY NegatedType
<1>3. Given(S \cup {x}, demand)
        = Given(S, demand) + IF Negated(demand)[x] > 0 THEN Negated(demand)[x] ELSE 0
  BY <1>2, TakenOfMore DEF Given
<1>4. Taken(S, demand) \in Nat /\ Given(S, demand) \in Nat
  BY LoadType
<1>5. demand[x] \in Int
  OBVIOUS
<1>. QED
  BY <1>1, <1>2, <1>3, <1>4, <1>5 DEF LoadOf

(* Where a sandbox fits, what is taken then exceeds the room by no more than
   what negative demands have given. *)
LEMMA TakenFits ==
  ASSUME NEW D, NEW demand \in [D -> Int], NEW B \in SUBSET D, IsFiniteSet(B),
         NEW S \in SUBSET B, NEW x \in D \ S, NEW cap \in Int,
         Taken(S, demand) <= cap + Given(B, demand),
         LoadOf(S, demand) + demand[x] <= cap
  PROVE  Taken(S \cup {x}, demand) <= cap + Given(B, demand)
<1>1. IsFiniteSet(S) /\ S \in SUBSET D
  BY FS_Subset
<1>2. Taken(S \cup {x}, demand) = Taken(S, demand) + IF demand[x] > 0 THEN demand[x] ELSE 0
  BY <1>1, TakenOfMore
<1>3. Given(S, demand) <= Given(B, demand)
  BY GivenGrows
<1>4. /\ Taken(S, demand) \in Nat /\ Given(S, demand) \in Nat
      /\ LoadOf(S, demand) = Taken(S, demand) - Given(S, demand)
  BY <1>1, LoadType DEF LoadOf
<1>5. Given(B, demand) \in Nat /\ demand[x] \in Int
  BY LoadType
<1>. QED
  BY <1>2, <1>3, <1>4, <1>5

(* A sandbox that leaves takes its demand away. *)
LEMMA LoadOfLess ==
  ASSUME NEW D, NEW demand \in [D -> Int], NEW S \in SUBSET D, IsFiniteSet(S),
         NEW x \in S
  PROVE  LoadOf(S \ {x}, demand) = LoadOf(S, demand) - demand[x]
<1>1. IsFiniteSet(S \ {x})
  BY FS_RemoveElement
<1>2. x \in D \ (S \ {x}) /\ S \ {x} \in SUBSET D
  OBVIOUS
<1>3. LoadOf((S \ {x}) \cup {x}, demand) = LoadOf(S \ {x}, demand) + demand[x]
  BY <1>1, <1>2, LoadOfMore
<1>4. (S \ {x}) \cup {x} = S
  OBVIOUS
<1>5. LoadOf(S \ {x}, demand) \in Int
  BY <1>1, <1>2, LoadType
<1>6. demand[x] \in Int
  OBVIOUS
<1>7. LoadOf(S, demand) = LoadOf(S \ {x}, demand) + demand[x]
  BY <1>3, <1>4, Zenon
<1>. QED
  BY <1>5, <1>6, <1>7
=============================================================================
