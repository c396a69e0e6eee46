--------------------------- MODULE SchedulerProofs ---------------------------
(***************************************************************************)
(* Theorems about the scheduler, for every set of nodes and sandboxes,     *)
(* every demand, capacity and lifetime.                                    *)
(***************************************************************************)
EXTENDS Scheduler, LoadProofs

-----------------------------------------------------------------------------
(* A call in progress is a call on a sandbox, at a node. *)
LEMMA CallInProgress ==
  ASSUME TypeOK, NEW phases \in SUBSET Phases, InCall(phases)
  PROVE  call \in Call /\ call.phase \in phases
BY DEF TypeOK, InCall, NoCall, Phases

(* Sending a command makes a call. *)
LEMMA RequestIsCall ==
  ASSUME TypeOK, NEW op \in Ops, NEW id \in Ids, NEW n \in Nodes,
         NEW by \in {"user", "checker"}, Request(op, id, n, by)
  PROVE  /\ call' \in Call
         /\ call'.op = op /\ call'.id = id /\ call'.node = n /\ call'.by = by
         /\ call'.phase \in {"sent", "failed"}
         /\ op = "create" => call'.expiresAt = now + Timeout[id]
BY TimeAssumption DEF TypeOK, Request, Call, Phases

(* A call whose phase changes stays the call it was. *)
LEMMA BecomesIsCall ==
  ASSUME TypeOK, call \in Call, NEW phase \in Phases, Becomes(phase)
  PROVE  /\ call' \in Call
         /\ call'.op = call.op /\ call'.id = call.id /\ call'.node = call.node
         /\ call'.by = call.by /\ call'.expiresAt = call.expiresAt
         /\ call'.phase = phase
BY DEF Becomes, Call

-----------------------------------------------------------------------------
(* Every step keeps the types, nodes that come and go included. *)
LEMMA TypeStep == TypeOK /\ [OpenNext]_vars => TypeOK'
<1> SUFFICES ASSUME TypeOK, [OpenNext]_vars PROVE TypeOK'
  OBVIOUS
<1> USE DEF nodeVars, recordVars, remoteVars, NodeUnchanged
<1>1. ASSUME NEW id \in Ids, Schedule(id) PROVE TypeOK'
  <2>1. call' \in Call \cup {NoCall}
    BY <1>1, RequestIsCall DEF Schedule, BestNodes, Fitting, TypeOK, Ops
  <2>. QED
    BY <1>1, <2>1 DEF Schedule, TypeOK
<1>2. ASSUME NEW id \in Ids, NEW by \in {"user", "checker"}, Stop(id, by)
      PROVE  call' \in Call \cup {NoCall}
  BY <1>2, RequestIsCall DEF Stop, CanStop, Registered, Ops
<1>3. ASSUME NEW id \in Ids, NEW by \in {"user", "checker"}, Pause(id, by)
      PROVE  call' \in Call \cup {NoCall} /\ state' \in [Ids -> {"none", "running", "paused"}]
  <2>1. CASE Registered(nodeOf[id])
    BY <1>3, <2>1, RequestIsCall DEF Pause, Registered, Ops, TypeOK
  <2>2. CASE ~Registered(nodeOf[id])
    BY <1>3, <2>2 DEF Pause, TypeOK
  <2>. QED
    BY <2>1, <2>2
<1>4. ASSUME NEW id \in Ids, Resume(id)
      PROVE  call' \in Call \cup {NoCall} /\ state' \in [Ids -> {"none", "running", "paused"}]
  <2>1. CASE Registered(nodeOf[id])
    BY <1>4, <2>1, RequestIsCall DEF Resume, Registered, Ops, TypeOK
  <2>2. CASE ~Registered(nodeOf[id])
    BY <1>4, <2>2 DEF Resume, TypeOK
  <2>. QED
    BY <2>1, <2>2
<1>5. ASSUME NEW id \in Ids, UserRequest(id) PROVE TypeOK'
  <2>1. CASE Stop(id, "user")
    BY <1>5, <1>2, <2>1 DEF UserRequest, Stop, TypeOK
  <2>2. CASE Pause(id, "user")
    BY <1>5, <1>3, <2>2 DEF UserRequest, Pause, TypeOK
  <2>3. CASE Resume(id)
    BY <1>5, <1>4, <2>3 DEF UserRequest, Resume, TypeOK
  <2>. QED
    BY <1>5, <2>1, <2>2, <2>3 DEF UserRequest
<1>6. ASSUME NEW id \in Ids, Retire(id) PROVE TypeOK'
  <2>1. CASE Stop(id, "checker")
    BY <1>6, <1>2, <2>1 DEF Retire, Stop, TypeOK
  <2>2. CASE Pause(id, "checker")
    BY <1>6, <1>3, <2>2 DEF Retire, Pause, TypeOK
  <2>3. CASE UNCHANGED <<recordVars, call>>
    BY <1>6, <2>3 DEF Retire, TypeOK
  <2>. QED
    BY <1>6, <2>1, <2>2, <2>3 DEF Retire
<1>7. CASE NodeAnswers
  <2>1. call \in Call
    BY <1>7, CallInProgress
       DEF NodeAnswers, NodeDoes, NodeRefuses, NodeFailsMidway, Phases
  <2>2. call' \in Call
    BY <1>7, <2>1, BecomesIsCall
       DEF NodeAnswers, NodeDoes, NodeRefuses, NodeFailsMidway, Phases
  <2>3. Target[call.op] \in {"none", "running", "paused"}
        /\ <<call.op, call.id>> \in Ops \X Ids
    BY <2>1 DEF Call, Target, Ops
  <2>. QED
    BY <1>7, <2>1, <2>2, <2>3
       DEF NodeAnswers, NodeDoes, NodeRefuses, NodeFailsMidway, TypeOK
<1>8. CASE ClientReturns
  <2>1. call \in Call
    BY <1>8, CallInProgress DEF ClientReturns, Phases
  <2>2. call' \in Call
    BY <1>8, <2>1, BecomesIsCall DEF ClientReturns, Phases
  <2>3. sandboxPorts' \subseteq Ids
    BY <1>8, <2>1 DEF ClientReturns, TypeOK, Call
  <2>. QED
    BY <1>8, <2>2, <2>3 DEF ClientReturns, TypeOK
<1>9. CASE GiveUp
  <2>1. call \in Call
    BY <1>9, CallInProgress DEF GiveUp, Phases
  <2>2. call' \in Call
    BY <1>9, <2>1, BecomesIsCall DEF GiveUp, Phases
  <2>3. <<call.op, call.id>> \in Ops \X Ids
    BY <2>1 DEF Call
  <2>. QED
    BY <1>9, <2>2, <2>3 DEF GiveUp, TypeOK
<1>10. CASE Finish
  <2>1. call \in Call
    BY <1>10, CallInProgress
       DEF Finish, FinishSchedule, Reserve, FinishStop, Release, FinishPauseOrResume, FinishFailed, Phases
  <2>2. Cpu[call.id] \in Int /\ Mem[call.id] \in Int /\ call.expiresAt \in Int
        /\ call.node \in Nodes /\ call.id \in Ids
    BY <2>1, DemandAssumption DEF Call
  <2>3. CASE FinishSchedule
    BY <2>2, <2>3 DEF FinishSchedule, Reserve, TypeOK
  <2>4. CASE FinishStop
    BY <2>2, <2>4 DEF FinishStop, Release, TypeOK
  <2>5. CASE FinishPauseOrResume
    BY <2>2, <2>5 DEF FinishPauseOrResume, TypeOK, Target
  <2>6. CASE FinishFailed
    BY <2>6 DEF FinishFailed, TypeOK
  <2>. QED
    BY <1>10, <2>3, <2>4, <2>5, <2>6 DEF Finish
<1>11. ASSUME NEW op \in Ops, NEW id \in Ids, LateCommand(op, id) PROVE TypeOK'
  BY <1>11 DEF LateCommand, TypeOK, Target, Ops
<1>17. ASSUME NEW id \in Ids, GuestDies(id) PROVE TypeOK'
  BY <1>17 DEF GuestDies, TypeOK
<1>12. CASE Scan
  BY <1>12 DEF Scan, TypeOK
<1>13. CASE Tick
  BY <1>13 DEF Tick, TypeOK
<1>14. ASSUME NEW id \in Ids, NEW d \in 0 .. 1, ExtendTimeout(id, d) PROVE TypeOK'
  BY <1>14 DEF ExtendTimeout, TypeOK
<1>15. ASSUME NEW n \in Nodes, RegisterNode(n) \/ UnregisterNode(n) PROVE TypeOK'
  BY <1>15 DEF RegisterNode, UnregisterNode, TypeOK
<1>16. CASE UNCHANGED vars
  BY <1>16 DEF vars, TypeOK
<1>. QED
  BY <1>1, <1>5, <1>6, <1>7, <1>8, <1>9, <1>10, <1>11, <1>12, <1>13, <1>14, <1>15, <1>16, <1>17
     DEF OpenNext, Next, CallProgress

LEMMA TypeInit == Init => TypeOK
BY DEF Init, TypeOK, NoCall

(* The types hold in every state of the scheduler, as deployed. *)
THEOREM TypeCorrect == Spec => []TypeOK
<1>1. TypeOK /\ [Next]_vars => TypeOK'
  BY TypeStep DEF OpenNext
<1>. QED
  BY <1>1, TypeInit, PTL DEF Spec

-----------------------------------------------------------------------------
(* What the bookkeeping rests on.  A record has a node exactly while it
   exists, and an operation in progress found what it checked under the lock
   still true when its call returns: the lock is held across the call. *)
RecordsHaveNodes ==
  \A id \in Ids : /\ state[id] = "none" <=> nodeOf[id] = NoNode
                  /\ state[id] # "none" => id \in scheduled

CreateHasRoom ==
  (call # NoCall /\ call.op = "create") =>
     /\ state[call.id] = "none"
     /\ call.id \in scheduled
     /\ allocatedCPU[call.node] + Cpu[call.id] <= CpuCap[call.node]
     /\ allocatedMemory[call.node] + Mem[call.id] <= MemCap[call.node]

OthersHaveRecords ==
  (call # NoCall /\ call.op # "create") =>
     /\ nodeOf[call.id] = call.node
     /\ call.op = "stop" => state[call.id] # "none"
     /\ call.op = "pause" => state[call.id] = "running"
     /\ call.op = "resume" => state[call.id] = "paused"

(* What the sandboxes on a node demand, and what negative demands have given. *)
RoomBooked ==
  \A n \in Nodes : /\ Taken(On(n), Cpu) <= CpuCap[n] + GivenCpu
                   /\ Taken(On(n), Mem) <= MemCap[n] + GivenMem

AllReady == \A n \in Nodes : nodeState[n] = "ready"

Booked == /\ TypeOK
          /\ AllReady
          /\ RecordsHaveNodes
          /\ CreateHasRoom
          /\ OthersHaveRecords
          /\ Accounting
          /\ RoomBooked

(* The sandboxes on a node are finitely many, and so are their units. *)
LEMMA OnIsFinite ==
  ASSUME NEW n
  PROVE  /\ On(n) \in SUBSET Ids
         /\ IsFiniteSet(On(n))
         /\ LoadOf(On(n), Cpu) \in Int /\ Taken(On(n), Cpu) \in Nat
         /\ LoadOf(On(n), Mem) \in Int /\ Taken(On(n), Mem) \in Nat
         /\ Cardinality(On(n)) \in Nat
<1>1. On(n) \in SUBSET Ids
  BY DEF On, Recorded
<1>2. IsFiniteSet(On(n))
  BY <1>1, IdsAssumption, FS_Subset
<1>. QED
  BY <1>1, <1>2, LoadType, FS_CardinalityType, DemandAssumption

(* What negative demands have given only grows, and a node that gains nothing
   stays within it. *)
LEMMA GivenType ==
  ASSUME TypeOK
  PROVE  IsFiniteSet(scheduled) /\ GivenCpu \in Nat /\ GivenMem \in Nat
<1>1. IsFiniteSet(scheduled)
  BY IdsAssumption, FS_Subset DEF TypeOK
<1>. QED
  BY <1>1, LoadType, DemandAssumption DEF TypeOK, GivenCpu, GivenMem

LEMMA GivenStep ==
  ASSUME TypeOK, TypeOK', scheduled \subseteq scheduled'
  PROVE  /\ GivenCpu \in Nat /\ GivenMem \in Nat /\ GivenCpu' \in Nat /\ GivenMem' \in Nat
         /\ GivenCpu <= GivenCpu' /\ GivenMem <= GivenMem'
<1>1. scheduled' \in SUBSET Ids /\ IsFiniteSet(scheduled')
  BY IdsAssumption, FS_Subset DEF TypeOK
<1>2. /\ Given(scheduled, Cpu) <= Given(scheduled', Cpu) /\ Given(scheduled', Cpu) \in Nat
      /\ Given(scheduled, Mem) <= Given(scheduled', Mem) /\ Given(scheduled', Mem) \in Nat
  BY <1>1, GivenGrows, LoadType, DemandAssumption
<1>3. GivenCpu' = Given(scheduled', Cpu) /\ GivenMem' = Given(scheduled', Mem)
  BY DEF GivenCpu, GivenMem, Given, Taken, Units, UnitsOf, Negated
<1>. QED
  BY <1>2, <1>3, GivenType DEF GivenCpu, GivenMem

LEMMA RoomStays ==
  ASSUME Booked, TypeOK', scheduled \subseteq scheduled', \A n \in Nodes : On(n)' \subseteq On(n)
  PROVE  RoomBooked'
<1>1. ASSUME NEW n \in Nodes
      PROVE  /\ Taken(On(n)', Cpu) <= CpuCap[n] + GivenCpu'
             /\ Taken(On(n)', Mem) <= MemCap[n] + GivenMem'
  <2>1. /\ Taken(On(n)', Cpu) <= Taken(On(n), Cpu) /\ Taken(On(n)', Cpu) \in Nat
        /\ Taken(On(n)', Mem) <= Taken(On(n), Mem) /\ Taken(On(n)', Mem) \in Nat
    BY OnIsFinite, FS_Subset, TakenGrows, LoadType, DemandAssumption
  <2>2. /\ Taken(On(n), Cpu) <= CpuCap[n] + GivenCpu /\ CpuCap[n] \in Nat
        /\ Taken(On(n), Mem) <= MemCap[n] + GivenMem /\ MemCap[n] \in Nat
    BY CapacityAssumption DEF Booked, RoomBooked
  <2>. QED
    BY <2>1, <2>2, OnIsFinite, GivenStep DEF Booked
<1>. QED
  BY <1>1 DEF RoomBooked, Taken, Units, UnitsOf

(* The counters are what the records take, and so between what is given and
   what there is room for. *)
LEMMA BookedIsBounded == Booked => CapacityRespected
<1>. SUFFICES ASSUME Booked, NEW n \in Nodes
              PROVE  /\ allocatedCPU[n] \in (0 - GivenCpu) .. (CpuCap[n] + GivenCpu)
                     /\ allocatedMemory[n] \in (0 - GivenMem) .. (MemCap[n] + GivenMem)
  BY DEF CapacityRespected
<1>1. IsFiniteSet(On(n)) /\ On(n) \in SUBSET scheduled /\ scheduled \in SUBSET Ids
  BY OnIsFinite DEF Booked, RecordsHaveNodes, On, Recorded, TypeOK
<1>2. IsFiniteSet(scheduled) /\ GivenCpu \in Nat /\ GivenMem \in Nat
  BY GivenType DEF Booked
<1>3. Given(On(n), Cpu) <= GivenCpu /\ Given(On(n), Mem) <= GivenMem
  BY <1>1, <1>2, GivenGrows, DemandAssumption DEF GivenCpu, GivenMem
<1>4. /\ LoadOf(On(n), Cpu) \in Int /\ LoadOf(On(n), Mem) \in Int
      /\ Given(On(n), Cpu) \in Nat /\ 0 - Given(On(n), Cpu) <= LoadOf(On(n), Cpu)
      /\ Given(On(n), Mem) \in Nat /\ 0 - Given(On(n), Mem) <= LoadOf(On(n), Mem)
      /\ Taken(On(n), Cpu) \in Nat /\ LoadOf(On(n), Cpu) <= Taken(On(n), Cpu)
      /\ Taken(On(n), Mem) \in Nat /\ LoadOf(On(n), Mem) <= Taken(On(n), Mem)
  BY <1>1, OnIsFinite, LoadType, DemandAssumption
<1>5. /\ Taken(On(n), Cpu) <= CpuCap[n] + GivenCpu /\ CpuCap[n] \in Nat
      /\ Taken(On(n), Mem) <= MemCap[n] + GivenMem /\ MemCap[n] \in Nat
      /\ allocatedCPU[n] = LoadOf(On(n), Cpu) /\ allocatedMemory[n] = LoadOf(On(n), Mem)
  BY CapacityAssumption DEF Booked, RoomBooked, Accounting
<1>6. allocatedCPU[n] \in (0 - GivenCpu) .. (CpuCap[n] + GivenCpu)
  BY <1>2, <1>3, <1>4, <1>5
<1>7. allocatedMemory[n] \in (0 - GivenMem) .. (MemCap[n] + GivenMem)
  BY <1>2, <1>3, <1>4, <1>5
<1>. QED
  BY <1>6, <1>7

(* A step that leaves counters, records and node table alone, and either
   leaves the call alone, ends it, or changes its phase, keeps the books. *)
LEMMA QuietStep ==
  ASSUME Booked, TypeOK', UNCHANGED <<nodeVars, recordVars, scheduled>>,
         \/ call' \in {call, NoCall}
         \/ /\ call # NoCall
            /\ call'.op = call.op /\ call'.id = call.id /\ call'.node = call.node
  PROVE  Booked'
BY DEF Booked, AllReady, RecordsHaveNodes, CreateHasRoom, OthersHaveRecords,
       Accounting, RoomBooked, GivenCpu, GivenMem, On, Recorded, nodeVars, recordVars

(* An operation that only sends its command reserves nothing yet. *)
LEMMA SendStep ==
  ASSUME Booked, TypeOK', Free, UNCHANGED <<nodeVars, recordVars>>, scheduled \subseteq scheduled',
         NEW op \in Ops, NEW id \in Ids, NEW n \in Nodes, NEW by \in {"user", "checker"},
         Request(op, id, n, by),
         op = "create" => /\ state[id] = "none" /\ id \in scheduled'
                          /\ allocatedCPU[n] + Cpu[id] <= CpuCap[n]
                          /\ allocatedMemory[n] + Mem[id] <= MemCap[n],
         op # "create" => nodeOf[id] = n,
         op = "stop" => state[id] # "none",
         op = "pause" => state[id] = "running",
         op = "resume" => state[id] = "paused"
  PROVE  Booked'
<1>1. call' # NoCall /\ call'.op = op /\ call'.id = id /\ call'.node = n
  BY RequestIsCall DEF Booked, NoCall, Call
<1>2. CreateHasRoom' /\ OthersHaveRecords'
  BY <1>1 DEF CreateHasRoom, OthersHaveRecords, nodeVars, recordVars
<1>3. RoomBooked'
  BY RoomStays DEF On, Recorded, recordVars
<1>. QED
  BY <1>2, <1>3 DEF Booked, AllReady, RecordsHaveNodes, Accounting, On, Recorded,
                    nodeVars, recordVars

LEMMA ScheduleStep ==
  ASSUME Booked, TypeOK', NEW id \in Ids, Schedule(id)
  PROVE  Booked'
<1>. USE DEF Schedule
<1>1. state[id] = "none" /\ Free
  BY DEF Booked, RecordsHaveNodes
<1>2. ASSUME NEW n \in BestNodes(id), Request("create", id, n, "user")
      PROVE  Booked'
  <2>1. /\ n \in Nodes
        /\ CpuCap[n] - allocatedCPU[n] >= Cpu[id]
        /\ MemCap[n] - allocatedMemory[n] >= Mem[id]
    BY DEF BestNodes, Fitting, AvailableCPU, AvailableMemory
  <2>2. /\ allocatedCPU[n] + Cpu[id] <= CpuCap[n]
        /\ allocatedMemory[n] + Mem[id] <= MemCap[n]
    BY <2>1, CapacityAssumption, DemandAssumption DEF Booked, TypeOK
  <2>. QED
    BY <1>1, <1>2, <2>1, <2>2, SendStep DEF Ops
<1>3. CASE UNCHANGED call
  <2>1. RoomBooked'
    BY RoomStays DEF On, Recorded, recordVars
  <2>. QED
    BY <1>1, <1>3, <2>1 DEF Booked, AllReady, RecordsHaveNodes, Accounting, On, Recorded,
                            nodeVars, recordVars, CreateHasRoom, OthersHaveRecords, Free
<1>. QED
  BY <1>2, <1>3

LEMMA StopSends ==
  ASSUME Booked, TypeOK', Free, UNCHANGED <<nodeVars, scheduled>>,
         NEW id \in Ids, NEW by \in {"user", "checker"}, Stop(id, by)
  PROVE  Booked'
<1>1. nodeOf[id] \in Nodes
  BY DEF Stop, CanStop, Registered
<1>. QED
  BY <1>1, SendStep DEF Stop, CanStop, Ops

LEMMA PauseSends ==
  ASSUME Booked, TypeOK', Free, UNCHANGED <<nodeVars, scheduled>>,
         NEW id \in Ids, NEW by \in {"user", "checker"}, Pause(id, by)
  PROVE  Booked'
<1>1. nodeOf[id] \in Nodes /\ Registered(nodeOf[id])
  BY NodesAssumption DEF Pause, Registered, Booked, TypeOK, RecordsHaveNodes, AllReady
<1>. QED
  BY <1>1, SendStep DEF Pause, Ops

LEMMA ResumeSends ==
  ASSUME Booked, TypeOK', Free, UNCHANGED <<nodeVars, scheduled>>, NEW id \in Ids, Resume(id)
  PROVE  Booked'
<1>1. nodeOf[id] \in Nodes /\ Registered(nodeOf[id])
  BY NodesAssumption DEF Resume, Registered, Booked, TypeOK, RecordsHaveNodes, AllReady
<1>. QED
  BY <1>1, SendStep DEF Resume, Ops

(* A creation that succeeded takes the room it was found to have. *)
LEMMA FinishScheduleStep ==
  ASSUME Booked, TypeOK', FinishSchedule
  PROVE  Booked'
<1>0. call \in Call /\ call # NoCall /\ call.op = "create"
  BY CallInProgress DEF Booked, FinishSchedule, Reserve, Phases, Call, NoCall
<1>1. PICK id \in Ids, n \in Nodes : id = call.id /\ n = call.node
  BY <1>0 DEF Call
<1>2. /\ state[id] = "none" /\ id \in scheduled
      /\ allocatedCPU[n] + Cpu[id] <= CpuCap[n]
      /\ allocatedMemory[n] + Mem[id] <= MemCap[n]
  BY <1>0, <1>1 DEF Booked, CreateHasRoom
<1>3. RecordsHaveNodes'
  BY <1>1, <1>2, NodesAssumption DEF FinishSchedule, Reserve, Booked, TypeOK, RecordsHaveNodes
<1>4. On(n)' = On(n) \cup {id} /\ id \notin On(n)
  BY <1>1, <1>2 DEF On, Recorded, FinishSchedule, Reserve, Booked, TypeOK
<1>5. ASSUME NEW m \in Nodes, m # n PROVE On(m)' = On(m)
  BY <1>1, <1>2, <1>5 DEF On, Recorded, FinishSchedule, Reserve, Booked, TypeOK
<1>6. /\ LoadOf(On(n), Cpu)' = LoadOf(On(n), Cpu) + Cpu[id]
      /\ LoadOf(On(n), Mem)' = LoadOf(On(n), Mem) + Mem[id]
  BY <1>1, <1>4, OnIsFinite, LoadOfMore, DemandAssumption
<1>7. Cardinality(On(n))' = Cardinality(On(n)) + 1
  BY <1>4, OnIsFinite, FS_AddElement
<1>8. Accounting'
  <2>1. ASSUME NEW m \in Nodes, m # n
        PROVE  /\ allocatedCPU'[m] = LoadOf(On(m), Cpu)'
               /\ allocatedMemory'[m] = LoadOf(On(m), Mem)'
               /\ sandboxCount'[m] = Cardinality(On(m))'
    BY <1>1, <1>5, <2>1 DEF Booked, Accounting, FinishSchedule, Reserve, TypeOK
  <2>2. /\ allocatedCPU'[n] = LoadOf(On(n), Cpu)'
        /\ allocatedMemory'[n] = LoadOf(On(n), Mem)'
        /\ sandboxCount'[n] = Cardinality(On(n))'
    BY <1>1, <1>6, <1>7 DEF Booked, Accounting, FinishSchedule, Reserve, TypeOK
  <2>. QED
    BY <2>1, <2>2 DEF Accounting
<1>9. RoomBooked'
  <2>1. /\ scheduled \in SUBSET Ids /\ IsFiniteSet(scheduled)
        /\ On(n) \in SUBSET scheduled /\ UNCHANGED scheduled
    BY GivenType DEF Booked, TypeOK, RecordsHaveNodes, On, Recorded, FinishSchedule
  <2>2. /\ Taken(On(n), Cpu) <= CpuCap[n] + Given(scheduled, Cpu) /\ CpuCap[n] \in Int
        /\ Taken(On(n), Mem) <= MemCap[n] + Given(scheduled, Mem) /\ MemCap[n] \in Int
        /\ LoadOf(On(n), Cpu) + Cpu[id] <= CpuCap[n]
        /\ LoadOf(On(n), Mem) + Mem[id] <= MemCap[n]
    BY <1>2, CapacityAssumption DEF Booked, RoomBooked, GivenCpu, GivenMem, Accounting
  <2>3. Taken(On(n) \cup {id}, Cpu) <= CpuCap[n] + Given(scheduled, Cpu)
    BY <1>1, <1>4, <2>1, <2>2, TakenFits, DemandAssumption
  <2>4. Taken(On(n) \cup {id}, Mem) <= MemCap[n] + Given(scheduled, Mem)
    BY <1>1, <1>4, <2>1, <2>2, TakenFits, DemandAssumption
  <2>5. /\ Taken(On(n), Cpu)' <= CpuCap[n] + GivenCpu'
        /\ Taken(On(n), Mem)' <= MemCap[n] + GivenMem'
    BY <1>4, <2>1, <2>3, <2>4 DEF GivenCpu, GivenMem, Taken, Units, UnitsOf
  <2>6. ASSUME NEW m \in Nodes, m # n
        PROVE  /\ Taken(On(m), Cpu)' <= CpuCap[m] + GivenCpu'
               /\ Taken(On(m), Mem)' <= MemCap[m] + GivenMem'
    BY <1>5, <2>1, <2>6 DEF Booked, RoomBooked, GivenCpu, GivenMem
  <2>. QED
    BY <2>5, <2>6 DEF RoomBooked
<1>. QED
  BY <1>3, <1>8, <1>9
     DEF Booked, AllReady, FinishSchedule, Reserve, CreateHasRoom, OthersHaveRecords

(* A stop that succeeded gives back what the creation took. *)
LEMMA FinishStopStep ==
  ASSUME Booked, TypeOK', FinishStop
  PROVE  Booked'
<1>0. call \in Call /\ call # NoCall /\ call.op = "stop"
  BY CallInProgress DEF Booked, FinishStop, Release, Phases, Call, NoCall
<1>1. PICK id \in Ids, n \in Nodes : id = call.id /\ n = call.node
  BY <1>0 DEF Call
<1>2. state[id] # "none" /\ nodeOf[id] = n
  BY <1>0, <1>1 DEF Booked, OthersHaveRecords
<1>3. RecordsHaveNodes'
  BY <1>1, <1>2 DEF FinishStop, Release, Booked, TypeOK, RecordsHaveNodes
<1>4. On(n)' = On(n) \ {id} /\ id \in On(n)
  BY <1>1, <1>2 DEF On, Recorded, FinishStop, Release, Booked, TypeOK
<1>5. ASSUME NEW m \in Nodes, m # n PROVE On(m)' = On(m)
  BY <1>1, <1>2, <1>5 DEF On, Recorded, FinishStop, Release, Booked, TypeOK
<1>6. /\ LoadOf(On(n), Cpu)' = LoadOf(On(n), Cpu) - Cpu[id]
      /\ LoadOf(On(n), Mem)' = LoadOf(On(n), Mem) - Mem[id]
  BY <1>1, <1>4, OnIsFinite, LoadOfLess, DemandAssumption
<1>7. Cardinality(On(n))' = Cardinality(On(n)) - 1
  BY <1>4, OnIsFinite, FS_RemoveElement
<1>8. Accounting'
  <2>1. ASSUME NEW m \in Nodes, m # n
        PROVE  /\ allocatedCPU'[m] = LoadOf(On(m), Cpu)'
               /\ allocatedMemory'[m] = LoadOf(On(m), Mem)'
               /\ sandboxCount'[m] = Cardinality(On(m))'
    BY <1>1, <1>5, <2>1 DEF Booked, Accounting, FinishStop, Release, TypeOK
  <2>2. /\ allocatedCPU'[n] = LoadOf(On(n), Cpu)'
        /\ allocatedMemory'[n] = LoadOf(On(n), Mem)'
        /\ sandboxCount'[n] = Cardinality(On(n))'
    BY <1>1, <1>6, <1>7 DEF Booked, Accounting, FinishStop, Release, TypeOK
  <2>. QED
    BY <2>1, <2>2 DEF Accounting
<1>9. RoomBooked'
  <2>1. \A m \in Nodes : On(m)' \subseteq On(m)
    BY <1>4, <1>5
  <2>. QED
    BY <2>1, RoomStays DEF FinishStop
<1>. QED
  BY <1>3, <1>8, <1>9
     DEF Booked, AllReady, FinishStop, Release, CreateHasRoom, OthersHaveRecords

(* Pausing and resuming move no resources. *)
LEMMA FinishPauseOrResumeStep ==
  ASSUME Booked, TypeOK', FinishPauseOrResume
  PROVE  Booked'
<1>1. /\ call \in Call /\ call # NoCall /\ call.id \in Ids
      /\ state[call.id] # "none" /\ Target[call.op] \in {"running", "paused"}
  BY CallInProgress
     DEF Booked, FinishPauseOrResume, Phases, Call, NoCall, OthersHaveRecords, Target
<1>2. RecordsHaveNodes' /\ \A m \in Nodes : On(m)' = On(m)
  BY <1>1 DEF FinishPauseOrResume, Booked, TypeOK, RecordsHaveNodes, On, Recorded
<1>3. RoomBooked'
  BY <1>2, RoomStays DEF FinishPauseOrResume
<1>. QED
  BY <1>1, <1>2, <1>3 DEF Booked, AllReady, FinishPauseOrResume, CreateHasRoom,
                          OthersHaveRecords, Accounting, nodeVars

(* Every step of the deployed scheduler keeps the books. *)
LEMMA BookedStep == Booked /\ [Next]_vars => Booked'
<1> SUFFICES ASSUME Booked, [Next]_vars PROVE Booked'
  OBVIOUS
<1>1. TypeOK'
  BY TypeStep DEF Booked, OpenNext
<1> USE <1>1
<1>2. ASSUME NEW id \in Ids, Schedule(id) PROVE Booked'
  BY <1>2, ScheduleStep
<1>3. ASSUME NEW id \in Ids, UserRequest(id) PROVE Booked'
  BY <1>3, StopSends, PauseSends, ResumeSends DEF UserRequest
<1>4. ASSUME NEW id \in Ids, Retire(id) PROVE Booked'
  <2>1. CASE UNCHANGED <<recordVars, call>>
    BY <1>4, <2>1, QuietStep DEF Retire
  <2>. QED
    BY <1>4, <2>1, StopSends, PauseSends DEF Retire
<1>5. CASE NodeAnswers \/ ClientReturns \/ GiveUp
  <2>1. call \in Call /\ call # NoCall
    BY <1>5, CallInProgress
       DEF NodeAnswers, NodeDoes, NodeRefuses, NodeFailsMidway, ClientReturns, GiveUp,
           Booked, Phases, Call, NoCall
  <2>2. call'.op = call.op /\ call'.id = call.id /\ call'.node = call.node
    BY <1>5, <2>1, BecomesIsCall
       DEF NodeAnswers, NodeDoes, NodeRefuses, NodeFailsMidway, ClientReturns, GiveUp,
           Booked, Phases
  <2>3. UNCHANGED <<nodeVars, recordVars, scheduled>>
    BY <1>5 DEF NodeAnswers, NodeDoes, NodeRefuses, NodeFailsMidway, ClientReturns, GiveUp,
                NodeUnchanged
  <2>. QED
    BY <2>1, <2>2, <2>3, QuietStep
<1>6. CASE Finish
  <2>1. CASE FinishFailed
    BY <2>1, QuietStep DEF FinishFailed
  <2>. QED
    BY <1>6, <2>1, FinishScheduleStep, FinishStopStep, FinishPauseOrResumeStep DEF Finish
<1>7. ASSUME NEW op \in Ops, NEW id \in Ids, LateCommand(op, id) PROVE Booked'
  BY <1>7, QuietStep DEF LateCommand, NodeUnchanged
<1>10. ASSUME NEW id \in Ids, GuestDies(id) PROVE Booked'
  BY <1>10, QuietStep DEF GuestDies, NodeUnchanged
<1>8. CASE Scan \/ Tick
  BY <1>8, QuietStep DEF Scan, Tick
<1>9. CASE UNCHANGED vars
  BY <1>9, QuietStep DEF vars
<1>. QED
  BY <1>2, <1>3, <1>4, <1>5, <1>6, <1>7, <1>8, <1>9, <1>10 DEF Next, CallProgress

LEMMA BookedInit == Init => Booked
<1> SUFFICES ASSUME Init PROVE Booked
  OBVIOUS
<1>1. TypeOK
  BY TypeInit
<1>2. \A n \in Nodes : On(n) = {}
  BY DEF Init, On, Recorded
<1>3. Accounting
  BY <1>2, LoadOfNone, FS_EmptySet DEF Init, Accounting
<1>4. RoomBooked
  BY <1>1, <1>2, LoadOfNone, GivenType, CapacityAssumption DEF RoomBooked
<1>. QED
  BY <1>1, <1>3, <1>4
     DEF Init, Booked, AllReady, RecordsHaveNodes, CreateHasRoom, OthersHaveRecords

LEMMA AlwaysBooked == Spec => []Booked
BY BookedInit, BookedStep, PTL DEF Spec

(* A node's counters are at all times what the sandboxes recorded on it take. *)
THEOREM AccountingHolds == Spec => []Accounting
BY AlwaysBooked, PTL DEF Booked

(* For any demands, unchecked as they are, no node is booked beyond its capacity,
   and no counter negative, by more than what negative demands have given: where
   there are none, not at all. *)
THEOREM CapacityHolds == Spec => []CapacityRespected
BY AlwaysBooked, BookedIsBounded, PTL

-----------------------------------------------------------------------------
(* What the agreement of the records with the nodes rests on. *)

(* Nothing has happened to a sandbox nobody asked for. *)
Untouched ==
  \A id \in Ids : id \notin scheduled => remote[id] = "none" /\ ~Uncertain(id)

(* A sandbox whose creation was lost has no record and never gets one. *)
LostCreatesHaveNoRecord ==
  \A id \in Ids : <<"create", id>> \in lost =>
     /\ state[id] = "none"
     /\ call # NoCall /\ call.id = id =>
           call.op = "create" /\ call.phase \in {"refused", "failed"}

(* Nothing brings a sandbox back between the node's stop and its booking. *)
StoppedStaysStopped ==
  \A id \in Ids : Effective(id) /\ call.op = "stop" => remote[id] = "none"

Synced == /\ late \subseteq lost
          /\ Untouched
          /\ LostCreatesHaveNoRecord
          /\ StoppedStaysStopped
          /\ Agreement
          /\ OrphansComeFromLostCreates

(* A step on which the nodes, the losses and the call's effect stand still. *)
LEMMA StillStep ==
  ASSUME Booked, Booked', Synced, UNCHANGED <<remoteVars, state, nodeOf>>,
         scheduled \subseteq scheduled', Free,
         \/ UNCHANGED call
         \/ /\ call' \in Call /\ call'.phase \in {"sent", "failed"}
            /\ call'.op = "create" => call'.id \notin scheduled
            /\ call'.op # "create" => state[call'.id] # "none"
  PROVE  Synced'
<1>1. \A id \in Ids : ~Effective(id) /\ ~Effective(id)'
  BY DEF Effective, InCall, Free, NoCall
<1>2. \A id \in Ids : Uncertain(id)' <=> Uncertain(id)
  BY DEF Uncertain, remoteVars
<1>3. Untouched' /\ Agreement' /\ OrphansComeFromLostCreates' /\ StoppedStaysStopped'
  BY <1>1, <1>2 DEF Synced, Untouched, Agreement, Explains, Expected, OrphansComeFromLostCreates,
                    StoppedStaysStopped, remoteVars
<1>4. LostCreatesHaveNoRecord'
  BY DEF Synced, LostCreatesHaveNoRecord, Untouched, Uncertain, remoteVars, Ops, Free, Call
<1>. QED
  BY <1>3, <1>4 DEF Synced, remoteVars

LEMMA SyncedSends ==
  ASSUME Booked, Booked', Synced, Free, UNCHANGED <<remoteVars, scheduled>>,
         NEW id \in Ids, NEW by \in {"user", "checker"},
         Stop(id, by) \/ Pause(id, by) \/ Resume(id)
  PROVE  Synced'
<1>1. state[id] # "none" /\ nodeOf[id] \in Nodes /\ Registered(nodeOf[id])
  BY NodesAssumption DEF Stop, CanStop, Pause, Resume, Registered, Booked, TypeOK,
                         RecordsHaveNodes, AllReady
<1>2. UNCHANGED <<state, nodeOf>>
  BY <1>1 DEF Stop, Pause, Resume, recordVars
<1>3. \E op \in Ops \ {"create"} : \E c \in {"user", "checker"} : Request(op, id, nodeOf[id], c)
  BY <1>1 DEF Stop, Pause, Resume, Ops
<1>4. /\ call' \in Call /\ call'.phase \in {"sent", "failed"}
      /\ call'.op # "create" /\ call'.id = id
  BY <1>1, <1>3, RequestIsCall DEF Booked
<1>. QED
  BY <1>1, <1>2, <1>4, StillStep

(* The node's answers. *)
LEMMA SyncedNode ==
  ASSUME Booked, Booked', Synced, NodeAnswers \/ ClientReturns \/ GiveUp
  PROVE  Synced'
<1>0. call \in Call /\ call # NoCall
  BY CallInProgress
     DEF NodeAnswers, NodeDoes, NodeRefuses, NodeFailsMidway, ClientReturns, GiveUp,
         Booked, Phases, Call, NoCall
<1>1. PICK id \in Ids, op \in Ops : id = call.id /\ op = call.op
  BY <1>0 DEF Call
<1>2. call' \in Call /\ call'.op = op /\ call'.id = id /\ call'.node = call.node /\ call' # NoCall
  BY <1>0, <1>1, BecomesIsCall
     DEF NodeAnswers, NodeDoes, NodeRefuses, NodeFailsMidway, ClientReturns, GiveUp,
         Booked, Phases, Call, NoCall
<1>3. UNCHANGED <<state, nodeOf, scheduled>> /\ id \in scheduled
  BY <1>0, <1>1
     DEF NodeAnswers, NodeDoes, NodeRefuses, NodeFailsMidway, ClientReturns, GiveUp, recordVars,
         NodeUnchanged, Booked, CreateHasRoom, OthersHaveRecords, RecordsHaveNodes, Ops
<1>4. op = "create" => state[id] = "none"
  BY <1>0, <1>1 DEF Booked, CreateHasRoom
<1>5. CASE NodeDoes
  <2>1. /\ call.phase = "sent" /\ call'.phase = "done" /\ UNCHANGED <<late, lost>>
        /\ \/ /\ op \in {"pause", "resume"} /\ call.node \in SdkNodes
              /\ UNCHANGED remote
           \/ /\ op \in {"pause", "resume"} => call.node \notin SdkNodes
              /\ remote' = [remote EXCEPT ![id] = Target[op]]
    BY <1>0, <1>1, <1>5, BecomesIsCall DEF NodeDoes, InCall, Phases, Booked, Idle
  <2>2. \A x \in Ids : Uncertain(x)' <=> Uncertain(x)
    BY <2>1 DEF Uncertain
  <2>3. \A x \in Ids : ~Effective(x) /\ (Effective(x)' <=> x = id)
    BY <1>0, <1>1, <1>2, <2>1 DEF Effective, InCall
  <2>4. <<"create", id>> \notin lost
    BY <1>0, <1>1, <2>1 DEF Synced, LostCreatesHaveNoRecord
  <2>5. op # "create" => state[id] # "none" /\ nodeOf[id] = call.node
    BY <1>0, <1>1 DEF Booked, OthersHaveRecords, Ops
  <2>6. op = "pause" => state[id] = "running"
    BY <1>0, <1>1 DEF Booked, OthersHaveRecords
  <2>7. op = "resume" => state[id] = "paused"
    BY <1>0, <1>1 DEF Booked, OthersHaveRecords
  <2>8. remote \in [Ids -> {"none", "running", "paused", "dead"}]
    BY DEF Booked, TypeOK
  <2>9. \A x \in Ids : x # id => remote'[x] = remote[x]
    BY <2>1, <2>8
  <2>10. Untouched' /\ LostCreatesHaveNoRecord'
    BY <1>1, <1>2, <1>3, <2>1, <2>2, <2>4, <2>9 DEF Synced, Untouched, LostCreatesHaveNoRecord
  <2>11. StoppedStaysStopped'
    BY <1>2, <2>1, <2>3, <2>8 DEF StoppedStaysStopped, Target
  <2>12. OrphansComeFromLostCreates'
    BY <1>3, <2>1, <2>3, <2>9 DEF Synced, OrphansComeFromLostCreates
  <2>13. ASSUME NEW x \in Ids, ~Uncertain(x)'
         PROVE  IF Effective(x)' THEN Explains(Target[call.op], call.node, remote[x])'
                ELSE Explains(state[x], nodeOf[x], remote[x])'
    <3>1. Explains(state[x], nodeOf[x], remote[x])
      BY <2>2, <2>3, <2>13 DEF Synced, Agreement
    <3>2. CASE x # id
      BY <1>3, <2>3, <2>9, <3>1, <3>2 DEF Explains, Expected
    <3>3. CASE x = id /\ UNCHANGED remote /\ op \in {"pause", "resume"} /\ call.node \in SdkNodes
      BY <1>2, <2>3, <2>5, <2>6, <2>7, <3>1, <3>3 DEF Explains, Expected, Target
    <3>4. CASE x = id /\ remote' = [remote EXCEPT ![id] = Target[op]]
                      /\ (op \in {"pause", "resume"} => call.node \notin SdkNodes)
      BY <1>2, <2>3, <2>8, <3>4 DEF Explains, Expected, Target, Ops
    <3>. QED
      BY <2>1, <3>2, <3>3, <3>4
  <2>14. Agreement'
    BY <2>13 DEF Agreement
  <2>. QED
    BY <2>1, <2>10, <2>11, <2>12, <2>14 DEF Synced
<1>6. CASE NodeRefuses
  <2>1. call.phase = "sent" /\ call'.phase = "refused" /\ UNCHANGED remoteVars
    BY <1>0, <1>6, BecomesIsCall DEF NodeRefuses, InCall, Phases, Booked
  <2>2. \A x \in Ids : ~Effective(x) /\ ~Effective(x)' /\ (Uncertain(x)' <=> Uncertain(x))
    BY <1>2, <2>1 DEF Effective, InCall, Uncertain, remoteVars
  <2>. QED
    BY <1>0, <1>1, <1>2, <1>3, <2>1, <2>2
       DEF Synced, Untouched, LostCreatesHaveNoRecord, StoppedStaysStopped, Agreement, Explains, Expected,
           OrphansComeFromLostCreates, remoteVars
<1>7. CASE NodeFailsMidway
  <2>1. /\ call.phase = "sent" /\ call'.phase = "refused"
        /\ remote' = [remote EXCEPT ![id] = Target[op]]
        /\ lost' = lost \cup {<<op, id>>} /\ UNCHANGED late /\ op \in {"create", "pause"}
    BY <1>0, <1>1, <1>7, BecomesIsCall DEF NodeFailsMidway, InCall, Phases, Booked
  <2>2. \A x \in Ids : /\ ~Effective(x) /\ ~Effective(x)'
                       /\ Uncertain(x)' <=> (Uncertain(x) \/ x = id)
    BY <1>1, <1>2, <2>1 DEF Effective, InCall, Uncertain
  <2>3. op # "create" => state[id] # "none"
    BY <1>0, <1>1 DEF Booked, OthersHaveRecords, Ops
  <2>. QED
    BY <1>0, <1>1, <1>2, <1>3, <1>4, <2>1, <2>2, <2>3
       DEF Synced, Untouched, LostCreatesHaveNoRecord, StoppedStaysStopped, Agreement, Explains, Expected,
           OrphansComeFromLostCreates, Booked, TypeOK, Target
<1>8. CASE ClientReturns
  <2>1. /\ UNCHANGED remoteVars
        /\ \/ call.phase = "done" /\ call'.phase = "ok"
           \/ call.phase = "refused" /\ call'.phase = "failed"
    BY <1>0, <1>8, BecomesIsCall DEF ClientReturns, InCall, Phases, Booked
  <2>2. \A x \in Ids : (Effective(x)' <=> Effective(x)) /\ (Uncertain(x)' <=> Uncertain(x))
    BY <1>1, <1>2, <2>1 DEF Effective, InCall, Uncertain, remoteVars
  <2>. QED
    BY <1>0, <1>1, <1>2, <1>3, <2>1, <2>2
       DEF Synced, Untouched, LostCreatesHaveNoRecord, StoppedStaysStopped, Agreement, Explains, Expected,
           OrphansComeFromLostCreates, remoteVars, Effective, InCall
<1>9. CASE GiveUp
  <2>1. /\ call.phase \in {"sent", "done"} /\ call'.phase = "failed"
        /\ lost' = lost \cup {<<op, id>>} /\ UNCHANGED remote
        /\ late' \subseteq late \cup {<<op, id>>}
    BY <1>0, <1>1, <1>9, BecomesIsCall DEF GiveUp, InCall, Phases, Booked
  <2>2. \A x \in Ids : /\ ~Effective(x)' /\ (Effective(x) => x = id)
                       /\ Uncertain(x)' <=> (Uncertain(x) \/ x = id)
    BY <1>1, <1>2, <2>1 DEF Effective, InCall, Uncertain
  <2>3. op # "create" => state[id] # "none"
    BY <1>0, <1>1 DEF Booked, OthersHaveRecords, Ops
  <2>. QED
    BY <1>0, <1>1, <1>2, <1>3, <1>4, <2>1, <2>2, <2>3
       DEF Synced, Untouched, LostCreatesHaveNoRecord, StoppedStaysStopped, Agreement, Explains, Expected,
           OrphansComeFromLostCreates, Booked, TypeOK, Target
<1>. QED
  BY <1>5, <1>6, <1>7, <1>8, <1>9 DEF NodeAnswers

(* The bookkeeping after the call. *)
LEMMA SyncedFinish ==
  ASSUME Booked, Booked', Synced, Finish
  PROVE  Synced'
<1>0. call \in Call /\ call # NoCall /\ call.phase \in {"ok", "failed"}
  BY CallInProgress
     DEF Finish, FinishSchedule, Reserve, FinishStop, Release, FinishPauseOrResume, FinishFailed,
         InCall, Booked, Phases, Call, NoCall
<1>1. PICK id \in Ids, op \in Ops : id = call.id /\ op = call.op
  BY <1>0 DEF Call
<1>2. UNCHANGED <<remoteVars, scheduled>> /\ call' = NoCall
  BY <1>1 DEF Finish, FinishSchedule, Reserve, FinishStop, Release, FinishPauseOrResume, FinishFailed
<1>3. \A x \in Ids : ~Effective(x)' /\ (Uncertain(x)' <=> Uncertain(x))
  BY <1>2 DEF Effective, InCall, Uncertain, remoteVars, NoCall
<1>4. CASE call.phase = "failed"
  <2>1. UNCHANGED <<state, nodeOf>> /\ \A x \in Ids : ~Effective(x)
    BY <1>4 DEF Finish, FinishSchedule, Reserve, FinishStop, Release, FinishPauseOrResume, FinishFailed,
                InCall, recordVars, Effective
  <2>. QED
    BY <1>2, <1>3, <2>1
       DEF Synced, Untouched, LostCreatesHaveNoRecord, StoppedStaysStopped, Agreement, Explains, Expected,
           OrphansComeFromLostCreates, remoteVars
<1>5. CASE call.phase = "ok"
  <2>1. state' = [state EXCEPT ![id] = Target[op]]
    BY <1>1, <1>5
       DEF Finish, FinishSchedule, Reserve, FinishStop, Release, FinishPauseOrResume, FinishFailed, InCall, Target
  <2>2. \A x \in Ids : Effective(x) <=> x = id
    BY <1>1, <1>5 DEF Effective, InCall
  <2>3. <<"create", id>> \notin lost
    BY <1>0, <1>1, <1>5 DEF Synced, LostCreatesHaveNoRecord
  <2>4. op = "stop" => remote[id] = "none"
    BY <1>1, <2>2 DEF Synced, StoppedStaysStopped
  <2>5. op # "stop" => nodeOf'[id] = call.node
    BY <1>0, <1>1, <1>5
       DEF Finish, FinishSchedule, FinishStop, FinishPauseOrResume, FinishFailed, InCall,
           Booked, OthersHaveRecords, TypeOK
  <2>6. \A x \in Ids : x # id => nodeOf'[x] = nodeOf[x] /\ state'[x] = state[x]
    BY <1>1, <1>5, <2>1
       DEF Finish, FinishSchedule, FinishStop, FinishPauseOrResume, FinishFailed, InCall,
           Booked, TypeOK
  <2>7. Untouched' /\ LostCreatesHaveNoRecord' /\ StoppedStaysStopped'
    BY <1>1, <1>2, <1>3, <2>1, <2>3, <2>6
       DEF Synced, Untouched, LostCreatesHaveNoRecord, StoppedStaysStopped, remoteVars
  <2>8. state'[id] = Target[op]
    BY <2>1 DEF Booked, TypeOK
  <2>9. OrphansComeFromLostCreates'
    BY <1>1, <1>2, <1>3, <2>2, <2>4, <2>6, <2>8
       DEF Synced, OrphansComeFromLostCreates, remoteVars, Target, Ops
  <2>10. ASSUME NEW x \in Ids, ~Uncertain(x)'
         PROVE  Explains(state[x], nodeOf[x], remote[x])'
    <3>1. CASE x # id
      BY <1>2, <1>3, <2>2, <2>6, <2>10, <3>1
         DEF Synced, Agreement, Explains, Expected, remoteVars
    <3>2. CASE x = id
      <4>1. Explains(Target[op], call.node, remote[id])
        BY <1>1, <1>3, <2>2, <2>10, <3>2 DEF Synced, Agreement
      <4>. QED
        BY <1>2, <2>4, <2>5, <2>8, <3>2, <4>1 DEF Explains, Expected, Target, remoteVars
    <3>. QED
      BY <3>1, <3>2
  <2>11. Agreement'
    BY <1>3, <2>10 DEF Agreement
  <2>. QED
    BY <1>2, <2>7, <2>9, <2>11 DEF Synced, remoteVars
<1>. QED
  BY <1>0, <1>4, <1>5

(* A command that arrives late disturbs only a sandbox already in doubt. *)
LEMMA SyncedLate ==
  ASSUME Booked, Booked', Synced, NEW op \in Ops, NEW id \in Ids, LateCommand(op, id)
  PROVE  Synced'
<1>1. <<op, id>> \in lost /\ Uncertain(id)
  BY DEF LateCommand, Synced, Uncertain
<1>2. UNCHANGED <<state, nodeOf, scheduled, call, lost>> /\ late' \subseteq late
  BY DEF LateCommand, NodeUnchanged, recordVars
<1>3. \A x \in Ids : (Effective(x)' <=> Effective(x)) /\ (Uncertain(x)' <=> Uncertain(x))
  BY <1>2 DEF Effective, InCall, Uncertain
<1>4. \A x \in Ids : x # id => remote'[x] = remote[x]
  BY DEF LateCommand, Booked, TypeOK
<1>5. remote'[id] # "none" => remote[id] # "none" \/ op = "create"
  BY DEF LateCommand, Doable, Target, Booked, TypeOK, Ops
<1>6. op = "create" => state[id] = "none" /\ ~(Effective(id) /\ call.op = "stop")
  BY <1>1 DEF Synced, LostCreatesHaveNoRecord, Effective, InCall, NoCall
<1>. QED
  BY <1>1, <1>2, <1>3, <1>4, <1>5, <1>6
     DEF Synced, Untouched, LostCreatesHaveNoRecord, StoppedStaysStopped, Agreement, Explains, Expected,
         OrphansComeFromLostCreates

(* A guest that dies was there, and what is left of it is explained. *)
LEMMA SyncedDeath ==
  ASSUME Booked, Booked', Synced, NEW id \in Ids, GuestDies(id)
  PROVE  Synced'
<1>1. UNCHANGED <<state, nodeOf, scheduled, call, lost, late>> /\ remote[id] \notin {"none", "dead"}
  BY DEF GuestDies, NodeUnchanged, recordVars
<1>2. \A x \in Ids : (Effective(x)' <=> Effective(x)) /\ (Uncertain(x)' <=> Uncertain(x))
  BY <1>1 DEF Effective, InCall, Uncertain
<1>3. remote'[id] = "dead" /\ \A x \in Ids : x # id => remote'[x] = remote[x]
  BY DEF GuestDies, Booked, TypeOK
<1>. QED
  BY <1>1, <1>2, <1>3
     DEF Synced, Untouched, LostCreatesHaveNoRecord, StoppedStaysStopped, Agreement,
         Explains, Expected, OrphansComeFromLostCreates

LEMMA SyncedStep == Booked /\ Synced /\ [Next]_vars => Synced'
<1> SUFFICES ASSUME Booked, Synced, [Next]_vars PROVE Synced'
  OBVIOUS
<1>1. Booked'
  BY BookedStep
<1> USE <1>1
<1>2. ASSUME NEW id \in Ids, Schedule(id) PROVE Synced'
  <2>1. ASSUME NEW n \in BestNodes(id), Request("create", id, n, "user")
        PROVE  /\ call' \in Call /\ call'.phase \in {"sent", "failed"}
               /\ call'.op = "create" /\ call'.id \notin scheduled
    BY <1>2, <2>1, RequestIsCall DEF Schedule, BestNodes, Fitting, Booked, Ops
  <2>. QED
    BY <1>2, <2>1, StillStep DEF Schedule, recordVars
<1>3. ASSUME NEW id \in Ids, UserRequest(id) PROVE Synced'
  BY <1>3, SyncedSends DEF UserRequest
<1>4. ASSUME NEW id \in Ids, Retire(id) PROVE Synced'
  <2>1. CASE UNCHANGED <<recordVars, call>>
    BY <1>4, <2>1, StillStep DEF Retire, recordVars
  <2>. QED
    BY <1>4, <2>1, SyncedSends DEF Retire
<1>5. CASE CallProgress
  BY <1>5, SyncedNode, SyncedFinish DEF CallProgress
<1>6. ASSUME NEW op \in Ops, NEW id \in Ids, LateCommand(op, id) PROVE Synced'
  BY <1>6, SyncedLate
<1>8. ASSUME NEW id \in Ids, GuestDies(id) PROVE Synced'
  BY <1>8, SyncedDeath
<1>7. CASE Scan \/ Tick \/ UNCHANGED vars
  <2>1. UNCHANGED <<remoteVars, state, nodeOf, scheduled, call>>
    BY <1>7 DEF Scan, Tick, vars, recordVars
  <2>2. \A x \in Ids : (Effective(x)' <=> Effective(x)) /\ (Uncertain(x)' <=> Uncertain(x))
    BY <2>1 DEF Effective, InCall, Uncertain, remoteVars
  <2>. QED
    BY <2>1, <2>2
       DEF Synced, Untouched, LostCreatesHaveNoRecord, StoppedStaysStopped, Agreement, Explains, Expected,
           OrphansComeFromLostCreates, remoteVars
<1>. QED
  BY <1>2, <1>3, <1>4, <1>5, <1>6, <1>7, <1>8 DEF Next

LEMMA SyncedInit == Init => Synced
BY DEF Init, Synced, Untouched, Uncertain, LostCreatesHaveNoRecord, StoppedStaysStopped,
       Effective, InCall, NoCall, Agreement, Explains, Expected, OrphansComeFromLostCreates

LEMMA AlwaysSynced == Spec => []Synced
BY AlwaysBooked, SyncedInit, SyncedStep, PTL DEF Spec

(* While no outcome was lost for a sandbox, the scheduler's record of it explains
   what its node holds, at every point of every operation: the same state, a
   running guest where pausing does nothing, or the remains of one that died. *)
THEOREM AgreementHolds == Spec => []Agreement
BY AlwaysSynced, PTL DEF Synced

(* Whatever is retried, refused or late, only a lost creation leaves a sandbox
   running that the scheduler does not know. *)
THEOREM OrphansHold == Spec => []OrphansComeFromLostCreates
BY AlwaysSynced, PTL DEF Synced

-----------------------------------------------------------------------------
(* The checker's snapshot ages, yet stays true: a deadline that has passed
   stays passed, and a sandbox that has gone never comes back. *)
SnapshotStaysTrue ==
  \A id \in expired : /\ id \in scheduled
                      /\ state[id] = "none" \/ now > expiresAt[id]
                      /\ call # NoCall /\ call.op = "create" => call.id # id

LEMMA SnapshotStep == Booked /\ SnapshotStaysTrue /\ [Next]_vars => SnapshotStaysTrue'
<1> SUFFICES ASSUME Booked, SnapshotStaysTrue, [Next]_vars,
                    NEW x \in expired'
             PROVE  /\ x \in scheduled'
                    /\ state'[x] = "none" \/ now' > expiresAt'[x]
                    /\ call' # NoCall /\ call'.op = "create" => call'.id # x
  BY DEF SnapshotStaysTrue
<1> USE DEF recordVars
<1>1. ASSUME NEW id \in Ids, Schedule(id), x \in expired
      PROVE  call' # NoCall /\ call'.op = "create" => call'.id # x
  BY <1>1 DEF Schedule, Request, SnapshotStaysTrue, Free
<1>2. ASSUME NEW id \in Ids, Schedule(id)
      PROVE  x \in scheduled' /\ (state'[x] = "none" \/ now' > expiresAt'[x]) /\ x \in expired
  BY <1>2 DEF Schedule, SnapshotStaysTrue
<1>3. ASSUME NEW id \in Ids, UserRequest(id) \/ Retire(id)
      PROVE  /\ x \in expired /\ UNCHANGED <<recordVars, now, scheduled>>
             /\ call' # NoCall => call'.op # "create"
  <2>1. x \in expired /\ UNCHANGED <<recordVars, now, scheduled>>
    BY <1>3, NodesAssumption
       DEF UserRequest, Retire, Stop, Pause, Resume, Registered, Booked, TypeOK,
           RecordsHaveNodes, AllReady
  <2>2. call' # NoCall => call'.op # "create"
    BY <1>3 DEF UserRequest, Retire, Stop, Pause, Resume, Request, Free
  <2>. QED
    BY <2>1, <2>2
<1>4. CASE NodeAnswers \/ ClientReturns \/ GiveUp
  <2>1. call \in Call /\ call # NoCall
    BY <1>4, CallInProgress
       DEF NodeAnswers, NodeDoes, NodeRefuses, NodeFailsMidway, ClientReturns, GiveUp,
           Booked, Phases, Call, NoCall
  <2>2. call'.op = call.op /\ call'.id = call.id
    BY <1>4, <2>1, BecomesIsCall
       DEF NodeAnswers, NodeDoes, NodeRefuses, NodeFailsMidway, ClientReturns, GiveUp,
           Booked, Phases
  <2>3. UNCHANGED <<expired, recordVars, now, scheduled>>
    BY <1>4 DEF NodeAnswers, NodeDoes, NodeRefuses, NodeFailsMidway, ClientReturns, GiveUp,
                NodeUnchanged
  <2>. QED
    BY <2>1, <2>2, <2>3 DEF SnapshotStaysTrue
<1>5. CASE Finish
  <2>1. call \in Call /\ call # NoCall /\ call' = NoCall
    BY <1>5, CallInProgress
       DEF Finish, FinishSchedule, FinishStop, FinishPauseOrResume, FinishFailed,
           Booked, Phases, Call, NoCall, InCall
  <2>2. UNCHANGED <<expired, now, scheduled>>
    BY <1>5 DEF Finish, FinishSchedule, FinishStop, FinishPauseOrResume, FinishFailed
  <2>3. CASE FinishSchedule
    BY <2>1, <2>2, <2>3 DEF FinishSchedule, SnapshotStaysTrue, Booked, TypeOK, Call
  <2>4. CASE FinishStop
    BY <2>1, <2>2, <2>4 DEF FinishStop, SnapshotStaysTrue, Booked, TypeOK, Call
  <2>5. CASE FinishPauseOrResume
    <3>1. state[call.id] # "none"
      BY <2>1, <2>5 DEF FinishPauseOrResume, Booked, OthersHaveRecords
    <3>. QED
      BY <2>1, <2>2, <2>5, <3>1
         DEF FinishPauseOrResume, SnapshotStaysTrue, Booked, TypeOK, Call
  <2>6. CASE FinishFailed
    BY <2>1, <2>2, <2>6 DEF FinishFailed, SnapshotStaysTrue
  <2>. QED
    BY <1>5, <2>3, <2>4, <2>5, <2>6 DEF Finish
<1>6. ASSUME NEW op \in Ops, NEW id \in Ids, LateCommand(op, id)
      PROVE  UNCHANGED <<expired, recordVars, now, scheduled, call>>
  BY <1>6 DEF LateCommand, NodeUnchanged
<1>7. CASE Scan
  BY <1>7 DEF Scan, Free, Booked, RecordsHaveNodes, TypeOK
<1>8. CASE Tick
  BY <1>8 DEF Tick, SnapshotStaysTrue, Booked, TypeOK
<1>9. CASE UNCHANGED vars
  BY <1>9 DEF vars, SnapshotStaysTrue
<1>10. CASE \E id \in Ids : UserRequest(id) \/ Retire(id)
  BY <1>3, <1>10 DEF SnapshotStaysTrue
<1>11. CASE \E op \in Ops, id \in Ids : LateCommand(op, id)
  BY <1>6, <1>11 DEF SnapshotStaysTrue
<1>12. CASE \E id \in Ids : GuestDies(id)
  BY <1>12 DEF GuestDies, NodeUnchanged, SnapshotStaysTrue
<1>. QED
  BY <1>1, <1>2, <1>4, <1>5, <1>7, <1>8, <1>9, <1>10, <1>11, <1>12 DEF Next, CallProgress

(* The checker, for all that its snapshot is old when it acts, sends a command
   only for a sandbox whose deadline has passed. *)
THEOREM CheckerHolds == Spec => CheckerSparesTheLiving
<1>1. Init => SnapshotStaysTrue
  BY DEF Init, SnapshotStaysTrue
<1>2. ASSUME Booked, SnapshotStaysTrue, [Next]_vars
      PROVE  [Free /\ call'.phase # "idle" /\ call'.by = "checker"
                => now > expiresAt[call'.id]]_vars
  <2> SUFFICES ASSUME Next, Free, call'.phase # "idle", call'.by = "checker"
               PROVE  now > expiresAt[call'.id]
    BY <1>2
  <2>1. PICK id \in Ids : Retire(id)
    <3>1. ~CallProgress
      BY DEF CallProgress, NodeAnswers, NodeDoes, NodeRefuses, NodeFailsMidway, ClientReturns,
             GiveUp, Finish, FinishSchedule, FinishStop, FinishPauseOrResume, FinishFailed,
             InCall, Free, NoCall
    <3>2. ASSUME NEW id \in Ids PROVE ~Schedule(id) /\ ~UserRequest(id)
      BY DEF Schedule, UserRequest, Stop, Pause, Resume, Request, Free, NoCall
    <3>3. /\ ~Scan /\ ~Tick
          /\ \A id \in Ids : ~GuestDies(id) /\ \A op \in Ops : ~LateCommand(op, id)
      BY DEF Scan, Tick, LateCommand, GuestDies, Free, NoCall
    <3>. QED
      BY <3>1, <3>2, <3>3 DEF Next
  <2>2. state[id] # "none" /\ call'.id = id
    BY <1>2, <2>1 DEF Retire, Stop, CanStop, Pause, Request, Free, NoCall, recordVars
  <2>. QED
    BY <1>2, <2>1, <2>2 DEF Retire, SnapshotStaysTrue
<1>. QED
  BY <1>1, <1>2, SnapshotStep, AlwaysBooked, PTL DEF Spec, CheckerSparesTheLiving

-----------------------------------------------------------------------------
(* Nodes that come and go.  A registration resets counters whose sandboxes
   stay recorded, so that Accounting fails; what is left of it is that no
   counter exceeds what is recorded.  A call in progress still fits the
   records, since nodes come and go only while the lock is free. *)
CallFitsRecords ==
  call # NoCall =>
     /\ call.id \in scheduled
     /\ call.op = "create" => state[call.id] = "none"
     /\ call.op # "create" => state[call.id] # "none" /\ nodeOf[call.id] = call.node

OpenInv == /\ TypeOK
           /\ RecordsHaveNodes
           /\ CallFitsRecords
           /\ NeverOvercounts

(* A step that leaves the counters alone, and which records exist where. *)
LEMMA OpenQuiet ==
  ASSUME OpenInv, TypeOK', CallFitsRecords', UNCHANGED <<nodeVars, nodeOf>>,
         scheduled \subseteq scheduled',
         \A id \in Ids : state'[id] = "none" <=> state[id] = "none"
  PROVE  OpenInv'
<1>1. RecordsHaveNodes'
  BY DEF OpenInv, RecordsHaveNodes
<1>2. \A n : On(n)' = On(n)
  BY DEF On, Recorded
<1>3. NeverOvercounts'
  BY <1>2, GivenStep, OnIsFinite DEF OpenInv, NeverOvercounts, nodeVars, TypeOK
<1>. QED
  BY <1>1, <1>3 DEF OpenInv

(* A command that is sent fits the records by the checks made before it. *)
LEMMA OpenSend ==
  ASSUME OpenInv, TypeOK', UNCHANGED <<nodeVars, recordVars>>,
         scheduled \subseteq scheduled',
         NEW op \in Ops, NEW id \in Ids, NEW n \in Nodes, NEW by \in {"user", "checker"},
         Request(op, id, n, by), id \in scheduled',
         op = "create" => state[id] = "none",
         op # "create" => state[id] # "none" /\ nodeOf[id] = n
  PROVE  OpenInv'
<1>1. call' # NoCall /\ call'.op = op /\ call'.id = id /\ call'.node = n
  BY RequestIsCall DEF OpenInv, NoCall, Call
<1>2. CallFitsRecords'
  BY <1>1 DEF CallFitsRecords, recordVars
<1>. QED
  BY <1>2, OpenQuiet DEF recordVars

LEMMA OpenSchedule ==
  ASSUME OpenInv, TypeOK', NEW id \in Ids, Schedule(id)
  PROVE  OpenInv'
<1>. USE DEF Schedule
<1>1. state[id] = "none" /\ Free
  BY DEF OpenInv, RecordsHaveNodes
<1>2. ASSUME NEW n \in BestNodes(id), Request("create", id, n, "user")
      PROVE  OpenInv'
  BY <1>1, <1>2, OpenSend DEF BestNodes, Fitting, Ops
<1>3. CASE UNCHANGED call
  <2>1. CallFitsRecords'
    BY <1>1, <1>3 DEF CallFitsRecords, Free
  <2>. QED
    BY <2>1, OpenQuiet DEF recordVars
<1>. QED
  BY <1>2, <1>3

(* Stop, Pause and Resume of a sandbox: a command, or a change of the record
   alone when the node has left the map. *)
LEMMA OpenCommands ==
  ASSUME OpenInv, TypeOK', Free, UNCHANGED <<nodeVars, scheduled>>,
         NEW id \in Ids, NEW by \in {"user", "checker"},
         Stop(id, by) \/ Pause(id, by) \/ Resume(id)
  PROVE  OpenInv'
<1>1. state[id] # "none" /\ id \in scheduled
  BY DEF OpenInv, RecordsHaveNodes, Stop, CanStop, Pause, Resume
<1>2. CASE Stop(id, by)
  BY <1>1, <1>2, OpenSend DEF Stop, CanStop, Registered, Ops
<1>3. ASSUME UNCHANGED <<nodeOf, call>>, NEW s \in {"running", "paused"},
             state' = [state EXCEPT ![id] = s]
      PROVE  OpenInv'
  <2>1. CallFitsRecords'
    BY <1>3 DEF CallFitsRecords, Free
  <2>2. \A i \in Ids : state'[i] = "none" <=> state[i] = "none"
    BY <1>1, <1>3 DEF OpenInv, TypeOK
  <2>. QED
    BY <1>3, <2>1, <2>2, OpenQuiet
<1>4. CASE Pause(id, by)
  <2>1. CASE Registered(nodeOf[id])
    BY <1>1, <1>4, <2>1, OpenSend DEF Pause, Registered, Ops
  <2>. QED
    BY <1>3, <1>4, <2>1 DEF Pause
<1>5. CASE Resume(id)
  <2>1. CASE Registered(nodeOf[id])
    BY <1>1, <1>5, <2>1, OpenSend DEF Resume, Registered, Ops
  <2>. QED
    BY <1>3, <1>5, <2>1 DEF Resume
<1>. QED
  BY <1>2, <1>4, <1>5

(* A creation adds to the counters what it adds to the records. *)
LEMMA OpenFinishSchedule ==
  ASSUME OpenInv, TypeOK', FinishSchedule
  PROVE  OpenInv'
<1>0. call \in Call /\ call # NoCall /\ call.op = "create"
  BY CallInProgress DEF OpenInv, FinishSchedule, Reserve, Phases, Call, NoCall
<1>1. PICK id \in Ids, n \in Nodes : id = call.id /\ n = call.node
  BY <1>0 DEF Call
<1>2. state[id] = "none" /\ id \in scheduled
  BY <1>0, <1>1 DEF OpenInv, CallFitsRecords
<1>3. RecordsHaveNodes'
  BY <1>1, <1>2, NodesAssumption DEF FinishSchedule, Reserve, OpenInv, TypeOK, RecordsHaveNodes
<1>4. On(n)' = On(n) \cup {id} /\ id \notin On(n)
  BY <1>1, <1>2 DEF On, Recorded, FinishSchedule, Reserve, OpenInv, TypeOK
<1>5. ASSUME NEW m \in Nodes, m # n PROVE On(m)' = On(m)
  BY <1>1, <1>2, <1>5 DEF On, Recorded, FinishSchedule, Reserve, OpenInv, TypeOK
<1>6. /\ LoadOf(On(n), Cpu)' = LoadOf(On(n), Cpu) + Cpu[id]
      /\ LoadOf(On(n), Mem)' = LoadOf(On(n), Mem) + Mem[id]
  BY <1>1, <1>4, OnIsFinite, LoadOfMore, DemandAssumption
<1>7. Cardinality(On(n))' = Cardinality(On(n)) + 1
  BY <1>4, OnIsFinite, FS_AddElement
<1>9. GivenCpu' = GivenCpu /\ GivenMem' = GivenMem
  BY DEF FinishSchedule, GivenCpu, GivenMem
<1>8. NeverOvercounts'
  <2>1. ASSUME NEW m \in Nodes, m # n
        PROVE  /\ allocatedCPU'[m] <= LoadOf(On(m), Cpu)' + GivenCpu'
               /\ allocatedMemory'[m] <= LoadOf(On(m), Mem)' + GivenMem'
               /\ sandboxCount'[m] <= Cardinality(On(m))'
    BY <1>1, <1>5, <1>9, <2>1 DEF OpenInv, NeverOvercounts, FinishSchedule, Reserve, TypeOK
  <2>2. /\ allocatedCPU'[n] = allocatedCPU[n] + Cpu[id]
        /\ allocatedMemory'[n] = allocatedMemory[n] + Mem[id]
        /\ sandboxCount'[n] = sandboxCount[n] + 1
    BY <1>1 DEF OpenInv, FinishSchedule, Reserve, TypeOK
  <2>3. /\ Cpu[id] \in Int /\ Mem[id] \in Int /\ GivenCpu \in Nat /\ GivenMem \in Nat
        /\ allocatedCPU[n] \in Int /\ allocatedMemory[n] \in Int /\ sandboxCount[n] \in Int
    BY DemandAssumption, GivenType DEF OpenInv, TypeOK
  <2>4. /\ allocatedCPU[n] <= LoadOf(On(n), Cpu) + GivenCpu
        /\ allocatedMemory[n] <= LoadOf(On(n), Mem) + GivenMem
        /\ sandboxCount[n] <= Cardinality(On(n))
    BY DEF OpenInv, NeverOvercounts
  <2>5. /\ allocatedCPU'[n] <= LoadOf(On(n), Cpu)' + GivenCpu'
        /\ allocatedMemory'[n] <= LoadOf(On(n), Mem)' + GivenMem'
        /\ sandboxCount'[n] <= Cardinality(On(n))'
    BY <1>6, <1>7, <1>9, <2>2, <2>3, <2>4, OnIsFinite
  <2>. QED
    BY <2>1, <2>5 DEF NeverOvercounts
<1>. QED
  BY <1>3, <1>8 DEF OpenInv, FinishSchedule, CallFitsRecords

(* A stop takes from the counters what it takes from the records, also from
   counters that a registration had reset: they become negative. *)
LEMMA OpenFinishStop ==
  ASSUME OpenInv, TypeOK', FinishStop
  PROVE  OpenInv'
<1>0. call \in Call /\ call # NoCall /\ call.op = "stop"
  BY CallInProgress DEF OpenInv, FinishStop, Release, Phases, Call, NoCall
<1>1. PICK id \in Ids, n \in Nodes : id = call.id /\ n = call.node
  BY <1>0 DEF Call
<1>2. state[id] # "none" /\ nodeOf[id] = n
  BY <1>0, <1>1 DEF OpenInv, CallFitsRecords
<1>3. RecordsHaveNodes'
  BY <1>1, <1>2 DEF FinishStop, Release, OpenInv, TypeOK, RecordsHaveNodes
<1>4. On(n)' = On(n) \ {id} /\ id \in On(n)
  BY <1>1, <1>2 DEF On, Recorded, FinishStop, Release, OpenInv, TypeOK
<1>5. ASSUME NEW m \in Nodes, m # n PROVE On(m)' = On(m)
  BY <1>1, <1>2, <1>5 DEF On, Recorded, FinishStop, Release, OpenInv, TypeOK
<1>6. /\ LoadOf(On(n), Cpu)' = LoadOf(On(n), Cpu) - Cpu[id]
      /\ LoadOf(On(n), Mem)' = LoadOf(On(n), Mem) - Mem[id]
  BY <1>1, <1>4, OnIsFinite, LoadOfLess, DemandAssumption
<1>7. Cardinality(On(n))' = Cardinality(On(n)) - 1
  BY <1>4, OnIsFinite, FS_RemoveElement
<1>9. GivenCpu' = GivenCpu /\ GivenMem' = GivenMem
  BY DEF FinishStop, GivenCpu, GivenMem
<1>8. NeverOvercounts'
  <2>1. ASSUME NEW m \in Nodes, m # n
        PROVE  /\ allocatedCPU'[m] <= LoadOf(On(m), Cpu)' + GivenCpu'
               /\ allocatedMemory'[m] <= LoadOf(On(m), Mem)' + GivenMem'
               /\ sandboxCount'[m] <= Cardinality(On(m))'
    BY <1>1, <1>5, <1>9, <2>1 DEF OpenInv, NeverOvercounts, FinishStop, Release, TypeOK
  <2>2. /\ allocatedCPU'[n] = allocatedCPU[n] - Cpu[id]
        /\ allocatedMemory'[n] = allocatedMemory[n] - Mem[id]
        /\ sandboxCount'[n] = sandboxCount[n] - 1
    BY <1>1 DEF OpenInv, FinishStop, Release, TypeOK
  <2>3. /\ Cpu[id] \in Int /\ Mem[id] \in Int /\ GivenCpu \in Nat /\ GivenMem \in Nat
        /\ allocatedCPU[n] \in Int /\ allocatedMemory[n] \in Int /\ sandboxCount[n] \in Int
    BY DemandAssumption, GivenType DEF OpenInv, TypeOK
  <2>4. /\ allocatedCPU[n] <= LoadOf(On(n), Cpu) + GivenCpu
        /\ allocatedMemory[n] <= LoadOf(On(n), Mem) + GivenMem
        /\ sandboxCount[n] <= Cardinality(On(n))
    BY DEF OpenInv, NeverOvercounts
  <2>5. /\ allocatedCPU'[n] <= LoadOf(On(n), Cpu)' + GivenCpu'
        /\ allocatedMemory'[n] <= LoadOf(On(n), Mem)' + GivenMem'
        /\ sandboxCount'[n] <= Cardinality(On(n))'
    BY <1>6, <1>7, <1>9, <2>2, <2>3, <2>4, OnIsFinite
  <2>. QED
    BY <2>1, <2>5 DEF NeverOvercounts
<1>. QED
  BY <1>3, <1>8 DEF OpenInv, FinishStop, CallFitsRecords

(* A node that joins or leaves counts nothing. *)
LEMMA OpenNodeStep ==
  ASSUME OpenInv, TypeOK', NEW n \in Nodes, RegisterNode(n) \/ UnregisterNode(n)
  PROVE  OpenInv'
<1>. USE DEF RegisterNode, UnregisterNode
<1>1. /\ \A m : On(m)' = On(m)
      /\ GivenCpu' = GivenCpu /\ GivenMem' = GivenMem
  BY DEF On, Recorded, recordVars, GivenCpu, GivenMem
<1>2. ASSUME NEW m \in Nodes
      PROVE  /\ allocatedCPU'[m] <= LoadOf(On(m), Cpu)' + GivenCpu'
             /\ allocatedMemory'[m] <= LoadOf(On(m), Mem)' + GivenMem'
             /\ sandboxCount'[m] <= Cardinality(On(m))'
  <2>1. /\ allocatedCPU'[m] \in {0, allocatedCPU[m]}
        /\ allocatedMemory'[m] \in {0, allocatedMemory[m]}
        /\ sandboxCount'[m] \in {0, sandboxCount[m]}
    BY DEF OpenInv, TypeOK
  <2>2. On(m) \in SUBSET scheduled /\ scheduled \in SUBSET Ids /\ IsFiniteSet(scheduled)
    BY GivenType DEF OpenInv, RecordsHaveNodes, On, Recorded, TypeOK
  <2>3. Given(On(m), Cpu) <= GivenCpu /\ Given(On(m), Mem) <= GivenMem
    BY <2>2, GivenGrows, DemandAssumption DEF GivenCpu, GivenMem
  <2>4. /\ LoadOf(On(m), Cpu) \in Int /\ 0 - Given(On(m), Cpu) <= LoadOf(On(m), Cpu)
        /\ LoadOf(On(m), Mem) \in Int /\ 0 - Given(On(m), Mem) <= LoadOf(On(m), Mem)
        /\ Given(On(m), Cpu) \in Nat /\ Given(On(m), Mem) \in Nat
    BY <2>2, OnIsFinite, LoadType, DemandAssumption
  <2>5. GivenCpu \in Nat /\ GivenMem \in Nat
    BY GivenType DEF OpenInv
  <2>6. 0 <= LoadOf(On(m), Cpu) + GivenCpu /\ 0 <= LoadOf(On(m), Mem) + GivenMem
    BY <2>3, <2>4, <2>5
  <2>7. /\ allocatedCPU[m] <= LoadOf(On(m), Cpu) + GivenCpu
        /\ allocatedMemory[m] <= LoadOf(On(m), Mem) + GivenMem
        /\ sandboxCount[m] <= Cardinality(On(m)) /\ 0 <= Cardinality(On(m))
    BY OnIsFinite DEF OpenInv, NeverOvercounts
  <2>. QED
    BY <1>1, <2>1, <2>6, <2>7
<1>3. NeverOvercounts'
  BY <1>2 DEF NeverOvercounts
<1>. QED
  BY <1>3 DEF OpenInv, RecordsHaveNodes, CallFitsRecords, recordVars

LEMMA OpenStep == OpenInv /\ [OpenNext]_vars => OpenInv'
<1> SUFFICES ASSUME OpenInv, [OpenNext]_vars PROVE OpenInv'
  OBVIOUS
<1>1. TypeOK'
  BY TypeStep DEF OpenInv
<1> USE <1>1
<1>q. ASSUME UNCHANGED <<nodeVars, recordVars, scheduled>>, call' \in {call, NoCall}
      PROVE  OpenInv'
  <2>1. CallFitsRecords'
    BY <1>q DEF OpenInv, CallFitsRecords, recordVars
  <2>. QED
    BY <1>q, <2>1, OpenQuiet DEF recordVars
<1>2. ASSUME NEW id \in Ids, Schedule(id) PROVE OpenInv'
  BY <1>2, OpenSchedule
<1>3. ASSUME NEW id \in Ids, UserRequest(id) PROVE OpenInv'
  BY <1>3, OpenCommands DEF UserRequest
<1>4. ASSUME NEW id \in Ids, Retire(id) PROVE OpenInv'
  <2>1. CASE UNCHANGED <<recordVars, call>>
    BY <1>4, <2>1, <1>q DEF Retire
  <2>. QED
    BY <1>4, <2>1, OpenCommands DEF Retire
<1>5. CASE NodeAnswers \/ ClientReturns \/ GiveUp
  <2>1. call \in Call /\ call # NoCall
    BY <1>5, CallInProgress
       DEF NodeAnswers, NodeDoes, NodeRefuses, NodeFailsMidway, ClientReturns, GiveUp,
           OpenInv, Phases, Call, NoCall
  <2>2. call'.op = call.op /\ call'.id = call.id /\ call'.node = call.node
    BY <1>5, <2>1, BecomesIsCall
       DEF NodeAnswers, NodeDoes, NodeRefuses, NodeFailsMidway, ClientReturns, GiveUp,
           OpenInv, Phases
  <2>3. UNCHANGED <<nodeVars, recordVars, scheduled>>
    BY <1>5 DEF NodeAnswers, NodeDoes, NodeRefuses, NodeFailsMidway, ClientReturns, GiveUp,
                NodeUnchanged
  <2>4. CallFitsRecords'
    BY <2>1, <2>2, <2>3 DEF OpenInv, CallFitsRecords, recordVars
  <2>. QED
    BY <2>3, <2>4, OpenQuiet DEF recordVars
<1>6. CASE Finish
  <2>1. CASE FinishFailed
    BY <2>1, <1>q DEF FinishFailed
  <2>2. CASE FinishPauseOrResume
    <3>1. /\ call # NoCall /\ call.id \in Ids
          /\ state[call.id] # "none" /\ Target[call.op] # "none"
      BY <2>2, CallInProgress
         DEF OpenInv, FinishPauseOrResume, Phases, Call, NoCall, CallFitsRecords, Target
    <3>2. \A id \in Ids : state'[id] = "none" <=> state[id] = "none"
      BY <2>2, <3>1 DEF FinishPauseOrResume, OpenInv, TypeOK
    <3>3. CallFitsRecords'
      BY <2>2 DEF FinishPauseOrResume, CallFitsRecords
    <3>. QED
      BY <2>2, <3>2, <3>3, OpenQuiet DEF FinishPauseOrResume
  <2>. QED
    BY <1>6, <2>1, <2>2, OpenFinishSchedule, OpenFinishStop DEF Finish
<1>7. ASSUME NEW op \in Ops, NEW id \in Ids, LateCommand(op, id) PROVE OpenInv'
  BY <1>7, <1>q DEF LateCommand, NodeUnchanged
<1>11. ASSUME NEW id \in Ids, GuestDies(id) PROVE OpenInv'
  BY <1>11, <1>q DEF GuestDies, NodeUnchanged
<1>8. CASE Scan \/ Tick
  BY <1>8, <1>q DEF Scan, Tick
<1>9. ASSUME NEW id \in Ids, NEW d \in 0 .. 1, ExtendTimeout(id, d) PROVE OpenInv'
  <2>1. CallFitsRecords'
    BY <1>9 DEF ExtendTimeout, OpenInv, CallFitsRecords
  <2>. QED
    BY <1>9, <2>1, OpenQuiet DEF ExtendTimeout
<1>10. CASE UNCHANGED vars
  BY <1>10, <1>q DEF vars
<1>. QED
  BY <1>2, <1>3, <1>4, <1>5, <1>6, <1>7, <1>8, <1>9, <1>10, <1>11,
     OpenNodeStep
     DEF OpenNext, Next, CallProgress

LEMMA OpenInit == Init => OpenInv
<1> SUFFICES ASSUME Init PROVE OpenInv
  OBVIOUS
<1>1. Accounting
  BY BookedInit DEF Booked
<1>2. NeverOvercounts
  <2>1. /\ allocatedCPU \in [Nodes -> Int] /\ allocatedMemory \in [Nodes -> Int]
        /\ sandboxCount \in [Nodes -> Int] /\ GivenCpu \in Nat /\ GivenMem \in Nat
    BY TypeInit, GivenType DEF TypeOK
  <2>. QED
    BY <1>1, <2>1, OnIsFinite DEF Accounting, NeverOvercounts
<1>. QED
  BY <1>2, TypeInit DEF Init, OpenInv, RecordsHaveNodes, CallFitsRecords

(* With nodes that come and go, no node is fuller for the scheduler than the
   sandboxes recorded on it. *)
THEOREM OpenCountsHold == OpenSpec => []NeverOvercounts
<1>1. OpenInv => NeverOvercounts
  BY DEF OpenInv
<1>. QED
  BY <1>1, OpenInit, OpenStep, PTL DEF OpenSpec

(* The program as it is run is one of the ways to use the scheduler. *)
LEMMA SpecIsOpen == Spec => OpenSpec
<1>1. [Next]_vars => [OpenNext]_vars
  BY DEF OpenNext
<1>. QED
  BY <1>1, PTL DEF Spec, OpenSpec

-----------------------------------------------------------------------------
(* The client's table of locations. *)

LEMMA RoutesStep == OpenInv /\ RoutesMatchRecords /\ [OpenNext]_vars => RoutesMatchRecords'
<1> SUFFICES ASSUME OpenInv, RoutesMatchRecords, [OpenNext]_vars PROVE RoutesMatchRecords'
  OBVIOUS
<1>1. ASSUME UNCHANGED sandboxPorts, ~InCall({"ok"}), ~InCall({"ok"})',
             \A id \in Ids : state'[id] = "none" <=> state[id] = "none"
      PROVE  RoutesMatchRecords'
  BY <1>1 DEF RoutesMatchRecords, Recorded
<1>2. ASSUME NEW id \in Ids, Schedule(id) PROVE RoutesMatchRecords'
  <2>1. call'.phase # "ok"
    BY <1>2 DEF Schedule, Request, Free, NoCall
  <2>. QED
    BY <1>1, <1>2, <2>1 DEF Schedule, recordVars, InCall, Free, NoCall
<1>3. ASSUME NEW id \in Ids, UserRequest(id) \/ Retire(id) PROVE RoutesMatchRecords'
  <2>1. /\ UNCHANGED sandboxPorts /\ Free
        /\ \A x \in Ids : state'[x] = "none" <=> state[x] = "none"
    BY <1>3 DEF UserRequest, Retire, Stop, Pause, Resume, recordVars, OpenInv, TypeOK
  <2>2. call'.phase # "ok"
    BY <1>3, NodesAssumption
       DEF UserRequest, Retire, Stop, Pause, Resume, Request, Free, NoCall
  <2>. QED
    BY <1>1, <2>1, <2>2 DEF InCall, Free, NoCall
<1>4. CASE NodeAnswers \/ GiveUp
  <2>1. call \in Call /\ call.phase \in {"sent", "done"}
    BY <1>4, CallInProgress
       DEF NodeAnswers, NodeDoes, NodeRefuses, NodeFailsMidway, GiveUp, OpenInv, Phases, InCall
  <2>2. call'.phase \in {"done", "refused", "failed"} /\ UNCHANGED <<state, sandboxPorts>>
    BY <1>4, <2>1, BecomesIsCall
       DEF NodeAnswers, NodeDoes, NodeRefuses, NodeFailsMidway, GiveUp, NodeUnchanged,
           recordVars, OpenInv, Phases
  <2>. QED
    BY <1>1, <2>1, <2>2 DEF InCall
<1>5. CASE ClientReturns
  <2>1. call \in Call /\ call.phase \in {"done", "refused"} /\ UNCHANGED state
    BY <1>5, CallInProgress DEF ClientReturns, OpenInv, Phases, recordVars, InCall
  <2>2. call'.op = call.op /\ call'.id = call.id
    BY <1>5, <2>1, BecomesIsCall DEF ClientReturns, OpenInv, Phases
  <2>3. CASE call.phase = "done"
    <3>1. call'.phase = "ok"
      BY <1>5, <2>1, <2>3, BecomesIsCall DEF ClientReturns, OpenInv, Phases, InCall
    <3>. QED
      BY <1>5, <2>1, <2>2, <2>3, <3>1
         DEF ClientReturns, RoutesMatchRecords, Recorded, InCall, Call, Ops
  <2>4. CASE call.phase = "refused"
    <3>1. call'.phase = "failed" /\ UNCHANGED sandboxPorts
      BY <1>5, <2>1, <2>4, BecomesIsCall DEF ClientReturns, OpenInv, Phases, InCall
    <3>. QED
      BY <1>1, <2>1, <2>4, <3>1 DEF InCall
  <2>. QED
    BY <2>1, <2>3, <2>4
<1>6. CASE Finish
  <2>1. call \in Call /\ call.phase \in {"ok", "failed"} /\ call' = NoCall
        /\ UNCHANGED sandboxPorts
    BY <1>6, CallInProgress
       DEF Finish, FinishSchedule, FinishStop, FinishPauseOrResume, FinishFailed, OpenInv,
           Phases, InCall
  <2>2. CASE call.phase = "failed"
    BY <1>1, <1>6, <2>1, <2>2
       DEF Finish, FinishSchedule, FinishStop, FinishPauseOrResume, FinishFailed, InCall,
           recordVars, NoCall
  <2>3. CASE call.phase = "ok"
    <3>1. state' = [state EXCEPT ![call.id] = Target[call.op]]
      BY <1>6, <2>3
         DEF Finish, FinishSchedule, FinishStop, FinishPauseOrResume, FinishFailed, InCall, Target
    <3>2. call.op \in {"pause", "resume"} => state[call.id] # "none"
      BY <2>1 DEF OpenInv, CallFitsRecords, Call, NoCall
    <3>. QED
      BY <2>1, <2>3, <3>1, <3>2
         DEF RoutesMatchRecords, Recorded, InCall, Call, Ops, NoCall, Target, OpenInv, TypeOK
  <2>. QED
    BY <2>1, <2>2, <2>3
<1>7. ASSUME NEW op \in Ops, NEW id \in Ids, LateCommand(op, id) PROVE RoutesMatchRecords'
  BY <1>7 DEF LateCommand, NodeUnchanged, recordVars, RoutesMatchRecords, Recorded, InCall
<1>8. CASE \/ Scan \/ Tick \/ UNCHANGED vars
           \/ \E id \in Ids, d \in 0 .. 1 : ExtendTimeout(id, d)
           \/ \E n \in Nodes : RegisterNode(n) \/ UnregisterNode(n)
  BY <1>8 DEF Scan, Tick, vars, ExtendTimeout, RegisterNode, UnregisterNode, recordVars,
              RoutesMatchRecords, Recorded, InCall
<1>9. ASSUME NEW id \in Ids, GuestDies(id) PROVE RoutesMatchRecords'
  BY <1>9 DEF GuestDies, NodeUnchanged, recordVars, RoutesMatchRecords, Recorded, InCall
<1>. QED
  BY <1>2, <1>3, <1>4, <1>5, <1>6, <1>7, <1>8, <1>9 DEF OpenNext, Next, CallProgress

LEMMA RoutesInit == Init => RoutesMatchRecords
BY DEF Init, RoutesMatchRecords, Recorded, InCall, NoCall

(* A request for a sandbox's port finds a location exactly for the sandboxes
   that are recorded, whatever call fails in between, and also while nodes come
   and go. *)
THEOREM OpenRoutesHold == OpenSpec => []RoutesMatchRecords
BY OpenInit, OpenStep, RoutesInit, RoutesStep, PTL DEF OpenSpec

(* So it does in the program as it is run. *)
THEOREM RoutesHold == Spec => []RoutesMatchRecords
BY SpecIsOpen, OpenRoutesHold

-----------------------------------------------------------------------------
(* Sandboxes that run without a record, while nodes come and go.  The records
   may then disagree with the nodes on who is paused, and still a sandbox is
   unknown only if its creation was lost. *)
UnaskedIsUntouched ==
  \A id \in Ids : id \notin scheduled => remote[id] = "none" /\ <<"create", id>> \notin lost

KnownOrLost == /\ late \subseteq lost
               /\ UnaskedIsUntouched
               /\ LostCreatesHaveNoRecord
               /\ StoppedStaysStopped
               /\ OrphansComeFromLostCreates

(* A step on which the nodes and the losses stand still, and no call is at work
   but one that is sent. *)
LEMMA KnownStill ==
  ASSUME KnownOrLost, Free, UNCHANGED remoteVars, scheduled \subseteq scheduled',
         \A id \in Ids : state'[id] = "none" <=> state[id] = "none",
         \/ UNCHANGED call
         \/ /\ call' \in Call /\ call'.phase \in {"sent", "failed"}
            /\ call'.op = "create" => call'.id \notin scheduled
            /\ call'.op # "create" => state[call'.id] # "none"
  PROVE  KnownOrLost'
<1>1. \A id \in Ids : ~Effective(id) /\ ~Effective(id)'
  BY DEF Effective, InCall, Free, NoCall
<1>2. UnaskedIsUntouched' /\ OrphansComeFromLostCreates' /\ StoppedStaysStopped'
  BY <1>1 DEF KnownOrLost, UnaskedIsUntouched, OrphansComeFromLostCreates, StoppedStaysStopped,
              remoteVars
<1>3. LostCreatesHaveNoRecord'
  BY DEF KnownOrLost, LostCreatesHaveNoRecord, UnaskedIsUntouched, remoteVars, Free, Call
<1>. QED
  BY <1>2, <1>3 DEF KnownOrLost, remoteVars

LEMMA KnownSends ==
  ASSUME OpenInv, KnownOrLost, Free, UNCHANGED <<remoteVars, scheduled>>,
         NEW id \in Ids, NEW by \in {"user", "checker"},
         Stop(id, by) \/ Pause(id, by) \/ Resume(id)
  PROVE  KnownOrLost'
<1>1. state[id] # "none"
  BY DEF Stop, CanStop, Pause, Resume
<1>2. \A x \in Ids : state'[x] = "none" <=> state[x] = "none"
  BY <1>1 DEF Stop, Pause, Resume, recordVars, OpenInv, TypeOK
<1>3. CASE Registered(nodeOf[id]) /\ ~UNCHANGED call
  <2>1. \E op \in Ops \ {"create"} : \E c \in {"user", "checker"} : Request(op, id, nodeOf[id], c)
    BY <1>3 DEF Stop, Pause, Resume, Ops
  <2>2. /\ call' \in Call /\ call'.phase \in {"sent", "failed"}
        /\ call'.op # "create" /\ call'.id = id
    BY <1>3, <2>1, RequestIsCall DEF OpenInv, Registered
  <2>. QED
    BY <1>1, <1>2, <2>2, KnownStill
<1>4. CASE UNCHANGED call
  BY <1>2, <1>4, KnownStill
<1>. QED
  BY <1>3, <1>4 DEF Stop, CanStop, Pause, Resume

(* The node's answers. *)
LEMMA KnownNode ==
  ASSUME OpenInv, KnownOrLost, NodeAnswers \/ ClientReturns \/ GiveUp
  PROVE  KnownOrLost'
<1> USE DEF KnownOrLost, UnaskedIsUntouched, LostCreatesHaveNoRecord, StoppedStaysStopped,
            OrphansComeFromLostCreates
<1>0. call \in Call /\ call # NoCall
  BY CallInProgress
     DEF NodeAnswers, NodeDoes, NodeRefuses, NodeFailsMidway, ClientReturns, GiveUp,
         OpenInv, Phases, Call, NoCall
<1>1. PICK id \in Ids, op \in Ops : id = call.id /\ op = call.op
  BY <1>0 DEF Call
<1>2. call' \in Call /\ call'.op = op /\ call'.id = id /\ call' # NoCall
  BY <1>0, <1>1, BecomesIsCall
     DEF NodeAnswers, NodeDoes, NodeRefuses, NodeFailsMidway, ClientReturns, GiveUp,
         OpenInv, Phases, Call, NoCall
<1>3. UNCHANGED <<state, scheduled>>
  BY DEF NodeAnswers, NodeDoes, NodeRefuses, NodeFailsMidway, ClientReturns, GiveUp, recordVars,
         NodeUnchanged
<1>4. id \in scheduled /\ (op = "create" <=> state[id] = "none")
  BY <1>0, <1>1 DEF OpenInv, CallFitsRecords
<1>5. CASE NodeDoes
  <2>1. /\ call.phase = "sent" /\ call'.phase = "done" /\ UNCHANGED <<late, lost>>
        /\ \/ op \in {"pause", "resume"} /\ UNCHANGED remote
           \/ remote' = [remote EXCEPT ![id] = Target[op]]
    BY <1>0, <1>1, <1>5, BecomesIsCall DEF NodeDoes, Idle, InCall, Phases, OpenInv
  <2>2. \A x \in Ids : ~Effective(x) /\ (Effective(x)' <=> x = id)
    BY <1>0, <1>1, <1>2, <2>1 DEF Effective, InCall
  <2>3. <<"create", id>> \notin lost
    BY <1>0, <1>1, <2>1
  <2>. QED
    BY <1>0, <1>1, <1>2, <1>3, <1>4, <2>1, <2>2, <2>3 DEF OpenInv, TypeOK, Target, Ops
<1>6. CASE NodeRefuses
  <2>1. call.phase = "sent" /\ call'.phase = "refused" /\ UNCHANGED remoteVars
    BY <1>0, <1>6, BecomesIsCall DEF NodeRefuses, InCall, Phases, OpenInv
  <2>2. \A x \in Ids : ~Effective(x) /\ ~Effective(x)'
    BY <1>2, <2>1 DEF Effective, InCall
  <2>. QED
    BY <1>0, <1>1, <1>2, <1>3, <2>1, <2>2 DEF remoteVars
<1>7. CASE NodeFailsMidway
  <2>1. /\ call.phase = "sent" /\ call'.phase = "refused"
        /\ remote' = [remote EXCEPT ![id] = Target[op]]
        /\ lost' = lost \cup {<<op, id>>} /\ UNCHANGED late /\ op \in {"create", "pause"}
    BY <1>0, <1>1, <1>7, BecomesIsCall DEF NodeFailsMidway, InCall, Phases, OpenInv
  <2>2. \A x \in Ids : ~Effective(x) /\ ~Effective(x)'
    BY <1>1, <1>2, <2>1 DEF Effective, InCall
  <2>. QED
    BY <1>0, <1>1, <1>2, <1>3, <1>4, <2>1, <2>2 DEF OpenInv, TypeOK, Target
<1>8. CASE ClientReturns
  <2>1. /\ UNCHANGED remoteVars
        /\ \/ call.phase = "done" /\ call'.phase = "ok"
           \/ call.phase = "refused" /\ call'.phase = "failed"
    BY <1>0, <1>8, BecomesIsCall DEF ClientReturns, InCall, Phases, OpenInv
  <2>2. \A x \in Ids : Effective(x)' <=> Effective(x)
    BY <1>1, <1>2, <2>1 DEF Effective, InCall
  <2>. QED
    BY <1>0, <1>1, <1>2, <1>3, <2>1, <2>2 DEF remoteVars, Effective, InCall
<1>9. CASE GiveUp
  <2>1. /\ call.phase \in {"sent", "done"} /\ call'.phase = "failed"
        /\ lost' = lost \cup {<<op, id>>} /\ UNCHANGED remote
        /\ late' \subseteq late \cup {<<op, id>>}
    BY <1>0, <1>1, <1>9, BecomesIsCall DEF GiveUp, InCall, Phases, OpenInv
  <2>2. \A x \in Ids : ~Effective(x)' /\ (Effective(x) => x = id)
    BY <1>1, <1>2, <2>1 DEF Effective, InCall
  <2>. QED
    BY <1>0, <1>1, <1>2, <1>3, <1>4, <2>1, <2>2
<1>. QED
  BY <1>5, <1>6, <1>7, <1>8, <1>9 DEF NodeAnswers

(* The bookkeeping after the call. *)
LEMMA KnownFinish ==
  ASSUME OpenInv, KnownOrLost, Finish
  PROVE  KnownOrLost'
<1> USE DEF KnownOrLost, UnaskedIsUntouched, LostCreatesHaveNoRecord, StoppedStaysStopped,
            OrphansComeFromLostCreates
<1>0. call \in Call /\ call # NoCall /\ call.phase \in {"ok", "failed"}
  BY CallInProgress
     DEF Finish, FinishSchedule, FinishStop, FinishPauseOrResume, FinishFailed,
         InCall, OpenInv, Phases, Call, NoCall
<1>1. PICK id \in Ids, op \in Ops : id = call.id /\ op = call.op
  BY <1>0 DEF Call
<1>2. UNCHANGED <<remoteVars, scheduled>> /\ call' = NoCall
  BY DEF Finish, FinishSchedule, FinishStop, FinishPauseOrResume, FinishFailed
<1>3. \A x \in Ids : ~Effective(x)'
  BY <1>2 DEF Effective, InCall, NoCall
<1>4. CASE call.phase = "failed"
  <2>1. UNCHANGED state /\ \A x \in Ids : ~Effective(x)
    BY <1>4 DEF Finish, FinishSchedule, FinishStop, FinishPauseOrResume, FinishFailed,
                InCall, recordVars, Effective
  <2>. QED
    BY <1>2, <1>3, <2>1 DEF remoteVars
<1>5. CASE call.phase = "ok"
  <2>1. state' = [state EXCEPT ![id] = Target[op]]
    BY <1>1, <1>5
       DEF Finish, FinishSchedule, FinishStop, FinishPauseOrResume, FinishFailed, InCall, Target
  <2>2. \A x \in Ids : Effective(x) <=> x = id
    BY <1>1, <1>5 DEF Effective, InCall
  <2>3. <<"create", id>> \notin lost
    BY <1>0, <1>1, <1>5
  <2>4. op = "stop" => remote[id] = "none"
    BY <1>1, <2>2
  <2>. QED
    BY <1>1, <1>2, <1>3, <2>1, <2>2, <2>3, <2>4
       DEF remoteVars, OpenInv, TypeOK, Target, Ops
<1>. QED
  BY <1>0, <1>4, <1>5

LEMMA KnownLate ==
  ASSUME OpenInv, KnownOrLost, NEW op \in Ops, NEW id \in Ids, LateCommand(op, id)
  PROVE  KnownOrLost'
<1> USE DEF KnownOrLost, UnaskedIsUntouched, LostCreatesHaveNoRecord, StoppedStaysStopped,
            OrphansComeFromLostCreates
<1>1. <<op, id>> \in lost
  BY DEF LateCommand
<1>2. UNCHANGED <<state, scheduled, call, lost>> /\ late' \subseteq late
  BY DEF LateCommand, NodeUnchanged, recordVars
<1>3. \A x \in Ids : Effective(x)' <=> Effective(x)
  BY <1>2 DEF Effective, InCall
<1>4. \A x \in Ids : x # id => remote'[x] = remote[x]
  BY DEF LateCommand, OpenInv, TypeOK
<1>5. remote'[id] # "none" => remote[id] # "none" \/ op = "create"
  BY DEF LateCommand, Doable, Target, OpenInv, TypeOK, Ops
<1>6. op = "create" => ~(Effective(id) /\ call.op = "stop")
  BY <1>1 DEF Effective, InCall, NoCall
<1>. QED
  BY <1>1, <1>2, <1>3, <1>4, <1>5, <1>6

LEMMA KnownStep == OpenInv /\ KnownOrLost /\ [OpenNext]_vars => KnownOrLost'
<1> SUFFICES ASSUME OpenInv, KnownOrLost, [OpenNext]_vars PROVE KnownOrLost'
  OBVIOUS
<1>1. ASSUME NEW id \in Ids, Schedule(id) PROVE KnownOrLost'
  <2>1. ASSUME NEW n \in BestNodes(id), Request("create", id, n, "user")
        PROVE  /\ call' \in Call /\ call'.phase \in {"sent", "failed"}
               /\ call'.op = "create" /\ call'.id \notin scheduled
    BY <1>1, <2>1, RequestIsCall DEF Schedule, BestNodes, Fitting, OpenInv, Ops
  <2>. QED
    BY <1>1, <2>1, KnownStill DEF Schedule, recordVars
<1>2. ASSUME NEW id \in Ids, UserRequest(id) PROVE KnownOrLost'
  BY <1>2, KnownSends DEF UserRequest
<1>3. ASSUME NEW id \in Ids, Retire(id) PROVE KnownOrLost'
  <2>1. CASE UNCHANGED <<recordVars, call>>
    BY <1>3, <2>1, KnownStill DEF Retire, recordVars
  <2>. QED
    BY <1>3, <2>1, KnownSends DEF Retire
<1>4. CASE \/ Scan \/ Tick \/ UNCHANGED vars
           \/ \E id \in Ids, d \in 0 .. 1 : ExtendTimeout(id, d)
           \/ \E n \in Nodes : RegisterNode(n) \/ UnregisterNode(n)
  <2>1. UNCHANGED <<remoteVars, state, scheduled, call>>
    BY <1>4 DEF Scan, Tick, vars, ExtendTimeout, RegisterNode, UnregisterNode, recordVars
  <2>2. \A x \in Ids : Effective(x)' <=> Effective(x)
    BY <2>1 DEF Effective, InCall
  <2>. QED
    BY <2>1, <2>2 DEF KnownOrLost, UnaskedIsUntouched, LostCreatesHaveNoRecord,
                      StoppedStaysStopped, OrphansComeFromLostCreates, remoteVars
<1>5. ASSUME NEW id \in Ids, GuestDies(id) PROVE KnownOrLost'
  <2>1. UNCHANGED <<state, scheduled, call, lost, late>> /\ remote[id] # "none"
    BY <1>5 DEF GuestDies, NodeUnchanged, recordVars
  <2>2. \A x \in Ids : Effective(x)' <=> Effective(x)
    BY <2>1 DEF Effective, InCall
  <2>3. \A x \in Ids : x # id => remote'[x] = remote[x]
    BY <1>5 DEF GuestDies, OpenInv, TypeOK
  <2>. QED
    BY <2>1, <2>2, <2>3 DEF KnownOrLost, UnaskedIsUntouched, LostCreatesHaveNoRecord,
                            StoppedStaysStopped, OrphansComeFromLostCreates
<1>. QED
  BY <1>1, <1>2, <1>3, <1>4, <1>5, KnownNode, KnownFinish, KnownLate
     DEF OpenNext, Next, CallProgress

LEMMA KnownInit == Init => KnownOrLost
BY DEF Init, KnownOrLost, UnaskedIsUntouched, LostCreatesHaveNoRecord, StoppedStaysStopped,
       OrphansComeFromLostCreates, Effective, InCall, NoCall

(* Also while nodes come and go, only a lost creation leaves a sandbox running
   that the scheduler does not know. *)
THEOREM OpenOrphansHold == OpenSpec => []OrphansComeFromLostCreates
BY OpenInit, OpenStep, KnownInit, KnownStep, PTL DEF OpenSpec, KnownOrLost

-----------------------------------------------------------------------------
(* The scheduler implements the abstract placement.  A sandbox's life begins
   when Schedule's bookkeeping is done and ends with Stop's; every other step of
   the scheduler, of its client and of the nodes is a stutter.  A sandbox whose
   creation failed is refused for good. *)

(* The life of a recorded sandbox is its recorded state. *)
LEMMA LifeIsState ==
  ASSUME TypeOK, NEW id \in Ids
  PROVE  /\ state[id] # "none" <=> Life[id] \in P!Alive
         /\ state[id] # "none" => Life[id] = state[id]
BY DEF Life, P!Alive, TypeOK

(* The sandboxes placed on a node are the ones recorded on it. *)
LEMMA PlacedIsOn == TypeOK => \A n \in Nodes : P!Placed(n) = On(n)
BY LifeIsState DEF P!Placed, On, Recorded

(* The placement counts units the way the scheduler does. *)
LEMMA SameLoad ==
  ASSUME NEW S, NEW demand
  PROVE  P!LoadOf(S, demand) = LoadOf(S, demand)
<1>1. ASSUME NEW d PROVE P!Taken(S, d) = Taken(S, d)
  BY DEF Taken, Units, UnitsOf, Cardinality, P!Taken, P!Units, P!UnitsOf, P!Cardinality
<1>2. P!Negated(demand) = Negated(demand)
  BY DEF Negated, P!Negated
<1>. QED
  BY <1>1, <1>2 DEF LoadOf, Given, P!LoadOf, P!Given

(* A life changes where its new value is known and the others keep theirs. *)
LEMMA LifeUpdate ==
  ASSUME NEW id \in Ids, NEW v, Life'[id] = v,
         \A x \in Ids \ {id} : Life'[x] = Life[x]
  PROVE  Life' = [Life EXCEPT ![id] = v]
<1>1. Life = [x \in Ids |-> Life[x]]
  BY DEF Life
<1>2. Life' = [x \in Ids |-> Life'[x]]
  BY DEF Life
<1>. QED
  BY <1>1, <1>2

(* Life is unchanged where the record is, and the birth is no nearer. *)
LEMMA SameLife ==
  ASSUME UNCHANGED state,
         \A x \in Ids : state[x] = "none" =>
            ((x \notin scheduled \/ (~Free /\ call.id = x))
               <=> (x \notin scheduled \/ (~Free /\ call.id = x))')
  PROVE  Life' = Life
BY DEF Life

(* Sending a command begins and ends no life. *)
LEMMA SendIsStutter ==
  ASSUME Booked, NEW id \in Ids, UserRequest(id) \/ Retire(id)
  PROVE  Life' = Life /\ nodeOf' = nodeOf
<1>1. UNCHANGED recordVars /\ UNCHANGED scheduled /\ Free
  BY NodesAssumption
     DEF UserRequest, Retire, Stop, Pause, Resume, Registered, Booked, TypeOK,
         RecordsHaveNodes, AllReady, recordVars
<1>2. call' # NoCall => state[id] # "none" /\ call'.id = id
  BY <1>1 DEF UserRequest, Retire, Stop, CanStop, Pause, Resume, Request, Free, recordVars
<1>. QED
  BY <1>1, <1>2, SameLife DEF Free, recordVars

LEMMA ScheduleIsRefusalOrStutter ==
  ASSUME Booked, NEW id \in Ids, Schedule(id)
  PROVE  [P!Next]_P!avars
<1>1. /\ state[id] = "none" /\ id \notin scheduled /\ scheduled' = scheduled \cup {id}
      /\ Free /\ UNCHANGED <<state, nodeOf>>
  BY DEF Schedule, Booked, RecordsHaveNodes, recordVars
<1>2. CASE call' = NoCall
  <2>1. Life[id] = "unborn" /\ Life' = [Life EXCEPT ![id] = "gone"]
    BY <1>1, <1>2 DEF Life, Free
  <2>. QED
    BY <1>1, <2>1 DEF P!Next, P!Refuse
<1>3. CASE call' # NoCall
  <2>1. call'.id = id
    BY <1>1, <1>3 DEF Schedule, Request, Free
  <2>2. Life' = Life
    BY <1>1, <1>3, <2>1, SameLife DEF Free
  <2>. QED
    BY <1>1, <2>2 DEF P!avars
<1>. QED
  BY <1>2, <1>3

LEMMA FinishIsStep ==
  ASSUME Booked, Booked', Finish
  PROVE  [P!Next]_P!avars
<1>0. call \in Call /\ call # NoCall /\ call' = NoCall
  BY CallInProgress
     DEF Finish, FinishSchedule, FinishStop, FinishPauseOrResume, FinishFailed,
         Booked, Phases, Call, NoCall, InCall
<1>1. PICK id \in Ids, n \in Nodes : id = call.id /\ n = call.node
  BY <1>0 DEF Call
<1>2. UNCHANGED scheduled /\ id \in scheduled
  BY <1>0, <1>1 DEF Finish, FinishSchedule, FinishStop, FinishPauseOrResume, FinishFailed,
                    Booked, CreateHasRoom, OthersHaveRecords, RecordsHaveNodes, Call, Ops
<1>3. \A x \in Ids : x # id /\ state'[x] = state[x] => Life'[x] = Life[x]
  BY <1>0, <1>1, <1>2 DEF Life, Free
<1>4. state'[id] # "none" => Life'[id] = state'[id]
  BY <1>1 DEF Life
<1>5. state'[id] = "none" => Life'[id] = "gone"
  BY <1>0, <1>1, <1>2 DEF Life, Free
<1>6. CASE FinishSchedule
  <2>1. state[id] = "none" /\ Life[id] = "unborn"
    BY <1>0, <1>1, <1>6 DEF FinishSchedule, Booked, CreateHasRoom, Life, Free
  <2>2. Life' = [Life EXCEPT ![id] = "running"] /\ nodeOf' = [nodeOf EXCEPT ![id] = n]
    <3>1. /\ state' = [state EXCEPT ![id] = "running"]
          /\ nodeOf' = [nodeOf EXCEPT ![id] = n]
      BY <1>1, <1>6 DEF FinishSchedule
    <3>2. state'[id] = "running" /\ \A x \in Ids \ {id} : state'[x] = state[x]
      BY <3>1 DEF Booked, TypeOK
    <3>. QED
      BY <1>3, <1>4, <3>1, <3>2, LifeUpdate
  <2>3. P!HasRoom(n, id)
    BY <1>0, <1>1, <1>6, PlacedIsOn, SameLoad
       DEF FinishSchedule, P!HasRoom, Booked, CreateHasRoom, Accounting
  <2>. QED
    BY <2>1, <2>2, <2>3 DEF P!Next, P!Start
<1>7. CASE FinishStop
  <2>1. Life[id] \in P!Alive
    BY <1>0, <1>1, <1>7, LifeIsState DEF FinishStop, Booked, OthersHaveRecords
  <2>2. Life' = [Life EXCEPT ![id] = "gone"] /\ nodeOf' = [nodeOf EXCEPT ![id] = NoNode]
    <3>1. /\ state' = [state EXCEPT ![id] = "none"]
          /\ nodeOf' = [nodeOf EXCEPT ![id] = NoNode]
      BY <1>1, <1>7 DEF FinishStop
    <3>2. state'[id] = "none" /\ \A x \in Ids \ {id} : state'[x] = state[x]
      BY <3>1 DEF Booked, TypeOK
    <3>. QED
      BY <1>3, <1>5, <3>1, <3>2, LifeUpdate
  <2>. QED
    BY <2>1, <2>2 DEF P!Next, P!End
<1>8. CASE FinishPauseOrResume
  <2>1. UNCHANGED nodeOf /\ Life' = [Life EXCEPT ![id] = Target[call.op]]
    <3>1. UNCHANGED nodeOf /\ state' = [state EXCEPT ![id] = Target[call.op]]
      BY <1>1, <1>8 DEF FinishPauseOrResume
    <3>2. Target[call.op] # "none"
      BY <1>8 DEF FinishPauseOrResume, Target
    <3>3. state'[id] = Target[call.op] /\ \A x \in Ids \ {id} : state'[x] = state[x]
      BY <3>1 DEF Booked, TypeOK
    <3>. QED
      BY <1>3, <1>4, <3>1, <3>2, <3>3, LifeUpdate
  <2>2. CASE call.op = "pause"
    <3>1. Life[id] = "running"
      BY <1>0, <1>1, <2>2, LifeIsState DEF Booked, OthersHaveRecords
    <3>2. P!Freeze(id)
      BY <2>1, <2>2, <3>1 DEF P!Freeze, Target
    <3>. QED
      BY <3>2 DEF P!Next
  <2>3. CASE call.op = "resume"
    <3>1. Life[id] = "paused"
      BY <1>0, <1>1, <2>3, LifeIsState DEF Booked, OthersHaveRecords
    <3>2. P!Thaw(id)
      BY <2>1, <2>3, <3>1 DEF P!Thaw, Target
    <3>. QED
      BY <3>2 DEF P!Next
  <2>. QED
    BY <1>8, <2>2, <2>3 DEF FinishPauseOrResume
<1>9. CASE FinishFailed
  <2>1. UNCHANGED <<state, nodeOf>>
    BY <1>9 DEF FinishFailed, recordVars
  <2>2. CASE state[id] # "none"
    <3>1. Life' = Life
      BY <1>0, <1>1, <1>2, <2>1, <2>2, SameLife DEF Free
    <3>. QED
      BY <2>1, <3>1 DEF P!avars
  <2>3. CASE state[id] = "none"
    <3>1. Life[id] = "unborn" /\ Life' = [Life EXCEPT ![id] = "gone"]
      BY <1>0, <1>1, <1>3, <1>5, <2>1, <2>3 DEF Life, Free
    <3>. QED
      BY <2>1, <3>1 DEF P!Next, P!Refuse
  <2>. QED
    BY <2>2, <2>3
<1>. QED
  BY <1>6, <1>7, <1>8, <1>9 DEF Finish

LEMMA StepRefines == Booked /\ Booked' /\ [Next]_vars => [P!Next]_P!avars
<1> SUFFICES ASSUME Booked, Booked', [Next]_vars PROVE [P!Next]_P!avars
  OBVIOUS
<1>1. ASSUME UNCHANGED <<state, nodeOf, scheduled>>,
             \/ call' = call
             \/ call # NoCall /\ call' # NoCall /\ call'.id = call.id
      PROVE  UNCHANGED P!avars
  BY <1>1, SameLife DEF Free, P!avars
<1>2. ASSUME NEW id \in Ids, Schedule(id) PROVE [P!Next]_P!avars
  BY <1>2, ScheduleIsRefusalOrStutter
<1>3. ASSUME NEW id \in Ids, UserRequest(id) \/ Retire(id) PROVE [P!Next]_P!avars
  BY <1>3, SendIsStutter DEF P!avars
<1>4. CASE NodeAnswers \/ ClientReturns \/ GiveUp
  <2>1. call \in Call /\ call # NoCall
    BY <1>4, CallInProgress
       DEF NodeAnswers, NodeDoes, NodeRefuses, NodeFailsMidway, ClientReturns, GiveUp,
           Booked, Phases, Call, NoCall
  <2>2. call' # NoCall /\ call'.id = call.id
    BY <1>4, <2>1, BecomesIsCall
       DEF NodeAnswers, NodeDoes, NodeRefuses, NodeFailsMidway, ClientReturns, GiveUp,
           Booked, Phases, Call, NoCall
  <2>3. UNCHANGED <<state, nodeOf, scheduled>>
    BY <1>4 DEF NodeAnswers, NodeDoes, NodeRefuses, NodeFailsMidway, ClientReturns, GiveUp,
                NodeUnchanged, recordVars
  <2>. QED
    BY <1>1, <2>1, <2>2, <2>3
<1>5. CASE Finish
  BY <1>5, FinishIsStep
<1>6. ASSUME NEW op \in Ops, NEW id \in Ids, LateCommand(op, id) PROVE [P!Next]_P!avars
  BY <1>1, <1>6 DEF LateCommand, NodeUnchanged, recordVars
<1>8. ASSUME NEW id \in Ids, GuestDies(id) PROVE [P!Next]_P!avars
  BY <1>1, <1>8 DEF GuestDies, NodeUnchanged, recordVars
<1>7. CASE Scan \/ Tick \/ UNCHANGED vars
  BY <1>1, <1>7 DEF Scan, Tick, vars, recordVars
<1>. QED
  BY <1>2, <1>3, <1>4, <1>5, <1>6, <1>7, <1>8 DEF Next, CallProgress

(* The scheduler keeps the promise of the abstract placement, for every set of
   nodes and sandboxes and whatever calls fail, are lost or come late. *)
THEOREM Refinement == Spec => ImplementsPlacement
<1>1. Init => P!Init
  BY DEF Init, P!Init, Life
<1>. QED
  BY <1>1, StepRefines, AlwaysBooked, PTL DEF Spec, ImplementsPlacement, P!Spec

-----------------------------------------------------------------------------
(* The theorems about the abstract placement, for the scheduler's records. *)
A == INSTANCE PlacementProofs WITH life <- Life, place <- nodeOf

LEMMA SizedIds == A!Sized
  BY NodesAssumption, IdsAssumption, DemandAssumption, CapacityAssumption
     DEF A!Sized, A!IsFiniteSet, IsFiniteSet

LEMMA SameRoom ==
  ASSUME NEW n, NEW id
  PROVE  P!HasRoom(n, id) <=> A!HasRoom(n, id)
<1>1. A!Placed(n) = P!Placed(n)
  BY DEF A!Placed, P!Placed, A!Alive, P!Alive
<1>2. \A S, demand : A!LoadOf(S, demand) = P!LoadOf(S, demand)
  BY DEF A!LoadOf, A!Taken, A!Given, A!Negated, A!Cardinality, A!Units, A!UnitsOf,
         P!LoadOf, P!Taken, P!Given, P!Negated, P!Cardinality, P!Units, P!UnitsOf
<1>. QED
  BY <1>1, <1>2 DEF A!HasRoom, P!HasRoom

LEMMA SamePlacement == P!Spec => A!Spec
<1>1. P!Init <=> A!Init
  BY DEF P!Init, A!Init
<1>2. [P!Next]_P!avars <=> [A!Next]_A!avars
  BY SameRoom DEF P!Next, P!avars, P!Start, P!Refuse, P!Freeze, P!Thaw, P!End, P!Alive,
                  A!Next, A!avars, A!Start, A!Refuse, A!Freeze, A!Thaw, A!End, A!Alive
<1>. QED
  BY <1>1, <1>2, PTL DEF P!Spec, A!Spec

(* What the placement guarantees holds of the scheduler's map, for any demands:
   what the sandboxes recorded on a node demand, summed anew and not read from
   its counters, exceeds it by no more than negative demands have given; a sandbox
   is recorded once in its life; and its record never moves to another node
   (Schedule, Stop, Pause, Resume). *)
THEOREM PlacementHolds == Spec => []A!RoomKept /\ A!LivesOnce /\ A!NeverMoves
<1>1. A!Spec => []A!RoomKept
  BY SizedIds, A!RoomIsKept
<1>2. A!Spec => A!LivesOnce
  BY A!OneLifeEach
<1>3. A!Spec => A!NeverMoves
  BY SizedIds, A!StaysInPlace
<1>. QED
  BY <1>1, <1>2, <1>3, Refinement, SamePlacement, PTL DEF ImplementsPlacement

-----------------------------------------------------------------------------
(* One life on the nodes.  The order to create a sandbox is in one place at
   most: not given yet, in the call that holds the lock, or given up and late;
   and until it is carried out or dropped no node runs the sandbox. *)
Unstarted(id) == id \notin scheduled \/ Creating(id) \/ <<"create", id>> \in late

OneCreate ==
  \A id \in Ids :
    /\ Unstarted(id) => remote[id] = "none"
    /\ Creating(id) => id \in scheduled /\ <<"create", id>> \notin late
    /\ <<"create", id>> \in late => id \in scheduled

(* How a step may change what the nodes run of a sandbox, and whether it can
   still begin. *)
Moves(id) ==
  \/ remote[id] = "none" /\ remote'[id] = "running" /\ Unstarted(id) /\ ~Unstarted(id)'
  \/ /\ remote[id] # "none" /\ remote'[id] # "none" /\ ~Unstarted(id)'
     /\ remote[id] = "dead" => remote'[id] = "dead"
  \/ remote'[id] = "none" /\ (Unstarted(id)' => Unstarted(id))

LEMMA MovesKeepOneCreate ==
  ASSUME TypeOK, OneCreate, NEW id \in Ids, Moves(id)
  PROVE  Unstarted(id)' => remote'[id] = "none"
  BY DEF Moves

LEMMA MovesAreLives ==
  ASSUME TypeOK, TypeOK', OneCreate, \A id \in Ids : Moves(id)
  PROVE  M!Next
<1>1. MachineLife' \in [Ids -> M!Lives]
  BY DEF MachineLife, TypeOK, M!Lives, M!Alive
<1>2. ASSUME NEW id \in Ids
      PROVE  M!Begins(id) \/ M!Freezes(id) \/ M!Thaws(id) \/ M!Ends(id) \/ M!Stays(id)
  <2>1. /\ MachineLife[id] = IF remote[id] = "dead" THEN "gone"
                             ELSE IF remote[id] # "none" THEN remote[id]
                             ELSE IF Unstarted(id) THEN "unborn" ELSE "gone"
        /\ MachineLife'[id] = IF remote'[id] = "dead" THEN "gone"
                              ELSE IF remote'[id] # "none" THEN remote'[id]
                              ELSE IF Unstarted(id)' THEN "unborn" ELSE "gone"
    BY DEF MachineLife, Unstarted
  <2>2. /\ remote[id] \in {"none", "running", "paused", "dead"}
        /\ remote'[id] \in {"none", "running", "paused", "dead"}
        /\ Unstarted(id) => remote[id] = "none"
    BY DEF TypeOK, OneCreate
  <2>. HIDE DEF Unstarted, MachineLife
  <2>. QED
    BY <2>1, <2>2 DEF Moves, M!Begins, M!Freezes, M!Thaws, M!Ends, M!Stays
<1>. QED
  BY <1>1, <1>2 DEF M!Next

(* A step that leaves the nodes, the late commands and the orders to create alone. *)
LEMMA NothingMoves ==
  ASSUME TypeOK, OneCreate, UNCHANGED <<remoteVars, scheduled>>,
         \A id \in Ids : Creating(id)' => Creating(id)
  PROVE  OneCreate' /\ \A id \in Ids : Moves(id)
  BY DEF OneCreate, Unstarted, Moves, remoteVars, TypeOK

LEMMA RequestMoves ==
  ASSUME TypeOK, OneCreate, NEW id \in Ids, Schedule(id)
  PROVE  OneCreate' /\ \A x \in Ids : Moves(x)
<1>1. UNCHANGED remoteVars /\ scheduled' = scheduled \cup {id} /\ id \notin scheduled /\ Free
  BY DEF Schedule
<1>2. \A x \in Ids : ~Creating(x)
  BY <1>1 DEF Creating, InCall, Free, NoCall
<1>3. \A x \in Ids : Creating(x)' => x = id
  BY <1>1, <1>2 DEF Schedule, Creating, Request, InCall
<1>. QED
  BY <1>1, <1>2, <1>3 DEF OneCreate, Unstarted, Moves, remoteVars, TypeOK

(* The node carries the command of the call out. *)
LEMMA ExecutionMoves ==
  ASSUME TypeOK, OneCreate, InCall({"sent"}), call \in Call, Doable(call.op, call.id),
         remote' = [remote EXCEPT ![call.id] = Target[call.op]],
         \A x \in Ids : ~Creating(x)', UNCHANGED <<late, scheduled>>
  PROVE  OneCreate' /\ \A x \in Ids : Moves(x)
<1>1. PICK id \in Ids, op \in Ops : call.id = id /\ call.op = op
  BY DEF Call
<1>2. /\ remote'[id] = Target[op] /\ \A x \in Ids \ {id} : remote'[x] = remote[x]
      /\ Doable(op, id)
  BY <1>1 DEF TypeOK
<1>3. op = "create" => Creating(id)
  BY <1>1 DEF Creating
<1>4. op = "create" => remote[id] = "none" /\ ~Unstarted(id)'
  BY <1>3 DEF OneCreate, Unstarted
<1>5. \A x \in Ids : Unstarted(x)' => Unstarted(x)
  BY DEF Unstarted
<1>6. Moves(id)
  BY <1>2, <1>3, <1>4, <1>5 DEF Moves, Ops, Target, Doable, OneCreate, Unstarted, TypeOK
<1>7. \A x \in Ids \ {id} : Moves(x)
  BY <1>2, <1>5 DEF Moves, OneCreate
<1>8. \A x \in Ids : Moves(x)
  BY <1>6, <1>7
<1>. QED
  BY <1>8, MovesKeepOneCreate DEF OneCreate

LEMMA CallMoves ==
  ASSUME TypeOK, OneCreate, CallProgress
  PROVE  OneCreate' /\ \A x \in Ids : Moves(x)
<1>1. call \in Call
  BY CallInProgress
     DEF CallProgress, NodeAnswers, NodeDoes, NodeRefuses, NodeFailsMidway, ClientReturns, GiveUp,
         Finish, FinishSchedule, FinishStop, FinishPauseOrResume, FinishFailed, Phases
<1>2. \A x \in Ids : ~Creating(x)'
  BY <1>1 DEF CallProgress, NodeAnswers, NodeDoes, NodeRefuses, NodeFailsMidway, ClientReturns, GiveUp,
              Finish, FinishSchedule, FinishStop, FinishPauseOrResume, FinishFailed, Becomes,
              Creating, InCall, NoCall, Call
<1>3. CASE NodeDoes \/ NodeFailsMidway
  <2>1. CASE UNCHANGED remote
    BY <1>2, <1>3, <2>1, NothingMoves DEF NodeDoes, NodeFailsMidway, NodeUnchanged, remoteVars,
                                          OneCreate, Unstarted, Moves, TypeOK
  <2>. QED
    BY <1>1, <1>2, <1>3, <2>1, ExecutionMoves DEF NodeDoes, NodeFailsMidway, NodeUnchanged
<1>4. CASE NodeRefuses \/ ClientReturns \/ Finish
  BY <1>2, <1>4, NothingMoves
     DEF NodeRefuses, ClientReturns, Finish, FinishSchedule, FinishStop, FinishPauseOrResume,
         FinishFailed, NodeUnchanged, remoteVars
<1>5. CASE GiveUp
  <2>1. UNCHANGED <<remote, scheduled>>
    BY <1>5 DEF GiveUp, NodeUnchanged
  <2>2. \A x \in Ids : <<"create", x>> \in late' => <<"create", x>> \in late \/ Creating(x)
    BY <1>1, <1>5 DEF GiveUp, Creating, Call, InCall
  <2>. QED
    BY <1>2, <2>1, <2>2 DEF OneCreate, Unstarted, Moves, TypeOK
<1>. QED
  BY <1>3, <1>4, <1>5 DEF CallProgress, NodeAnswers

LEMMA LateMoves ==
  ASSUME TypeOK, OneCreate, NEW op \in Ops, NEW id \in Ids, LateCommand(op, id)
  PROVE  OneCreate' /\ \A x \in Ids : Moves(x)
<1>1. /\ <<op, id>> \in late /\ late' = late \ {<<op, id>>} /\ UNCHANGED <<call, scheduled>>
      /\ \A x \in Ids : Creating(x)' <=> Creating(x)
  BY DEF LateCommand, NodeUnchanged, Creating, InCall
<1>2. \A x \in Ids : Unstarted(x)' => Unstarted(x)
  BY <1>1 DEF Unstarted
<1>3. op = "create" => Unstarted(id) /\ ~Unstarted(id)'
  BY <1>1 DEF Unstarted, OneCreate
<1>4. \A x \in Ids \ {id} : remote'[x] = remote[x]
  BY DEF LateCommand, TypeOK
<1>5. \/ remote'[id] = remote[id]
      \/ Doable(op, id) /\ remote'[id] = Target[op]
  BY DEF LateCommand, TypeOK
<1>6. Moves(id)
  <2>1. Unstarted(id) => remote[id] = "none"
    BY DEF OneCreate
  <2>2. remote[id] \in {"none", "running", "paused", "dead"}
    BY DEF TypeOK
  <2>. HIDE DEF Unstarted
  <2>3. CASE remote'[id] = remote[id]
    BY <1>2, <2>1, <2>2, <2>3 DEF Moves
  <2>4. CASE Doable(op, id) /\ remote'[id] = Target[op]
    BY <1>2, <1>3, <2>1, <2>2, <2>4 DEF Moves, Ops, Target, Doable
  <2>. QED
    BY <1>5, <2>3, <2>4
<1>7. \A x \in Ids \ {id} : Moves(x)
  BY <1>2, <1>4 DEF Moves, OneCreate
<1>8. \A x \in Ids : Moves(x)
  BY <1>6, <1>7
<1>. QED
  BY <1>1, <1>8, MovesKeepOneCreate DEF OneCreate

LEMMA OneCreateStep ==
  TypeOK /\ OneCreate /\ [OpenNext]_vars => OneCreate' /\ [M!Next]_MachineLife
<1>. SUFFICES ASSUME TypeOK, OneCreate, [OpenNext]_vars PROVE OneCreate' /\ \A x \in Ids : Moves(x)
  BY TypeStep, MovesAreLives
<1>1. ASSUME NEW id \in Ids, UserRequest(id) \/ Retire(id)
      PROVE  OneCreate' /\ \A x \in Ids : Moves(x)
  <2>1. UNCHANGED <<remoteVars, scheduled>>
    BY <1>1 DEF UserRequest, Retire
  <2>2. \A x \in Ids : ~Creating(x)'
    BY <1>1 DEF UserRequest, Retire, Stop, Pause, Resume, Request, Creating, Free, NoCall, InCall
  <2>. QED
    BY <2>1, <2>2, NothingMoves
<1>2. CASE \/ Scan \/ Tick \/ UNCHANGED vars
           \/ \E id \in Ids, d \in 0 .. 1 : ExtendTimeout(id, d)
           \/ \E n \in Nodes : RegisterNode(n) \/ UnregisterNode(n)
  BY <1>2, NothingMoves
     DEF Scan, Tick, vars, ExtendTimeout, RegisterNode, UnregisterNode, remoteVars, Creating, InCall
<1>3. ASSUME NEW id \in Ids, GuestDies(id)
      PROVE  OneCreate' /\ \A x \in Ids : Moves(x)
  <2>1. /\ remote[id] \notin {"none", "dead"} /\ remote'[id] = "dead"
        /\ \A x \in Ids \ {id} : remote'[x] = remote[x]
        /\ UNCHANGED <<late, call, scheduled>>
    BY <1>3 DEF GuestDies, NodeUnchanged, TypeOK
  <2>2. \A x \in Ids : (Unstarted(x)' <=> Unstarted(x)) /\ (Creating(x)' <=> Creating(x))
    BY <2>1 DEF Unstarted, Creating, InCall
  <2>3. \A x \in Ids : Moves(x)
    BY <2>1, <2>2 DEF Moves, OneCreate
  <2>. QED
    BY <2>1, <2>2, <2>3, MovesKeepOneCreate DEF OneCreate
<1>. QED
  BY <1>1, <1>2, <1>3, RequestMoves, CallMoves, LateMoves DEF OpenNext, Next

LEMMA OneCreateInit == Init => OneCreate /\ M!Init
  BY DEF Init, OneCreate, Unstarted, Creating, InCall, NoCall, M!Init, MachineLife

(* MachinesLiveOnce: a node starts a sandbox at most once and none comes back
   after its end, however late commands arrive and whatever answers were lost;
   with nodes that come and go and deadlines that move, too. *)
THEOREM MachinesHold == OpenSpec => MachinesLiveOnce
  BY TypeInit, TypeStep, OneCreateInit, OneCreateStep, PTL DEF OpenSpec, MachinesLiveOnce, M!Spec

-----------------------------------------------------------------------------
(* The lock: what LockIsReleased rests on.  A call's place on its way. *)
Phase == [sent |-> 0, done |-> 1, refused |-> 1, ok |-> 2, failed |-> 2]

CallGoesOn ==
  call # NoCall /\ call' # call =>
    \/ call' = NoCall /\ call.phase \in {"ok", "failed"}
    \/ /\ call' # NoCall /\ Phase[call'.phase] > Phase[call.phase]
       /\ call'.op = call.op /\ call'.id = call.id /\ call'.node = call.node

(* Whoever has the scheduler's lock goes on with one call to its end: nobody
   takes the lock from it, and it is back after three steps of that call, with
   nodes that come and go, too. *)
THEOREM CallsGoOn == OpenSpec => [][CallGoesOn]_vars
<1>1. TypeOK /\ [OpenNext]_vars => [CallGoesOn]_vars
  <2> SUFFICES ASSUME TypeOK, OpenNext, call # NoCall, call' # call
               PROVE  \/ call' = NoCall /\ call.phase \in {"ok", "failed"}
                      \/ /\ call' # NoCall /\ Phase[call'.phase] > Phase[call.phase]
                         /\ call'.op = call.op /\ call'.id = call.id /\ call'.node = call.node
    BY DEF CallGoesOn
  <2>1. call \in Call
    BY DEF TypeOK
  <2>2. CASE CallProgress
    <3>1. CASE Finish
      BY <2>1, <3>1 DEF Finish, FinishSchedule, FinishStop, FinishPauseOrResume, FinishFailed, InCall
    <3>2. CASE NodeAnswers \/ ClientReturns \/ GiveUp
      <4>1. PICK phase \in Phases : Becomes(phase) /\ Phase[phase] > Phase[call.phase]
        BY <2>1, <3>2
           DEF NodeAnswers, NodeDoes, NodeRefuses, NodeFailsMidway, ClientReturns, GiveUp, InCall,
               Phase, Phases
      <4>2. /\ call' \in Call /\ call'.phase = phase
            /\ call'.op = call.op /\ call'.id = call.id /\ call'.node = call.node
        BY <2>1, <4>1, BecomesIsCall
      <4>3. call' # NoCall
        BY <4>2 DEF Call, NoCall
      <4>. QED
        BY <4>1, <4>2, <4>3
    <3>. QED
      BY <2>2, <3>1, <3>2 DEF CallProgress
  <2>3. CASE ~CallProgress
    <3>1. ~Free
      BY DEF Free
    <3>. QED
      BY <2>3, <3>1
         DEF OpenNext, Next, Schedule, UserRequest, Retire, Scan, Tick, LateCommand, GuestDies,
             ExtendTimeout, RegisterNode, UnregisterNode
  <2>. QED
    BY <2>2, <2>3
<1>. QED
  BY <1>1, TypeInit, TypeStep, PTL DEF OpenSpec

DeadlineStands ==
  \A id \in Ids : state[id] # "none" /\ state'[id] # "none" => expiresAt'[id] = expiresAt[id]

(* The deadline that Schedule gave a sandbox is the one it has until it is
   stopped: no pause, resume or retry moves it.  That is why a sandbox that is
   resumed may have no time left. *)
THEOREM DeadlinesStand == Spec => [][DeadlineStands]_vars
<1>1. Booked /\ [Next]_vars => [DeadlineStands]_vars
  <2> SUFFICES ASSUME Booked, Next, NEW id \in Ids, state[id] # "none", state'[id] # "none"
               PROVE  expiresAt'[id] = expiresAt[id]
    BY DEF DeadlineStands
  <2>0. TypeOK
    BY DEF Booked
  <2>1. CASE FinishSchedule
    <3>1. call \in Call /\ call # NoCall /\ call.op = "create"
      BY <2>0, <2>1, CallInProgress DEF FinishSchedule, Phases, Call, NoCall
    <3>2. call.id # id
      BY <3>1, <2>1 DEF Booked, CreateHasRoom, FinishSchedule, InCall
    <3>. QED
      BY <2>0, <2>1, <3>2 DEF FinishSchedule, TypeOK
  <2>2. CASE FinishStop
    <3>1. call.id # id
      BY <2>0, <2>2 DEF FinishStop, TypeOK
    <3>. QED
      BY <2>0, <2>2, <3>1 DEF FinishStop, TypeOK
  <2>3. ASSUME ~FinishSchedule, ~FinishStop PROVE UNCHANGED expiresAt
    BY <2>3 DEF Next, Schedule, UserRequest, Retire, Stop, Pause, Resume, CallProgress, NodeAnswers,
                NodeDoes, NodeRefuses, NodeFailsMidway, ClientReturns, GiveUp, Finish,
                FinishPauseOrResume, FinishFailed, LateCommand, GuestDies, Scan, Tick, NodeUnchanged,
                recordVars
  <2>. QED
    BY <2>1, <2>2, <2>3
<1>. QED
  BY <1>1, AlwaysBooked, PTL DEF Spec
=============================================================================
