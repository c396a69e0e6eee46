----------------------------- MODULE Scheduler -----------------------------
(***************************************************************************)
(* The control plane's scheduler (internal/scheduler/scheduler.go), the    *)
(* client through which it calls the nodes (orchestrator_client.go) and    *)
(* the answers a node agent gives (internal/orchestrator/service.go).      *)
(*                                                                         *)
(* The scheduler's write lock is held from the first check of an operation *)
(* to its last bookkeeping, the remote call included.  "call" is therefore *)
(* both the lock and the one remote call in progress.  A call may be       *)
(* refused by the node, take effect and be answered, or lose its answer:   *)
(* the caller then sees an error while the node has executed the command,  *)
(* or executes it later ("late").  The Docker SDK runtime answers a pause  *)
(* and a resume without doing anything, and a guest may die by itself.     *)
(***************************************************************************)
EXTENDS Load

CONSTANTS
  Nodes,           \* compute nodes
  Ids,             \* sandbox identifiers, each used for one sandbox
  NoNode,          \* "not placed"
  Cpu, Mem,        \* SandboxSpec: what each sandbox asks for, unchecked
  Timeout,         \* SandboxSpec: its lifetime in ticks of the clock
  AutoPause,       \* SandboxSpec: the sandboxes that pause when they expire
  CpuCap, MemCap,  \* NodeSpec: what each node has
  Clients,         \* nodes the orchestrator client could connect to at boot
  Cached,          \* nodes that hold the sandboxes' build in their cache
  SdkNodes,        \* nodes that run the Docker SDK runtime
  Mortal,          \* bound: the sandboxes whose guest may die by itself
  MaxClock,        \* bound: the clock stops here
  MaxLost          \* bound: commands whose outcome the scheduler never learns

ASSUME NodesAssumption == NoNode \notin Nodes
ASSUME IdsAssumption == IsFiniteSet(Ids)
ASSUME DemandAssumption == Cpu \in [Ids -> Int] /\ Mem \in [Ids -> Int]
ASSUME CapacityAssumption ==
  CpuCap \in [Nodes -> Nat \ {0}] /\ MemCap \in [Nodes -> Nat \ {0}]
ASSUME TimeAssumption == Timeout \in [Ids -> Int] /\ MaxClock \in Nat
ASSUME SubsetAssumption ==
  /\ AutoPause \subseteq Ids /\ Mortal \subseteq Ids
  /\ Clients \subseteq Nodes /\ Cached \subseteq Nodes /\ SdkNodes \subseteq Nodes

VARIABLES
  \* Scheduler.nodes: the registered nodes and their NodeStatus
  nodeState, allocatedCPU, allocatedMemory, sandboxCount,
  \* Scheduler.sandboxes: "none" for an identifier that is not in the map
  state, nodeOf, expiresAt,
  scheduled,     \* identifiers Schedule has been called with
  call,          \* the operation that holds Scheduler.mu, with its remote call
  sandboxPorts,  \* OrchestratorClient.sandboxPorts: identifiers with a location
  remote,        \* what the nodes run; "dead": a guest that died and was not removed
  late,          \* commands given up on before the node had executed them
  lost,          \* history: commands that failed for the scheduler, yet (may) run
  now,           \* the clock
  expired        \* checkExpirations: identifiers left of the snapshot

nodeVars == <<nodeState, allocatedCPU, allocatedMemory, sandboxCount>>
recordVars == <<state, nodeOf, expiresAt>>
remoteVars == <<remote, late, lost>>
vars == <<nodeVars, recordVars, scheduled, call, sandboxPorts, remoteVars, now, expired>>

-----------------------------------------------------------------------------
(* Remote commands. *)

Ops == {"create", "stop", "pause", "resume"}

(* The state a command that is carried out leaves a sandbox in, and the state
   the scheduler records for a pause or a resume that was answered. *)
TargetKeepsStopped ==  \* mutant: a stopped sandbox stays in the runtime's table
  [create |-> "running", stop |-> "stopped", pause |-> "paused", resume |-> "running"]
Target == [create |-> "running", stop |-> "none", pause |-> "paused", resume |-> "running"]

(* The Docker SDK runtime answers success to these and does nothing. *)
Idle(op, n) == op \in {"pause", "resume"} /\ n \in SdkNodes

(* When the others may carry a command out: none pauses or resumes a sandbox
   that is not in the right state, or whose guest is dead.  A forced removal of
   a container that is not there may be answered as a success (docker rm -f). *)
Doable(op, id) == \/ op \in {"create", "stop"}
                  \/ op = "pause" /\ remote[id] = "running"
                  \/ op = "resume" /\ remote[id] = "paused"

NoCall == [phase |-> "idle"]
Phases == {"sent", "done", "refused", "ok", "failed"}
Call == [op: Ops, id: Ids, node: Nodes, by: {"user", "checker"},
         expiresAt: Int, phase: Phases]

Free == call = NoCall

(* NodeOperations.*: without a client for the node the call fails at once. *)
Request(op, id, n, by) ==
  call' = [op |-> op, id |-> id, node |-> n, by |-> by,
           expiresAt |-> IF op = "create" THEN now + Timeout[id] ELSE 0,
           phase |-> IF n \in Clients THEN "sent" ELSE "failed"]

InCall(phases) == call.phase \in phases
Becomes(phase) == call' = [call EXCEPT !.phase = phase]

-----------------------------------------------------------------------------
(* selectNode *)

AvailableCPU(n) == CpuCap[n] - allocatedCPU[n]
AvailableMemory(n) == MemCap[n] - allocatedMemory[n]

FittingByCPU(id) ==  \* mutant: the memory is not looked at
  {n \in Nodes : nodeState[n] = "ready" /\ AvailableCPU(n) >= Cpu[id]}
Fitting(id) == {n \in Nodes : /\ nodeState[n] = "ready"
                              /\ AvailableCPU(n) >= Cpu[id]
                              /\ AvailableMemory(n) >= Mem[id]}

(* The score is the free share of the CPUs plus the free share of the memory,
   plus one half on a node with the build in its cache: a fraction. *)
ScoreOver(n) == 2 * CpuCap[n] * MemCap[n]
ScoreOf(n) == 2 * (AvailableCPU(n) * MemCap[n] + AvailableMemory(n) * CpuCap[n])
              + IF n \in Cached THEN CpuCap[n] * MemCap[n] ELSE 0
Beats(m, n) == ScoreOf(m) * ScoreOver(n) > ScoreOf(n) * ScoreOver(m)

(* The loop keeps the first best node it meets, in the map's random order. *)
BestNodes(id) == {n \in Fitting(id) : \A m \in Fitting(id) : ~Beats(m, n)}

-----------------------------------------------------------------------------
(* The operations, up to the remote call. *)

Schedule(id) ==
  /\ Free
  /\ id \notin scheduled
  /\ scheduled' = scheduled \cup {id}
  /\ \/ \E n \in BestNodes(id) : Request("create", id, n, "user")
     \/ BestNodes(id) = {} /\ UNCHANGED call
  /\ UNCHANGED <<nodeVars, recordVars, sandboxPorts, remoteVars, now, expired>>

Registered(n) == n \in Nodes /\ nodeState[n] # "absent"

(* Stop needs the record and its node; it does not look at the state. *)
CanStop(id) == state[id] # "none" /\ Registered(nodeOf[id])

Stop(id, by) ==
  /\ CanStop(id)
  /\ Request("stop", id, nodeOf[id], by)
  /\ UNCHANGED recordVars

(* Pause of a sandbox whose node has left the map only changes the record. *)
Pause(id, by) ==
  /\ state[id] = "running"
  /\ IF Registered(nodeOf[id])
     THEN Request("pause", id, nodeOf[id], by) /\ UNCHANGED recordVars
     ELSE /\ state' = [state EXCEPT ![id] = "paused"]
          /\ UNCHANGED <<nodeOf, expiresAt, call>>

Resume(id) ==
  /\ state[id] = "paused"
  /\ IF Registered(nodeOf[id])
     THEN Request("resume", id, nodeOf[id], "user") /\ UNCHANGED recordVars
     ELSE /\ state' = [state EXCEPT ![id] = "running"]
          /\ UNCHANGED <<nodeOf, expiresAt, call>>

(* The requests of the API's handlers. *)
UserRequest(id) ==
  /\ Free
  /\ Stop(id, "user") \/ Pause(id, "user") \/ Resume(id)
  /\ UNCHANGED <<nodeVars, scheduled, sandboxPorts, remoteVars, now, expired>>

-----------------------------------------------------------------------------
(* The node's side of the remote call. *)

NodeUnchanged == UNCHANGED <<nodeVars, recordVars, scheduled, sandboxPorts, now, expired>>

NodeDoes ==
  /\ InCall({"sent"})
  /\ \/ /\ Idle(call.op, call.node)
        /\ UNCHANGED remote
     \/ /\ ~Idle(call.op, call.node)
        /\ Doable(call.op, call.id)
        /\ remote' = [remote EXCEPT ![call.id] = Target[call.op]]
  /\ Becomes("done")
  /\ UNCHANGED <<late, lost>>
  /\ NodeUnchanged

NodeRefuses ==
  /\ InCall({"sent"})
  /\ Becomes("refused")
  /\ UNCHANGED remoteVars
  /\ NodeUnchanged

(* The command took effect and a later step of the handler failed: the agent
   cannot read the new sandbox's status, a snapshot of a paused VM fails. *)
NodeFailsMidway ==
  /\ InCall({"sent"})
  /\ Cardinality(lost) < MaxLost
  /\ call.op \in {"create", "pause"}
  /\ ~Idle(call.op, call.node)
  /\ Doable(call.op, call.id)
  /\ remote' = [remote EXCEPT ![call.id] = Target[call.op]]
  /\ lost' = lost \cup {<<call.op, call.id>>}
  /\ Becomes("refused")
  /\ UNCHANGED late
  /\ NodeUnchanged

ClientIgnoresRefusal ==  \* mutant: the answer's Success field is not read
  /\ InCall({"done", "refused"})
  /\ Becomes("ok")
  /\ sandboxPorts' = CASE call.op = "create" -> sandboxPorts \cup {call.id}
                       [] call.op = "stop"   -> sandboxPorts \ {call.id}
                       [] OTHER              -> sandboxPorts
  /\ UNCHANGED <<nodeVars, recordVars, scheduled, remoteVars, now, expired>>
ClientKeepsLocations ==  \* mutant: StopSandbox leaves the location in the table
  /\ \/ InCall({"done"}) /\ Becomes("ok")
     \/ InCall({"refused"}) /\ Becomes("failed")
  /\ sandboxPorts' = sandboxPorts \cup IF InCall({"done"}) /\ call.op = "create" THEN {call.id} ELSE {}
  /\ UNCHANGED <<nodeVars, recordVars, scheduled, remoteVars, now, expired>>

(* The answer reaches the client, which keeps the sandbox's location. *)
ClientReturns ==
  /\ \/ /\ InCall({"done"})
        /\ Becomes("ok")
        /\ sandboxPorts' = CASE call.op = "create" -> sandboxPorts \cup {call.id}
                             [] call.op = "stop"   -> sandboxPorts \ {call.id}
                             [] OTHER              -> sandboxPorts
     \/ /\ InCall({"refused"})
        /\ Becomes("failed")
        /\ UNCHANGED sandboxPorts
  /\ UNCHANGED <<nodeVars, recordVars, scheduled, remoteVars, now, expired>>

(* The HTTP client's time limit, a caller that went away, a broken connection. *)
GiveUp ==
  /\ InCall({"sent", "done"})
  /\ Cardinality(lost) < MaxLost
  /\ lost' = lost \cup {<<call.op, call.id>>}
  /\ late' = IF InCall({"sent"}) /\ ~Idle(call.op, call.node)
             THEN late \cup {<<call.op, call.id>>} ELSE late
  /\ Becomes("failed")
  /\ UNCHANGED remote
  /\ NodeUnchanged

(* A command that was given up on reaches the node after all, or is dropped. *)
LateCommand(op, id) ==
  /\ <<op, id>> \in late
  /\ late' = late \ {<<op, id>>}
  /\ \/ /\ Doable(op, id)
        /\ remote' = [remote EXCEPT ![id] = Target[op]]
     \/ UNCHANGED remote
  /\ UNCHANGED <<lost, call>>
  /\ NodeUnchanged

(* A container exits or is killed; a Firecracker VM ends with the request that
   created it.  Nobody is told: what is left stays until it is removed. *)
GuestDies(id) ==
  /\ id \in Mortal
  /\ remote[id] \in {"running", "paused"}
  /\ remote' = [remote EXCEPT ![id] = "dead"]
  /\ UNCHANGED <<late, lost, call>>
  /\ NodeUnchanged

-----------------------------------------------------------------------------
(* The operations, after the remote call: bookkeeping, then the unlock. *)

ReserveOnlyCPU(n, id) ==  \* mutant: the memory is not counted
  /\ allocatedCPU' = [allocatedCPU EXCEPT ![n] = @ + Cpu[id]]
  /\ sandboxCount' = [sandboxCount EXCEPT ![n] = @ + 1]
  /\ UNCHANGED allocatedMemory
Reserve(n, id) ==
  /\ allocatedCPU' = [allocatedCPU EXCEPT ![n] = @ + Cpu[id]]
  /\ allocatedMemory' = [allocatedMemory EXCEPT ![n] = @ + Mem[id]]
  /\ sandboxCount' = [sandboxCount EXCEPT ![n] = @ + 1]

ReleaseNothingOnPause(n, id) ==  \* mutant: a paused sandbox gives nothing back
  IF state[id] = "paused"
  THEN UNCHANGED <<allocatedCPU, allocatedMemory, sandboxCount>>
  ELSE /\ allocatedCPU' = [allocatedCPU EXCEPT ![n] = @ - Cpu[id]]
       /\ allocatedMemory' = [allocatedMemory EXCEPT ![n] = @ - Mem[id]]
       /\ sandboxCount' = [sandboxCount EXCEPT ![n] = @ - 1]
Release(n, id) ==
  /\ allocatedCPU' = [allocatedCPU EXCEPT ![n] = @ - Cpu[id]]
  /\ allocatedMemory' = [allocatedMemory EXCEPT ![n] = @ - Mem[id]]
  /\ sandboxCount' = [sandboxCount EXCEPT ![n] = @ - 1]

FinishSchedule ==
  /\ InCall({"ok"})
  /\ call.op = "create"
  /\ state' = [state EXCEPT ![call.id] = "running"]
  /\ nodeOf' = [nodeOf EXCEPT ![call.id] = call.node]
  /\ expiresAt' = [expiresAt EXCEPT ![call.id] = call.expiresAt]
  /\ Reserve(call.node, call.id)
  /\ call' = NoCall
  /\ UNCHANGED <<nodeState, scheduled, sandboxPorts, remoteVars, now, expired>>

FinishStop ==
  /\ InCall({"ok"})
  /\ call.op = "stop"
  /\ Release(call.node, call.id)
  /\ state' = [state EXCEPT ![call.id] = "none"]
  /\ nodeOf' = [nodeOf EXCEPT ![call.id] = NoNode]
  /\ expiresAt' = [expiresAt EXCEPT ![call.id] = 0]
  /\ call' = NoCall
  /\ UNCHANGED <<nodeState, scheduled, sandboxPorts, remoteVars, now, expired>>

(* Resume leaves the deadline of the first start in place. *)
FinishPauseOrResume ==
  /\ InCall({"ok"})
  /\ call.op \in {"pause", "resume"}
  /\ state' = [state EXCEPT ![call.id] = Target[call.op]]
  /\ call' = NoCall
  /\ UNCHANGED <<nodeVars, nodeOf, expiresAt, scheduled, sandboxPorts, remoteVars, now, expired>>

FinishFailedForgets ==  \* mutant: Stop drops the record whatever the node says
  /\ InCall({"failed"})
  /\ IF call.op = "stop"
     THEN /\ Release(call.node, call.id)
          /\ state' = [state EXCEPT ![call.id] = "none"]
          /\ nodeOf' = [nodeOf EXCEPT ![call.id] = NoNode]
          /\ UNCHANGED <<nodeState, expiresAt>>
     ELSE UNCHANGED <<nodeVars, recordVars>>
  /\ call' = NoCall
  /\ UNCHANGED <<scheduled, sandboxPorts, remoteVars, now, expired>>

(* An error of the remote call: nothing is recorded, nothing is undone. *)
FinishFailed ==
  /\ InCall({"failed"})
  /\ call' = NoCall
  /\ UNCHANGED <<nodeVars, recordVars, scheduled, sandboxPorts, remoteVars, now, expired>>

-----------------------------------------------------------------------------
(* The expiration checker. *)

ScanTooSoon ==  \* mutant: a sandbox expires at its deadline, not after it
  /\ Free
  /\ expired = {}
  /\ expired' = {id \in Ids : state[id] = "running" /\ now >= expiresAt[id]}
  /\ UNCHANGED <<nodeVars, recordVars, scheduled, call, sandboxPorts, remoteVars, now>>
ScanForgets ==  \* mutant: only the sandboxes that pause are looked for
  /\ Free
  /\ expired = {}
  /\ expired' = {id \in AutoPause : state[id] = "running" /\ now > expiresAt[id]}
  /\ UNCHANGED <<nodeVars, recordVars, scheduled, call, sandboxPorts, remoteVars, now>>

(* A tick: one pass under the read lock takes the identifiers to retire. *)
Scan ==
  /\ Free
  /\ expired = {}
  /\ expired' = {id \in Ids : state[id] = "running" /\ now > expiresAt[id]}
  /\ UNCHANGED <<nodeVars, recordVars, scheduled, call, sandboxPorts, remoteVars, now>>

(* Then, with the lock given back in between, it retires them one by one.  It
   looks again only at whether the sandbox exists; Pause and Stop refuse what
   they cannot do and their errors are ignored. *)
Retire(id) ==
  /\ Free
  /\ id \in expired
  /\ expired' = expired \ {id}
  /\ IF id \in AutoPause
     THEN \/ Pause(id, "checker")
          \/ state[id] # "running" /\ UNCHANGED <<recordVars, call>>
     ELSE \/ Stop(id, "checker")
          \/ ~CanStop(id) /\ UNCHANGED <<recordVars, call>>
  /\ UNCHANGED <<nodeVars, scheduled, sandboxPorts, remoteVars, now>>

Tick ==
  /\ now < MaxClock
  /\ now' = now + 1
  /\ UNCHANGED <<nodeVars, recordVars, scheduled, call, sandboxPorts, remoteVars, expired>>

-----------------------------------------------------------------------------
(* Exported operations that the program never calls once it serves requests. *)

ExtendTimeout(id, duration) ==
  /\ Free
  /\ state[id] # "none"
  /\ expiresAt' = [expiresAt EXCEPT ![id] = now + duration]
  /\ UNCHANGED <<nodeVars, state, nodeOf, scheduled, call, sandboxPorts, remoteVars, now, expired>>

(* RegisterNode puts a fresh Node in the map, whatever was there. *)
RegisterNode(n) ==
  /\ Free
  /\ nodeState' = [nodeState EXCEPT ![n] = "ready"]
  /\ allocatedCPU' = [allocatedCPU EXCEPT ![n] = 0]
  /\ allocatedMemory' = [allocatedMemory EXCEPT ![n] = 0]
  /\ sandboxCount' = [sandboxCount EXCEPT ![n] = 0]
  /\ UNCHANGED <<recordVars, scheduled, call, sandboxPorts, remoteVars, now, expired>>

UnregisterNode(n) ==
  /\ Free
  /\ nodeState' = [nodeState EXCEPT ![n] = "absent"]
  /\ allocatedCPU' = [allocatedCPU EXCEPT ![n] = 0]
  /\ allocatedMemory' = [allocatedMemory EXCEPT ![n] = 0]
  /\ sandboxCount' = [sandboxCount EXCEPT ![n] = 0]
  /\ UNCHANGED <<recordVars, scheduled, call, sandboxPorts, remoteVars, now, expired>>

-----------------------------------------------------------------------------
(* main registers every node before the server starts. *)
Init ==
  /\ nodeState = [n \in Nodes |-> "ready"]
  /\ allocatedCPU = [n \in Nodes |-> 0]
  /\ allocatedMemory = [n \in Nodes |-> 0]
  /\ sandboxCount = [n \in Nodes |-> 0]
  /\ state = [id \in Ids |-> "none"]
  /\ nodeOf = [id \in Ids |-> NoNode]
  /\ expiresAt = [id \in Ids |-> 0]
  /\ scheduled = {}
  /\ call = NoCall
  /\ sandboxPorts = {}
  /\ remote = [id \in Ids |-> "none"]
  /\ late = {}
  /\ lost = {}
  /\ now = 0
  /\ expired = {}

NodeAnswers == NodeDoes \/ NodeRefuses \/ NodeFailsMidway
FinishOnSuccess == FinishSchedule \/ FinishStop \/ FinishPauseOrResume  \* mutant: no unlock on an error
Finish == FinishSchedule \/ FinishStop \/ FinishPauseOrResume \/ FinishFailed
CallProgress == NodeAnswers \/ ClientReturns \/ GiveUp \/ Finish

(* The program as cmd/api runs it. *)
Next == \/ \E id \in Ids : Schedule(id) \/ UserRequest(id) \/ Retire(id)
        \/ CallProgress
        \/ \E op \in Ops, id \in Ids : LateCommand(op, id)
        \/ \E id \in Ids : GuestDies(id)
        \/ Scan
        \/ Tick

Spec == Init /\ [][Next]_vars

(* Every exported operation, with nodes that come and go. *)
OpenNext == \/ Next
            \/ \E id \in Ids, d \in 0 .. 1 : ExtendTimeout(id, d)
            \/ \E n \in Nodes : RegisterNode(n) \/ UnregisterNode(n)

OpenSpec == Init /\ [][OpenNext]_vars

(* The ticker ticks and Go's RWMutex lets every waiter in, so the checker is
   not kept out of the lock (SF: the lock is free again and again, not for
   good).  A remote call ends, by the HTTP client's time limit if need be.  A
   node that is asked again and again carries out what it can; to stop what is
   not there is an error of the SDK and the Firecracker runtime. *)
SuccessOf(id) == /\ call.phase = "sent" /\ call.id = id
                 /\ call.op = "stop" => remote[id] # "none"
                 /\ NodeDoes

Fairness == /\ WF_vars(Tick)
            /\ SF_vars(Scan)
            /\ \A id \in Ids : SF_vars(Retire(id))
            /\ WF_vars(CallProgress)
            /\ \A id \in Ids : SF_vars(SuccessOf(id))

FairSpec == Spec /\ Fairness

-----------------------------------------------------------------------------
(* Properties. *)

TypeOK ==
  /\ nodeState \in [Nodes -> {"absent", "ready"}]
  /\ allocatedCPU \in [Nodes -> Int]
  /\ allocatedMemory \in [Nodes -> Int]
  /\ sandboxCount \in [Nodes -> Int]
  /\ state \in [Ids -> {"none", "running", "paused"}]
  /\ nodeOf \in [Ids -> Nodes \cup {NoNode}]
  /\ expiresAt \in [Ids -> Int]
  /\ scheduled \subseteq Ids
  /\ call \in Call \cup {NoCall}
  /\ sandboxPorts \subseteq Ids
  /\ remote \in [Ids -> {"none", "running", "paused", "dead"}]
  /\ late \subseteq Ops \X Ids
  /\ lost \subseteq Ops \X Ids
  /\ now \in Nat
  /\ expired \subseteq Ids

Recorded == {id \in Ids : state[id] # "none"}
On(n) == {id \in Recorded : nodeOf[id] = n}

(* The counters of a node are exactly what the sandboxes recorded on it take:
   every reservation made by Schedule is given back once, by Stop, whatever
   fails on the way. *)
Accounting == \A n \in Nodes : /\ allocatedCPU[n] = LoadOf(On(n), Cpu)
                               /\ allocatedMemory[n] = LoadOf(On(n), Mem)
                               /\ sandboxCount[n] = Cardinality(On(n))

(* What the negative demands among those made so far have given. *)
GivenCpu == Given(scheduled, Cpu)
GivenMem == Given(scheduled, Mem)

(* selectNode reserves nothing before the remote call; the lock held across
   it is what keeps two creations from taking the same room.  No demand is
   checked (api/store.go): a negative one makes room that is gone when its
   sandbox ends, and only by as much a node is booked beyond its capacity, or a
   counter is negative. *)
CapacityRespected ==
  \A n \in Nodes : /\ allocatedCPU[n] \in (0 - GivenCpu) .. (CpuCap[n] + GivenCpu)
                   /\ allocatedMemory[n] \in (0 - GivenMem) .. (MemCap[n] + GivenMem)

Uncertain(id) == \E op \in Ops : <<op, id>> \in lost
Effective(id) == InCall({"done", "ok"}) /\ call.id = id

(* What a node holds of a sandbox that is, or is about to be, recorded as s on
   node n: the same, or a running guest where pausing does nothing.  Or the
   remains of a guest that died, which nobody reports. *)
Expected(s, n) == IF s = "paused" /\ n \in SdkNodes THEN "running" ELSE s
Explains(s, n, held) == held = Expected(s, n) \/ (held = "dead" /\ s # "none")

(* Unless an outcome was lost, the scheduler's record of a sandbox explains what
   its node holds; during a call, what the command makes of the record.  So
   nothing unrecorded runs, nothing recorded is missing, and on a node that can
   pause nothing runs that is recorded as paused, or the other way round. *)
Agreement ==
  \A id \in Ids : ~Uncertain(id) =>
    IF Effective(id) THEN Explains(Target[call.op], call.node, remote[id])
    ELSE Explains(state[id], nodeOf[id], remote[id])

(* A sandbox the scheduler does not know runs on a node only because the
   outcome of its own creation was lost: no other sequence of stops, pauses,
   resumes, retries and late commands leaves one behind. *)
OrphansComeFromLostCreates ==
  \A id \in Ids : (remote[id] # "none" /\ state[id] = "none" /\ ~Effective(id))
                     => <<"create", id>> \in lost

(* The client's table of locations, under a lock of its own, names the
   recorded sandboxes, but for the call that is about to be booked. *)
RoutesMatchRecords ==
  sandboxPorts = IF ~InCall({"ok"}) THEN Recorded
                 ELSE CASE call.op = "create" -> Recorded \cup {call.id}
                        [] call.op = "stop"   -> Recorded \ {call.id}
                        [] OTHER              -> Recorded

(* The checker works on a snapshot taken before it gave the lock back, and
   still issues no command for a sandbox whose deadline has not passed. *)
CheckerSparesTheLiving ==
  [][ Free /\ call'.phase # "idle" /\ call'.by = "checker"
        => now > expiresAt[call'.id] ]_vars

(* An expired sandbox is stopped or paused in the end, however often its node
   refuses; one whose pause took effect unnoticed, or whose guest is dead, cannot
   be paused again. *)
ExpiredIsRetired ==
  \A id \in Ids : (state[id] = "running" /\ now > expiresAt[id])
                    ~> \/ state[id] # "running"
                       \/ <<"pause", id>> \in lost \/ <<"stop", id>> \in lost
                       \/ id \in AutoPause /\ remote[id] = "dead"

(* README.md, "Resume a paused sandbox" with a timeout: a sandbox that has been
   resumed has time left before the checker takes it. *)
ResumedHasTimeLeft ==
  [][\A id \in Ids : state[id] = "paused" /\ state'[id] = "running" => now <= expiresAt'[id]]_vars

(* Every operation gives the scheduler's lock back. *)
LockIsReleased == []<>Free

(* Nodes that come and go forget reservations, and never invent any: no node
   is ever fuller for the scheduler than the sandboxes recorded on it, but for
   what negative demands have given. *)
NeverOvercounts == \A n \in Nodes : /\ allocatedCPU[n] <= LoadOf(On(n), Cpu) + GivenCpu
                                    /\ allocatedMemory[n] <= LoadOf(On(n), Mem) + GivenMem
                                    /\ sandboxCount[n] <= Cardinality(On(n))

(* ------------------ The abstract specification ------------------------- *)
Life == [id \in Ids |->
           IF state[id] # "none" THEN state[id]
           ELSE IF id \notin scheduled \/ (~Free /\ call.id = id) THEN "unborn"
           ELSE "gone"]

P == INSTANCE Placement WITH life <- Life, place <- nodeOf

(* The scheduler implements the abstract placement: one life per sandbox, on
   one node, within the capacity computed from the sandboxes placed there. *)
ImplementsPlacement == P!Spec

(* What the nodes run, as one life per sandbox.  It can still begin as long as
   its creation is on its way to a node, or was given up and not dropped. *)
Creating(id) == InCall({"sent"}) /\ call.op = "create" /\ call.id = id
MachineLife == [id \in Ids |->
                  IF remote[id] = "dead" THEN "gone"
                  ELSE IF remote[id] # "none" THEN remote[id]
                  ELSE IF id \notin scheduled \/ Creating(id) \/ <<"create", id>> \in late
                  THEN "unborn" ELSE "gone"]

M == INSTANCE Lifecycle WITH life <- MachineLife

(* A node starts a sandbox at most once and none comes back after its end or death,
   however late commands arrive and whatever answers were lost (NodeOperations). *)
MachinesLiveOnce == M!Spec
=============================================================================
