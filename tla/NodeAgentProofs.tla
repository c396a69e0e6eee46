--------------------------- MODULE NodeAgentProofs ---------------------------
(***************************************************************************)
(* Theorems about the node agent over each of its runtimes, for any number *)
(* of sandboxes and calls, and any bounds on ports and faults: its types,  *)
(* its ports, its disk files, and the sandboxes that run on the node.      *)
(***************************************************************************)
EXTENDS NodeAgent, TLAPS

Pooled(p) == \E i \in 1 .. Len(pool) : pool[i] = p

\* The docker runtime's ports: each number is drawn once, and is then in the
\* table or in the pool, not both, and at no second entry; what holds the port
\* of an entry is its sandbox; as long as the runtime has lost nothing, what holds
\* a port is in the table with it; and what holds a port is alive, so that the
\* end of the process notes it as lost.
TablePortsAreDrawn ==
  \A id \in Ids : entry[id] # "none" => envdPort[id] \in 0 .. nextPort - 1 /\ ~Pooled(envdPort[id])
TablePortsDiffer ==
  \A id, jd \in Ids :
    entry[id] # "none" /\ entry[jd] # "none" /\ envdPort[id] = envdPort[jd] => id = jd
HoldersMatch ==
  \A id, jd \in Ids : entry[id] # "none" /\ holds[jd] = envdPort[id] => id = jd
HoldersAreListed ==
  lost = {} => \A id \in Ids : holds[id] # NoPort => entry[id] # "none" /\ envdPort[id] = holds[id]
HoldersAreAlive == \A id \in Ids : holds[id] # NoPort => guest[id] \in Alive

PortInv == /\ TablePortsAreDrawn /\ TablePortsDiffer
           /\ HoldersMatch /\ HoldersAreListed /\ HoldersAreAlive
           /\ watched = {}

IInv == TypeOK /\ (runtime = "docker" => PortInv)

-----------------------------------------------------------------------------
(* A call that is not idle is one of a sandbox, and stays one when it moves on. *)
LEMMA CallShape ==
  ASSUME TypeOK, NEW c \in Calls, call[c].at # "idle" \/ call[c].op # "none"
  PROVE  /\ call[c] \in InProgress
         /\ call[c].id \in Ids
         /\ [call[c] EXCEPT !.live = FALSE] \in InProgress
         /\ \A at \in Steps : [call[c] EXCEPT !.at = at] \in InProgress
<1>1. call[c] \in InProgress
  BY DEF TypeOK, CallsTypeOK, Idle
<1>. QED
  BY <1>1 DEF InProgress

PoolTypeOK == nextPort \in 0 .. MaxPorts /\ pool \in Seq(0 .. nextPort - 1) /\ IsInjective(pool)
FilesTypeOK ==
  /\ rootfs \in [Ids -> {"none", "unfinished", "partial", "whole", "emptied"}]
  /\ base \in {"none", "partial", "whole"}
  /\ hosts \subseteq Ids /\ watched \subseteq Ids
  /\ stuck \subseteq Ids /\ torn \in BOOLEAN /\ untidy \in BOOLEAN
RestTypeOK ==
  /\ runtime \in Runtimes
  /\ lock \in [Calls -> Sdk!LockStates]
  /\ faults \in 0 .. MaxFaults[runtime]

LEMMA FaultType ==
  ASSUME TypeOK, Fault \/ UNCHANGED faults, UNCHANGED runtime
  PROVE  faults' \in 0 .. MaxFaults[runtime']
  BY BoundsAssumption DEF TypeOK, Fault

(* The agent's own steps. *)
LEMMA ReceiveType ==
  ASSUME TypeOK, NEW c \in Calls, NEW op \in Operations, NEW id \in Ids, Receive(c, op, id)
  PROVE  TypeOK'
<1>1. call' \in [Calls -> InProgress \cup {Idle}] /\ disturbed' \subseteq Ids
  BY DEF Receive, Begin, TypeOK, CallsTypeOK, InProgress, Idle, Steps
<1>2. CallsTypeOK'
  BY <1>1 DEF Receive, TypeOK, CallsTypeOK
<1>3. PoolTypeOK' /\ FilesTypeOK' /\ RestTypeOK'
  BY DEF Receive, TypeOK, PoolTypeOK, FilesTypeOK, RestTypeOK, ports
<1>. QED
  BY <1>2, <1>3 DEF TypeOK, PoolTypeOK, FilesTypeOK, RestTypeOK

LEMMA AnswerType ==
  ASSUME TypeOK, NEW c \in Calls, Confirm(c) \/ Answer(c)
  PROVE  TypeOK'
<1>1. call[c].id \in Ids
  BY CallShape DEF Confirm, Answer, At
<1>2. CallsTypeOK'
  <2>1. call' \in [Calls -> InProgress \cup {Idle}]
    BY DEF Confirm, Answer, Tell, Return, TypeOK, CallsTypeOK
  <2>2. told' \in [Ids -> {"nothing", "started", "failed", "unheard", "stopped"}]
    <3>1. told' = told \/ \E a \in {"started", "failed", "unheard"} : told' = [told EXCEPT ![call[c].id] = a]
                       \/ told' = [told EXCEPT ![call[c].id] = @]
      BY DEF Confirm, Answer, Tell
    <3>. QED
      BY <1>1, <3>1 DEF TypeOK, CallsTypeOK
  <2>3. UNCHANGED <<entry, envdPort, guest, holds, disturbed, lost>>
    BY DEF Confirm, Answer
  <2> QED
    BY <2>1, <2>2, <2>3 DEF TypeOK, CallsTypeOK
<1>3. PoolTypeOK' /\ FilesTypeOK' /\ RestTypeOK'
  BY DEF Confirm, Answer, TypeOK, PoolTypeOK, FilesTypeOK, RestTypeOK, ports, files
<1>. QED
  BY <1>2, <1>3 DEF TypeOK, PoolTypeOK, FilesTypeOK, RestTypeOK

LEMMA AgentStopsType ==
  ASSUME TypeOK, AgentStops
  PROVE  TypeOK'
<1>1. CallsTypeOK'
  BY DEF AgentStops, TypeOK, CallsTypeOK, States
<1>2. PoolTypeOK'
  BY BoundsAssumption DEF AgentStops, PoolTypeOK, IsInjective
<1>3. FilesTypeOK'
  BY DEF AgentStops, TypeOK, FilesTypeOK
<1>4. RestTypeOK'
  BY FaultType DEF AgentStops, TypeOK, RestTypeOK, Sdk!LockStates
<1>. QED
  BY <1>1, <1>2, <1>3, <1>4 DEF TypeOK, PoolTypeOK, FilesTypeOK, RestTypeOK

LEMMA WorldType ==
  ASSUME TypeOK,
         (\E id \in Ids : GuestDies(id) \/ VmKilled(id)) \/ (\E c \in Calls : RequestEnds(c))
  PROVE  TypeOK'
<1>1. CASE \E id \in Ids : GuestDies(id)
  <2>1. CallsTypeOK'
    BY <1>1 DEF GuestDies, SetGuest, TypeOK, CallsTypeOK
  <2>2. PoolTypeOK' /\ FilesTypeOK' /\ RestTypeOK'
    BY <1>1, FaultType DEF GuestDies, TypeOK, PoolTypeOK, FilesTypeOK, RestTypeOK, ports
  <2>. QED
    BY <2>1, <2>2 DEF TypeOK, PoolTypeOK, FilesTypeOK, RestTypeOK
<1>2. CASE \E id \in Ids : VmKilled(id)
  <2>1. CallsTypeOK'
    BY <1>2 DEF VmKilled, Firecracker!ContextKills, Firecracker!SetGuest, TypeOK, CallsTypeOK
  <2>2. PoolTypeOK' /\ FilesTypeOK' /\ RestTypeOK'
    BY <1>2 DEF VmKilled, Firecracker!ContextKills, TypeOK, PoolTypeOK, FilesTypeOK, RestTypeOK
  <2>. QED
    BY <2>1, <2>2 DEF TypeOK, PoolTypeOK, FilesTypeOK, RestTypeOK
<1>3. CASE \E c \in Calls : RequestEnds(c)
  <2>0. PICK c \in Calls : RequestEnds(c)
    BY <1>3
  <2>1. CallsTypeOK'
    <3>1. [call[c] EXCEPT !.live = FALSE] \in InProgress
      BY <2>0, CallShape DEF RequestEnds, Changes
    <3>. QED
      BY <2>0, <3>1 DEF RequestEnds, TypeOK, CallsTypeOK
  <2>2. PoolTypeOK' /\ FilesTypeOK' /\ RestTypeOK'
    BY <1>3, FaultType DEF RequestEnds, TypeOK, PoolTypeOK, FilesTypeOK, RestTypeOK, ports
  <2>. QED
    BY <2>1, <2>2 DEF TypeOK, PoolTypeOK, FilesTypeOK, RestTypeOK
<1>. QED
  BY <1>1, <1>2, <1>3

-----------------------------------------------------------------------------
(* A call that moves on or returns, and what its caller is told. *)
Moves(c) == \/ call' = [call EXCEPT ![c] = Idle]
            \/ \E at \in Steps : call' = [call EXCEPT ![c].at = at]

LEMMA MoveType ==
  ASSUME TypeOK, NEW c \in Calls, call[c].at # "idle", Moves(c)
  PROVE  call' \in [Calls -> InProgress \cup {Idle}]
<1>1. CASE call' = [call EXCEPT ![c] = Idle]
  BY <1>1 DEF TypeOK, CallsTypeOK
<1>2. CASE \E at \in Steps : call' = [call EXCEPT ![c].at = at]
  <2>1. PICK at \in Steps : call' = [call EXCEPT ![c].at = at]
    BY <1>2
  <2>2. [call[c] EXCEPT !.at = at] \in InProgress
    BY CallShape
  <2>. QED
    BY <2>1, <2>2 DEF TypeOK, CallsTypeOK
<1>. QED
  BY <1>1, <1>2 DEF Moves

Answers == {"nothing", "started", "failed", "unheard", "stopped"}

(* The docker SDK runtime. *)
LEMMA SdkType ==
  ASSUME TypeOK, NEW c \in Calls, Sdk!Step(c)
  PROVE  CallsTypeOK' /\ lock' \in [Calls -> Sdk!LockStates]
<1> DEFINE id == call[c].id
<1>1. call[c].at # "idle" /\ id \in Ids
  BY CallShape DEF Sdk!Step, Sdk!Announce, Sdk!RLock, Sdk!CreateSandbox, Sdk!StopSandbox,
                   Sdk!PauseOrResumeSandbox, Sdk!GetSandboxStatus, Sdk!ExecCommand, Sdk!At, Sdk!Changes
<1>2. lock' \in [Calls -> Sdk!LockStates]
  BY DEF Sdk!Step, Sdk!Announce, Sdk!RLock, Sdk!CreateSandbox, Sdk!StopSandbox,
         Sdk!PauseOrResumeSandbox, Sdk!GetSandboxStatus, Sdk!ExecCommand, Sdk!Unlock, Sdk!RUnlock,
         Sdk!LockStates, TypeOK
<1>3. CASE Sdk!Announce(c) \/ Sdk!RLock(c)
  BY <1>2, <1>3 DEF Sdk!Announce, Sdk!RLock, Sdk!agentVars, TypeOK, CallsTypeOK
<1>4. CASE Sdk!CreateSandbox(c)
  <2>1. Moves(c)
    BY <1>4 DEF Sdk!CreateSandbox, Sdk!Tell, Sdk!Return, Sdk!Goto, Sdk!Idle, Moves, Idle, Steps
  <2>2. told' \in [Ids -> Answers]
    BY <1>1, <1>4 DEF Sdk!CreateSandbox, Sdk!Tell, TypeOK, CallsTypeOK, Answers
  <2>3. /\ guest' \in [Ids -> States \cup {"created", "dead"}]
        /\ entry' \in [Ids -> States]
    <3>1. /\ \E s \in {"none", "created", "running"} : guest' = [guest EXCEPT ![call[c].id] = s]
          /\ entry' = entry \/ entry' = [entry EXCEPT ![call[c].id] = "running"]
      BY <1>4 DEF Sdk!CreateSandbox, Sdk!SetGuest, Sdk!SetEntry, Sdk!Started
    <3>2. guest' \in [Ids -> States \cup {"created", "dead"}]
      BY <1>1, <3>1 DEF TypeOK, CallsTypeOK, States
    <3>3. entry' \in [Ids -> States]
      BY <1>1, <3>1 DEF TypeOK, CallsTypeOK, States
    <3>. QED
      BY <3>2, <3>3
  <2>4. disturbed' \subseteq Ids /\ lost' \subseteq Ids
    BY <1>1, <1>4 DEF Sdk!CreateSandbox, TypeOK, CallsTypeOK
  <2>5. CASE UNCHANGED <<envdPort, holds>>
    BY <1>1, <1>2, <2>1, <2>2, <2>3, <2>4, <2>5, MoveType DEF TypeOK, CallsTypeOK, Answers
  <2>6. CASE ~UNCHANGED <<envdPort, holds>>
    <3>1. PICK p \in Ports : /\ holds' = [holds EXCEPT ![id] = p]
                             /\ envdPort' \in {envdPort, [envdPort EXCEPT ![id] = p]}
      BY <1>4, <2>6 DEF Sdk!CreateSandbox, Sdk!Started, Sdk!Ports, Ports
    <3>2. /\ envdPort' \in [Ids -> Ports \cup {NoPort}]
          /\ holds' \in [Ids -> Ports \cup {NoPort}]
      BY <1>1, <3>1 DEF TypeOK, CallsTypeOK
    <3>. QED
      BY <1>1, <1>2, <2>1, <2>2, <2>3, <2>4, <3>2, MoveType DEF CallsTypeOK, Answers
  <2>. QED
    BY <2>5, <2>6
<1>5. CASE Sdk!StopSandbox(c)
  <2>1. Moves(c)
    BY <1>5 DEF Sdk!StopSandbox, Sdk!Tell, Sdk!Return, Sdk!Idle, Moves, Idle
  <2>2. told' \in [Ids -> Answers]
    BY <1>1, <1>5 DEF Sdk!StopSandbox, Sdk!Tell, TypeOK, CallsTypeOK, Answers
  <2>3. /\ guest' \in [Ids -> States \cup {"created", "dead"}]
        /\ holds' \in [Ids -> Ports \cup {NoPort}]
    BY <1>1, <1>5 DEF Sdk!StopSandbox, Sdk!Removed, Sdk!SetGuest, Sdk!NoPort, NoPort, TypeOK,
                      CallsTypeOK, States
  <2>4. disturbed' \subseteq Ids /\ UNCHANGED <<entry, envdPort, lost>>
    BY <1>1, <1>5 DEF Sdk!StopSandbox, TypeOK, CallsTypeOK
  <2>. QED
    BY <1>1, <1>2, <2>1, <2>2, <2>3, <2>4, MoveType DEF TypeOK, CallsTypeOK, Answers
<1>6. CASE Sdk!PauseOrResumeSandbox(c) \/ Sdk!ExecCommand(c) \/ Sdk!GetSandboxStatus(c)
  <2>1. call' = call \/ Moves(c)
    BY <1>6 DEF Sdk!PauseOrResumeSandbox, Sdk!ExecCommand, Sdk!GetSandboxStatus, Sdk!Tell, Sdk!Return,
                Sdk!Goto, Sdk!Idle, Moves, Idle, Steps, Sdk!agentVars
  <2>2. told' \in [Ids -> Answers]
    BY <1>1, <1>6 DEF Sdk!PauseOrResumeSandbox, Sdk!ExecCommand, Sdk!GetSandboxStatus, Sdk!Tell,
                      Sdk!agentVars, TypeOK, CallsTypeOK, Answers
  <2>3. UNCHANGED <<entry, envdPort, guest, holds, disturbed, lost>>
    BY <1>6 DEF Sdk!PauseOrResumeSandbox, Sdk!ExecCommand, Sdk!GetSandboxStatus, Sdk!agentVars
  <2>. QED
    BY <1>1, <1>2, <2>1, <2>2, <2>3, MoveType DEF TypeOK, CallsTypeOK, Answers
<1>. QED
  BY <1>3, <1>4, <1>5, <1>6, <1>2 DEF Sdk!Step

(* The Firecracker runtime. *)
LEMMA FirecrackerCallType ==
  ASSUME TypeOK, NEW c \in Calls, Firecracker!Step(c)
  PROVE  /\ call[c].at # "idle" /\ call[c].id \in Ids
         /\ call' \in [Calls -> InProgress \cup {Idle}]
<1>1. call[c].at # "idle" /\ call[c].id \in Ids
  BY CallShape
     DEF Firecracker!Step, Firecracker!PrepareRootfs, Firecracker!SaveBase, Firecracker!InjectEnvd,
         Firecracker!StartVm, Firecracker!Boot, Firecracker!StopSandbox, Firecracker!Shutdown,
         Firecracker!WriteHosts, Firecracker!RewriteHosts, Firecracker!PauseVm,
         Firecracker!CreateSnapshot, Firecracker!ResumeSandbox, Firecracker!ResumeVm, Firecracker!At
<1>2. CASE Firecracker!Shutdown(c)
  <2> DEFINE moved == [call EXCEPT ![c].at = "writeHosts"]
  <2>1. call' = [moved EXCEPT ![c].seen = hosts]
    BY <1>2 DEF Firecracker!Shutdown
  <2>2. [call[c] EXCEPT !.at = "writeHosts"] \in InProgress
    BY <1>1, CallShape DEF Steps
  <2>3. moved \in [Calls -> InProgress \cup {Idle}] /\ moved[c] \in InProgress
    BY <2>2 DEF TypeOK, CallsTypeOK
  <2>4. [moved[c] EXCEPT !.seen = hosts] \in InProgress
    <3> HIDE DEF moved
    <3>1. hosts \in SUBSET Ids
      BY DEF TypeOK
    <3>. QED
      BY <2>3, <3>1 DEF InProgress
  <2> HIDE DEF moved
  <2>. QED
    BY <1>1, <2>1, <2>3, <2>4
<1>3. CASE ~Firecracker!Shutdown(c)
  <2>1. Moves(c)
    BY <1>3
       DEF Firecracker!Step, Firecracker!PrepareRootfs, Firecracker!SaveBase, Firecracker!InjectEnvd,
           Firecracker!StartVm, Firecracker!Boot, Firecracker!StopSandbox,
           Firecracker!WriteHosts, Firecracker!RewriteHosts, Firecracker!PauseVm,
           Firecracker!CreateSnapshot, Firecracker!ResumeSandbox, Firecracker!ResumeVm,
           Firecracker!CleanUp, Firecracker!Goto, Firecracker!Return, Firecracker!Tell,
           Firecracker!Idle, Idle, Moves, Steps
  <2>. QED
    BY <1>1, <2>1, MoveType
<1>. QED
  BY <1>1, <1>2, <1>3

LEMMA FirecrackerTableType ==
  ASSUME TypeOK, NEW c \in Calls, Firecracker!Step(c)
  PROVE  /\ entry' \in [Ids -> States]
         /\ guest' \in [Ids -> States \cup {"created", "dead"}]
         /\ told' \in [Ids -> Answers]
         /\ disturbed' \subseteq Ids /\ lost' \subseteq Ids
         /\ UNCHANGED <<envdPort, holds>>
<1>1. call[c].id \in Ids
  BY FirecrackerCallType
<1>2. entry' \in [Ids -> States] /\ UNCHANGED <<envdPort, holds>>
  BY <1>1
     DEF Firecracker!Step, Firecracker!PrepareRootfs, Firecracker!SaveBase, Firecracker!InjectEnvd,
         Firecracker!StartVm, Firecracker!Boot, Firecracker!StopSandbox, Firecracker!Shutdown,
         Firecracker!WriteHosts, Firecracker!RewriteHosts, Firecracker!PauseVm,
         Firecracker!CreateSnapshot, Firecracker!ResumeSandbox, Firecracker!ResumeVm,
         Firecracker!SetEntry, Firecracker!Marked, Firecracker!unchangedByDisk, TypeOK, CallsTypeOK,
         States
<1>3. guest' \in [Ids -> States \cup {"created", "dead"}]
  BY <1>1
     DEF Firecracker!Step, Firecracker!PrepareRootfs, Firecracker!SaveBase, Firecracker!InjectEnvd,
         Firecracker!StartVm, Firecracker!Boot, Firecracker!StopSandbox, Firecracker!Shutdown,
         Firecracker!WriteHosts, Firecracker!RewriteHosts, Firecracker!PauseVm,
         Firecracker!CreateSnapshot, Firecracker!ResumeSandbox, Firecracker!ResumeVm,
         Firecracker!SetGuest, Firecracker!unchangedByDisk, TypeOK, CallsTypeOK, States
<1>4. told' \in [Ids -> Answers]
  BY <1>1
     DEF Firecracker!Step, Firecracker!PrepareRootfs, Firecracker!SaveBase, Firecracker!InjectEnvd,
         Firecracker!StartVm, Firecracker!Boot, Firecracker!StopSandbox, Firecracker!Shutdown,
         Firecracker!WriteHosts, Firecracker!RewriteHosts, Firecracker!PauseVm,
         Firecracker!CreateSnapshot, Firecracker!ResumeSandbox, Firecracker!ResumeVm,
         Firecracker!CleanUp, Firecracker!Tell, TypeOK, CallsTypeOK, Answers
<1>5. disturbed' \subseteq Ids /\ lost' \subseteq Ids
  BY <1>1
     DEF Firecracker!Step, Firecracker!PrepareRootfs, Firecracker!SaveBase, Firecracker!InjectEnvd,
         Firecracker!StartVm, Firecracker!Boot, Firecracker!StopSandbox, Firecracker!Shutdown,
         Firecracker!WriteHosts, Firecracker!RewriteHosts, Firecracker!PauseVm,
         Firecracker!CreateSnapshot, Firecracker!ResumeSandbox, Firecracker!ResumeVm,
         Firecracker!unchangedByDisk, TypeOK, CallsTypeOK
<1>. QED
  BY <1>2, <1>3, <1>4, <1>5

LEMMA FirecrackerFilesType ==
  ASSUME TypeOK, NEW c \in Calls, Firecracker!Step(c)
  PROVE  FilesTypeOK'
<1>1. call[c].id \in Ids /\ call[c] \in InProgress
  BY FirecrackerCallType, CallShape
<1>2. call[c].seen \subseteq Ids
  BY <1>1 DEF InProgress
<1>3. /\ rootfs' \in [Ids -> {"none", "unfinished", "partial", "whole", "emptied"}]
      /\ base' \in {"none", "partial", "whole"}
  BY <1>1
     DEF Firecracker!Step, Firecracker!PrepareRootfs, Firecracker!SaveBase, Firecracker!InjectEnvd,
         Firecracker!StartVm, Firecracker!Boot, Firecracker!StopSandbox, Firecracker!Shutdown,
         Firecracker!WriteHosts, Firecracker!RewriteHosts, Firecracker!PauseVm,
         Firecracker!CreateSnapshot, Firecracker!ResumeSandbox, Firecracker!ResumeVm,
         Firecracker!CleanUp, Firecracker!Disk, Firecracker!UnmountFails,
         Firecracker!TemplateImages, Firecracker!files, TypeOK
<1>4. /\ hosts' \subseteq Ids /\ watched' \subseteq Ids
      /\ torn' \in BOOLEAN /\ untidy' \in BOOLEAN
  BY <1>1, <1>2
     DEF Firecracker!Step, Firecracker!PrepareRootfs, Firecracker!SaveBase, Firecracker!InjectEnvd,
         Firecracker!StartVm, Firecracker!Boot, Firecracker!StopSandbox, Firecracker!Shutdown,
         Firecracker!WriteHosts, Firecracker!RewriteHosts, Firecracker!PauseVm,
         Firecracker!CreateSnapshot, Firecracker!ResumeSandbox, Firecracker!ResumeVm,
         Firecracker!unchangedByDisk, Firecracker!files, TypeOK
<1>5. stuck' \subseteq Ids
  BY <1>1
     DEF Firecracker!Step, Firecracker!PrepareRootfs, Firecracker!SaveBase, Firecracker!InjectEnvd,
         Firecracker!StartVm, Firecracker!Boot, Firecracker!StopSandbox, Firecracker!Shutdown,
         Firecracker!WriteHosts, Firecracker!RewriteHosts, Firecracker!PauseVm,
         Firecracker!CreateSnapshot, Firecracker!ResumeSandbox, Firecracker!ResumeVm,
         Firecracker!UnmountFails, Firecracker!files, TypeOK
<1>. QED
  BY <1>3, <1>4, <1>5 DEF FilesTypeOK

-----------------------------------------------------------------------------
(* The docker runtime's ports (allocatePort, releasePort).  A port that is drawn
   was in the pool or is a new number, and leaves the pool. *)
LEMMA DrawPort ==
  ASSUME TypeOK, Docker!Drawn \in Ports, Docker!Draw
  PROVE  /\ nextPort' \in 0 .. MaxPorts /\ nextPort <= nextPort'
         /\ Docker!Drawn \in 0 .. nextPort' - 1
         /\ Docker!PoolAfter \in Seq(0 .. nextPort' - 1)
         /\ IsInjective(Docker!PoolAfter)
         /\ \A i \in 1 .. Len(Docker!PoolAfter) :
              Pooled(Docker!PoolAfter[i]) /\ Docker!PoolAfter[i] # Docker!Drawn
         /\ Pooled(Docker!Drawn) \/ Docker!Drawn = nextPort
<1>0. /\ nextPort \in Nat /\ nextPort <= MaxPorts /\ MaxPorts \in Nat
      /\ pool \in Seq(0 .. nextPort - 1) /\ \A i, j \in 1 .. Len(pool) : pool[i] = pool[j] => i = j
  BY BoundsAssumption DEF TypeOK, IsInjective
<1>1. CASE pool # <<>>
  <2>1. Docker!Drawn = Head(pool) /\ Docker!PoolAfter = Tail(pool) /\ nextPort' = nextPort
    BY <1>1 DEF Docker!Drawn, Docker!PoolAfter, Docker!Draw
  <2>2. /\ Len(pool) \in Nat \ {0} /\ Head(pool) = pool[1] /\ pool[1] \in 0 .. nextPort - 1
        /\ Tail(pool) \in Seq(0 .. nextPort - 1) /\ Len(Tail(pool)) = Len(pool) - 1
        /\ \A i \in 1 .. Len(Tail(pool)) : Tail(pool)[i] = pool[i + 1]
    BY <1>0, <1>1
  <2>3. \A i \in 1 .. Len(Tail(pool)) : i + 1 \in 1 .. Len(pool) /\ i + 1 # 1
    BY <2>2
  <2>4. \A i, j \in 1 .. Len(Tail(pool)) : Tail(pool)[i] = Tail(pool)[j] => i = j
    BY <1>0, <2>2, <2>3
  <2>5. IsInjective(Tail(pool))
    BY <2>2, <2>4 DEF IsInjective
  <2>6. 1 \in 1 .. Len(pool) /\ Pooled(Head(pool))
    BY <2>2 DEF Pooled
  <2>7. \A i \in 1 .. Len(Tail(pool)) : Pooled(Tail(pool)[i]) /\ Tail(pool)[i] # Head(pool)
    BY <1>0, <2>2, <2>3, <2>6 DEF Pooled
  <2>. QED
    BY <1>0, <2>1, <2>2, <2>5, <2>6, <2>7
<1>2. CASE pool = <<>>
  <2>1. Docker!Drawn = nextPort /\ Docker!PoolAfter = pool /\ nextPort' = nextPort + 1
    BY <1>2 DEF Docker!Drawn, Docker!PoolAfter, Docker!Draw
  <2>2. nextPort + 1 <= MaxPorts
    BY <1>0, <2>1 DEF Ports
  <2>3. Len(pool) = 0 /\ <<>> \in Seq(0 .. nextPort)
    BY <1>2
  <2>4. IsInjective(pool)
    BY DEF TypeOK
  <2>. QED
    BY <1>0, <1>2, <2>1, <2>2, <2>3, <2>4
<1>. QED
  BY <1>1, <1>2

(* A port that is given back joins those that the pool has. *)
LEMMA ReleasePort ==
  ASSUME NEW m \in Nat, NEW rest \in Seq(0 .. m - 1), IsInjective(rest), NEW p \in 0 .. m - 1,
         \A i \in 1 .. Len(rest) : rest[i] # p, Docker!releasePort(rest, p)
  PROVE  /\ pool' \in Seq(0 .. m - 1)
         /\ IsInjective(pool')
         /\ \A i \in 1 .. Len(pool') : pool'[i] = p \/ \E j \in 1 .. Len(rest) : pool'[i] = rest[j]
<1>1. pool' = Append(rest, p)
  BY DEF Docker!releasePort
<1>2. /\ Len(rest) \in Nat /\ Append(rest, p) \in Seq(0 .. m - 1)
      /\ Len(Append(rest, p)) = Len(rest) + 1
      /\ Append(rest, p)[Len(rest) + 1] = p
      /\ \A i \in 1 .. Len(rest) : Append(rest, p)[i] = rest[i]
  OBVIOUS
<1>3. \A i \in 1 .. Len(Append(rest, p)) : i \in 1 .. Len(rest) \/ i = Len(rest) + 1
  BY <1>2
<1>4. \A i, j \in 1 .. Len(rest) : rest[i] = rest[j] => i = j
  BY DEF IsInjective
<1>5. \A i, j \in 1 .. Len(Append(rest, p)) : Append(rest, p)[i] = Append(rest, p)[j] => i = j
  BY <1>2, <1>3, <1>4
<1>6. IsInjective(Append(rest, p))
  BY <1>2, <1>5 DEF IsInjective
<1>. QED
  BY <1>1, <1>2, <1>3, <1>6

-----------------------------------------------------------------------------
(* The docker runtime. *)
LEMMA DockerCallType ==
  ASSUME TypeOK, NEW c \in Calls, Docker!Step(c)
  PROVE  /\ call[c].id \in Ids
         /\ call' \in [Calls -> InProgress \cup {Idle}]
<1>1. call[c].at # "idle" /\ call[c].id \in Ids
  BY CallShape
     DEF Docker!Step, Docker!CreateSandbox, Docker!StopSandbox, Docker!PauseSandbox,
         Docker!ResumeSandbox, Docker!Mark, Docker!At
<1>2. Moves(c)
  BY DEF Docker!Step, Docker!CreateSandbox, Docker!RunSucceeds, Docker!RunFails, Docker!StopSandbox,
         Docker!PauseSandbox, Docker!ResumeSandbox, Docker!Mark, Docker!Goto, Docker!Return,
         Docker!Tell, Docker!Idle, Idle, Moves, Steps
<1>. QED
  BY <1>1, <1>2, MoveType

LEMMA DockerTableType ==
  ASSUME TypeOK, NEW c \in Calls, Docker!Step(c)
  PROVE  CallsTypeOK'
<1> DEFINE id == call[c].id
<1>1. id \in Ids /\ call' \in [Calls -> InProgress \cup {Idle}]
  BY DockerCallType
<1>2. entry' \in [Ids -> States]
  <2>1. CASE Docker!CreateSandbox(c) \/ Docker!StopSandbox(c)
    <3>1. entry' = entry \/ \E s \in {"none", "running"} : entry' = [entry EXCEPT ![id] = s]
      BY <2>1 DEF Docker!CreateSandbox, Docker!RunSucceeds, Docker!RunFails, Docker!StopSandbox,
                  Docker!SetEntry, Docker!DeleteEntry
    <3>. QED
      BY <1>1, <3>1 DEF TypeOK, CallsTypeOK, States
  <2>2. CASE Docker!PauseSandbox(c) \/ Docker!ResumeSandbox(c)
    BY <2>2 DEF Docker!PauseSandbox, Docker!ResumeSandbox, TypeOK, CallsTypeOK
  <2>3. CASE Docker!Mark(c)
    BY <1>1, <2>3 DEF Docker!Mark, Docker!SetEntry, Docker!Marked, TypeOK, CallsTypeOK, States
  <2>. QED
    BY <2>1, <2>2, <2>3, <1>1 DEF Docker!Step, TypeOK, CallsTypeOK
<1>3. guest' \in [Ids -> States \cup {"created", "dead"}]
  BY <1>1
     DEF Docker!Step, Docker!CreateSandbox, Docker!RunSucceeds, Docker!RunFails, Docker!StopSandbox,
         Docker!PauseSandbox, Docker!ResumeSandbox, Docker!Mark, Docker!SetGuest, Docker!Started,
         Docker!Removed, TypeOK, CallsTypeOK, States
<1>4. /\ \E p \in Ports \cup {NoPort} : holds' \in {holds, [holds EXCEPT ![id] = p]}
      /\ \E p \in Ports \cup {NoPort} : envdPort' \in {envdPort, [envdPort EXCEPT ![id] = p]}
  BY DEF Docker!Step, Docker!CreateSandbox, Docker!RunSucceeds, Docker!RunFails, Docker!StopSandbox,
         Docker!PauseSandbox, Docker!ResumeSandbox, Docker!Mark, Docker!Started, Docker!Removed,
         Docker!DeleteEntry, Docker!Ports, Ports, Docker!NoPort, NoPort
<1>5. holds' \in [Ids -> Ports \cup {NoPort}] /\ envdPort' \in [Ids -> Ports \cup {NoPort}]
  <2>1. holds' \in [Ids -> Ports \cup {NoPort}]
    BY <1>1, <1>4 DEF TypeOK, CallsTypeOK
  <2>2. envdPort' \in [Ids -> Ports \cup {NoPort}]
    BY <1>1, <1>4 DEF TypeOK, CallsTypeOK
  <2>. QED
    BY <2>1, <2>2
<1>6. told' \in [Ids -> Answers]
  BY <1>1
     DEF Docker!Step, Docker!CreateSandbox, Docker!RunSucceeds, Docker!RunFails, Docker!StopSandbox,
         Docker!PauseSandbox, Docker!ResumeSandbox, Docker!Mark, Docker!Tell, TypeOK, CallsTypeOK,
         Answers
<1>7. disturbed' \subseteq Ids /\ lost' \subseteq Ids
  BY <1>1
     DEF Docker!Step, Docker!CreateSandbox, Docker!RunSucceeds, Docker!RunFails, Docker!StopSandbox,
         Docker!PauseSandbox, Docker!ResumeSandbox, Docker!Mark, TypeOK, CallsTypeOK
<1>. QED
  BY <1>1, <1>2, <1>3, <1>5, <1>6, <1>7 DEF CallsTypeOK, Answers

(* The port drawn is that of no entry, and of none after it is given back. *)
LEMMA DrawnIsNew ==
  ASSUME TypeOK, PortInv, Docker!Drawn \in Ports, Docker!Draw, NEW id \in Ids, entry[id] # "none"
  PROVE  /\ envdPort[id] # Docker!Drawn
         /\ envdPort[id] \in 0 .. nextPort' - 1
         /\ \A i \in 1 .. Len(Docker!PoolAfter) : Docker!PoolAfter[i] # envdPort[id]
<1>1. envdPort[id] \in 0 .. nextPort - 1 /\ ~Pooled(envdPort[id])
  BY DEF PortInv, TablePortsAreDrawn
<1>2. nextPort \in Nat /\ nextPort' \in Nat
  BY DrawPort DEF TypeOK
<1>. QED
  BY <1>1, <1>2, DrawPort

LEMMA CreatePorts ==
  ASSUME TypeOK, PortInv, NEW c \in Calls, Docker!CreateSandbox(c)
  PROVE  PoolTypeOK' /\ (watched' = watched => PortInv')
<1> DEFINE id == call[c].id
           p == Docker!Drawn
<1>1. id \in Ids /\ p \in Ports /\ Docker!Draw
  BY DockerCallType DEF Docker!Step, Docker!CreateSandbox, Docker!Ports, Ports
<1>2. p # NoPort /\ nextPort' \in Nat
  BY <1>1, DrawPort, BoundsAssumption DEF Ports, NoPort
<1>3. CASE Docker!RunSucceeds(c, id, p)
  <2>1. /\ entry' = [entry EXCEPT ![id] = "running"]
        /\ envdPort' = [envdPort EXCEPT ![id] = p]
        /\ holds' = [holds EXCEPT ![id] = p]
        /\ \A jd \in Ids : holds[jd] # p
        /\ pool' = Docker!PoolAfter
        /\ lost' = lost
    BY <1>3 DEF Docker!RunSucceeds, Docker!Started, Docker!SetEntry, Docker!Free
  <2>2. PoolTypeOK'
    BY <1>1, <2>1, DrawPort DEF PoolTypeOK
  <2>3. \A jd \in Ids \ {id} : entry'[jd] = entry[jd] /\ envdPort'[jd] = envdPort[jd]
                               /\ holds'[jd] = holds[jd]
    BY <2>1 DEF TypeOK, CallsTypeOK
  <2>4. entry'[id] = "running" /\ envdPort'[id] = p /\ holds'[id] = p
    BY <1>1, <2>1 DEF TypeOK, CallsTypeOK
  <2>5. TablePortsAreDrawn'
    BY <1>1, <2>1, <2>3, <2>4, DrawPort, DrawnIsNew DEF TablePortsAreDrawn, Pooled
  <2>6. TablePortsDiffer' /\ HoldersMatch'
    BY <1>1, <2>1, <2>3, <2>4, DrawnIsNew DEF TablePortsDiffer, HoldersMatch, PortInv
  <2>7. HoldersAreListed'
    BY <2>1, <2>3, <2>4 DEF HoldersAreListed, PortInv
  <2>8. HoldersAreAlive'
    BY <1>1, <1>3, <2>3 DEF Docker!RunSucceeds, Docker!Started, Docker!SetGuest, PortInv,
                            HoldersAreAlive, TypeOK, CallsTypeOK, Alive
  <2>. QED
    BY <2>2, <2>5, <2>6, <2>7, <2>8 DEF PortInv
<1>4. CASE Docker!RunFails(c, id, p)
  <2>1. /\ UNCHANGED <<entry, envdPort>>
        /\ \/ UNCHANGED <<holds, lost>>
           \/ holds' = [holds EXCEPT ![id] = p] /\ lost' = lost \cup {id}
        /\ Docker!releasePort(Docker!PoolAfter, p)
    BY <1>4 DEF Docker!RunFails, Docker!Started
  <2>2. /\ pool' \in Seq(0 .. nextPort' - 1) /\ IsInjective(pool')
        /\ \A i \in 1 .. Len(pool') :
             pool'[i] = p \/ \E j \in 1 .. Len(Docker!PoolAfter) : pool'[i] = Docker!PoolAfter[j]
    <3>1. /\ nextPort' \in Nat /\ p \in 0 .. nextPort' - 1
          /\ Docker!PoolAfter \in Seq(0 .. nextPort' - 1) /\ IsInjective(Docker!PoolAfter)
          /\ \A i \in 1 .. Len(Docker!PoolAfter) : Docker!PoolAfter[i] # p
      BY <1>1, <1>2, DrawPort, BoundsAssumption
    <3>. HIDE DEF p
    <3>. QED
      BY <2>1, <3>1, ReleasePort
  <2>3. PoolTypeOK'
    BY <1>1, <2>2, DrawPort DEF PoolTypeOK, IsInjective
  <2>4. TablePortsAreDrawn'
    BY <1>1, <2>1, <2>2, DrawnIsNew DEF TablePortsAreDrawn, Pooled
  <2>5. TablePortsDiffer'
    BY <2>1 DEF TablePortsDiffer, PortInv
  <2>6. HoldersMatch'
    BY <1>1, <2>1, DrawnIsNew DEF HoldersMatch, PortInv, TypeOK, CallsTypeOK
  <2>7. HoldersAreListed'
    BY <2>1 DEF HoldersAreListed, PortInv
  <2>8. HoldersAreAlive'
    BY <1>1, <1>4 DEF Docker!RunFails, Docker!Started, Docker!SetGuest, PortInv,
                      HoldersAreAlive, TypeOK, CallsTypeOK, Alive
  <2>. QED
    BY <2>3, <2>4, <2>5, <2>6, <2>7, <2>8 DEF PortInv
<1>. QED
  BY <1>3, <1>4 DEF Docker!CreateSandbox

(* A stop takes the container, the entry and its port together, or neither the
   entry nor its port. *)
LEMMA StopPorts ==
  ASSUME TypeOK, PortInv, NEW c \in Calls, Docker!StopSandbox(c)
  PROVE  PoolTypeOK' /\ (watched' = watched => PortInv')
<1> DEFINE id == call[c].id
<1>0. HoldersAreAlive'
  BY DockerCallType
     DEF Docker!Step, Docker!StopSandbox, Docker!Removed, Docker!SetGuest, Docker!NoPort, NoPort,
         PortInv, HoldersAreAlive, TypeOK, CallsTypeOK
<1>1. id \in Ids /\ nextPort' = nextPort /\ lost' = lost /\ nextPort \in Nat
  BY DockerCallType DEF Docker!Step, Docker!StopSandbox, TypeOK
<1>2. CASE UNCHANGED <<entry, envdPort, pool>>
           /\ (holds' = holds \/ holds' = [holds EXCEPT ![id] = NoPort])
  <2>1. PoolTypeOK' /\ TablePortsAreDrawn' /\ TablePortsDiffer'
    BY <1>1, <1>2
       DEF TypeOK, PoolTypeOK, PortInv, TablePortsAreDrawn, TablePortsDiffer, Pooled
  <2>2. \A jd \in Ids : holds'[jd] = holds[jd] \/ holds'[jd] = NoPort
    BY <1>1, <1>2 DEF TypeOK, CallsTypeOK
  <2>3. HoldersMatch'
    BY <1>2, <2>2 DEF PortInv, HoldersMatch, TablePortsAreDrawn, NoPort
  <2>4. HoldersAreListed'
    BY <1>1, <1>2, <2>2 DEF PortInv, HoldersAreListed
  <2>. QED
    BY <1>0, <2>1, <2>3, <2>4 DEF PortInv
<1>3. CASE /\ holds' = [holds EXCEPT ![id] = NoPort]
           /\ entry' = [entry EXCEPT ![id] = "none"]
           /\ envdPort' = [envdPort EXCEPT ![id] = NoPort]
           /\ IF entry[id] # "none" THEN Docker!releasePort(pool, envdPort[id]) ELSE pool' = pool
  <2>1. /\ \A jd \in Ids \ {id} : entry'[jd] = entry[jd] /\ envdPort'[jd] = envdPort[jd]
                                  /\ holds'[jd] = holds[jd]
        /\ entry'[id] = "none" /\ envdPort'[id] = NoPort /\ holds'[id] = NoPort
    BY <1>1, <1>3 DEF TypeOK, CallsTypeOK
  <2>2. /\ PoolTypeOK'
        /\ \A i \in 1 .. Len(pool') : Pooled(pool'[i]) \/ (entry[id] # "none" /\ pool'[i] = envdPort[id])
    <3>1. CASE entry[id] = "none"
      BY <1>1, <1>3, <3>1 DEF TypeOK, PoolTypeOK, Pooled
    <3>2. CASE entry[id] # "none"
      <4>1. envdPort[id] \in 0 .. nextPort - 1 /\ \A i \in 1 .. Len(pool) : pool[i] # envdPort[id]
        BY <1>1, <3>2 DEF PortInv, TablePortsAreDrawn, Pooled
      <4>2. pool \in Seq(0 .. nextPort - 1) /\ IsInjective(pool)
        BY DEF TypeOK
      <4>3. /\ pool' \in Seq(0 .. nextPort - 1) /\ IsInjective(pool')
            /\ \A i \in 1 .. Len(pool') :
                 pool'[i] = envdPort[id] \/ \E j \in 1 .. Len(pool) : pool'[i] = pool[j]
        BY <1>1, <1>3, <3>2, <4>1, <4>2, ReleasePort
      <4>. QED
        BY <1>1, <3>2, <4>3 DEF TypeOK, PoolTypeOK, Pooled, IsInjective
    <3>. QED
      BY <3>1, <3>2
  <2>3. TablePortsAreDrawn'
    BY <1>1, <2>1, <2>2 DEF PortInv, TablePortsAreDrawn, TablePortsDiffer, Pooled
  <2>4. TablePortsDiffer' /\ HoldersAreListed'
    BY <1>1, <2>1 DEF PortInv, TablePortsDiffer, HoldersAreListed
  <2>5. HoldersMatch'
    BY <1>1, <2>1 DEF PortInv, HoldersMatch, TablePortsAreDrawn, NoPort
  <2>. QED
    BY <1>0, <2>2, <2>3, <2>4, <2>5 DEF PortInv
<1>. QED
  BY <1>2, <1>3 DEF Docker!StopSandbox, Docker!Removed, Docker!DeleteEntry, Docker!SetEntry,
                    Docker!NoPort, NoPort

(* Steps that leave the ports alone, and the entries where they are; a container
   may end. *)
LEMMA QuietPorts ==
  ASSUME TypeOK, PortInv, UNCHANGED <<envdPort, pool, nextPort, lost>>,
         \A id \in Ids : entry'[id] = "none" <=> entry[id] = "none",
         \A id \in Ids : holds'[id] = holds[id] \/ holds'[id] = NoPort,
         HoldersAreAlive', watched' = {}
  PROVE  PortInv'
<1>1. TablePortsAreDrawn' /\ TablePortsDiffer' /\ HoldersAreListed'
  BY DEF PortInv, TablePortsAreDrawn, TablePortsDiffer, HoldersAreListed, Pooled
<1>2. HoldersMatch'
  BY DEF PortInv, HoldersMatch, TablePortsAreDrawn, NoPort, TypeOK
<1>. QED
  BY <1>1, <1>2 DEF PortInv

LEMMA PausePorts ==
  ASSUME TypeOK, PortInv, NEW c \in Calls,
         Docker!PauseSandbox(c) \/ Docker!ResumeSandbox(c) \/ Docker!Mark(c)
  PROVE  PoolTypeOK' /\ (watched' = watched => PortInv')
<1>1. UNCHANGED <<envdPort, pool, nextPort, lost, holds>>
  BY DEF Docker!PauseSandbox, Docker!ResumeSandbox, Docker!Mark, Docker!portVars
<1>2. \A id \in Ids : entry'[id] = "none" <=> entry[id] = "none"
  BY DEF Docker!PauseSandbox, Docker!ResumeSandbox, Docker!Mark, Docker!Marked, TypeOK, CallsTypeOK
<1>3. HoldersAreAlive'
  BY DockerCallType
     DEF Docker!Step, Docker!PauseSandbox, Docker!ResumeSandbox, Docker!Mark, Docker!SetGuest,
         PortInv, HoldersAreAlive, Alive, TypeOK, CallsTypeOK
<1>. QED
  BY <1>1, <1>2, <1>3, QuietPorts DEF PortInv, TypeOK, PoolTypeOK

-----------------------------------------------------------------------------
LEMMA InvInit == Init => IInv
<1> SUFFICES ASSUME Init PROVE IInv
  OBVIOUS
<1>1. CallsTypeOK
  BY DEF Init, CallsInit, CallsTypeOK, States
<1>2. PoolTypeOK
  BY BoundsAssumption DEF Init, PoolTypeOK, IsInjective
<1>3. FilesTypeOK
  BY DEF Init, FilesTypeOK
<1>4. RestTypeOK
  BY BoundsAssumption DEF Init, RestTypeOK, Sdk!LockStates
<1>5. PortInv
  BY DEF Init, CallsInit, PortInv, TablePortsAreDrawn, TablePortsDiffer, HoldersMatch,
         HoldersAreListed, HoldersAreAlive
<1>. QED
  BY <1>1, <1>2, <1>3, <1>4, <1>5 DEF IInv, TypeOK, PoolTypeOK, FilesTypeOK, RestTypeOK

LEMMA RuntimeInv ==
  ASSUME IInv, NEW c \in Calls, RuntimeStep(c)
  PROVE  IInv'
<1>1. TypeOK /\ UNCHANGED runtime
  BY DEF IInv, RuntimeStep
<1>2. faults' \in 0 .. MaxFaults[runtime']
  BY <1>1, FaultType DEF RuntimeStep
<1>3. CASE runtime = "docker" /\ Docker!Step(c) /\ UNCHANGED <<lock, files>>
  <2>1. PoolTypeOK' /\ PortInv'
    BY <1>1, <1>3, CreatePorts, StopPorts, PausePorts DEF IInv, Docker!Step, files
  <2>2. CallsTypeOK'
    BY <1>1, <1>3, DockerTableType
  <2>3. FilesTypeOK' /\ RestTypeOK'
    BY <1>1, <1>2, <1>3 DEF TypeOK, FilesTypeOK, RestTypeOK, files
  <2>. QED
    BY <2>1, <2>2, <2>3 DEF IInv, TypeOK, PoolTypeOK, FilesTypeOK, RestTypeOK
<1>4. CASE runtime = "docker-sdk" /\ Sdk!Step(c) /\ UNCHANGED <<ports, files>>
  <2>1. PoolTypeOK' /\ FilesTypeOK'
    BY <1>1, <1>4 DEF TypeOK, PoolTypeOK, FilesTypeOK, ports, files
  <2>2. CallsTypeOK' /\ RestTypeOK'
    BY <1>1, <1>2, <1>4, SdkType DEF TypeOK, RestTypeOK
  <2>. QED
    BY <1>1, <1>4, <2>1, <2>2 DEF IInv, TypeOK, PoolTypeOK, FilesTypeOK, RestTypeOK
<1>5. CASE runtime = "firecracker" /\ Firecracker!Step(c) /\ UNCHANGED <<ports, lock>>
  <2>1. CallsTypeOK'
    BY <1>1, <1>5, FirecrackerCallType, FirecrackerTableType DEF TypeOK, CallsTypeOK, Answers
  <2>2. FilesTypeOK'
    BY <1>1, <1>5, FirecrackerFilesType
  <2>3. PoolTypeOK' /\ RestTypeOK'
    BY <1>1, <1>2, <1>5 DEF TypeOK, PoolTypeOK, RestTypeOK, ports
  <2>. QED
    BY <1>1, <1>5, <2>1, <2>2, <2>3 DEF IInv, TypeOK, PoolTypeOK, FilesTypeOK, RestTypeOK
<1>. QED
  BY <1>3, <1>4, <1>5 DEF RuntimeStep

(* The steps of the agent and of the world around it do not move a port; the
   start of a new process forgets them all. *)
LEMMA AroundInv ==
  ASSUME IInv,
         \/ \E c \in Calls, op \in Operations, id \in Ids : Receive(c, op, id)
         \/ \E c \in Calls : Confirm(c) \/ Answer(c) \/ RequestEnds(c)
         \/ \E id \in Ids : GuestDies(id) \/ VmKilled(id)
  PROVE  IInv'
<1>1. TypeOK'
  BY ReceiveType, AnswerType, WorldType DEF IInv
<1>2. UNCHANGED <<runtime, entry, envdPort, pool, nextPort, lost>>
  BY DEF Receive, Confirm, Answer, RequestEnds, GuestDies, VmKilled, Firecracker!ContextKills, ports
<1>3. \A jd \in Ids : holds'[jd] = holds[jd] \/ holds'[jd] = NoPort
  BY DEF Receive, Confirm, Answer, RequestEnds, GuestDies, VmKilled, Firecracker!ContextKills,
         IInv, TypeOK, CallsTypeOK
<1>4. CASE runtime = "docker"
  <2>1. watched' = {}
    BY <1>4 DEF IInv, PortInv, Receive, Confirm, Answer, RequestEnds, GuestDies, VmKilled,
                Firecracker!ContextKills, files
  <2>2. HoldersAreAlive'
    BY <1>4 DEF IInv, PortInv, HoldersAreAlive, Receive, Confirm, Answer, RequestEnds, GuestDies,
                SetGuest, VmKilled, Firecracker!ContextKills, TypeOK, CallsTypeOK
  <2>. QED
    BY <1>1, <1>2, <1>3, <1>4, <2>1, <2>2, QuietPorts DEF IInv
<1>. QED
  BY <1>1, <1>2, <1>4 DEF IInv

LEMMA AgentStopsInv ==
  ASSUME IInv, AgentStops
  PROVE  IInv'
<1>1. TypeOK'
  BY AgentStopsType DEF IInv
<1>2. /\ \A id \in Ids : entry'[id] = "none"
      /\ UNCHANGED <<runtime, guest, holds>> /\ watched' = {}
      /\ lost' = lost \cup {id \in Ids : guest[id] \in Alive}
  BY DEF AgentStops
<1>3. CASE runtime = "docker"
  <2>1. TablePortsAreDrawn' /\ TablePortsDiffer' /\ HoldersMatch'
    BY <1>2 DEF TablePortsAreDrawn, TablePortsDiffer, HoldersMatch
  <2>2. HoldersAreListed' /\ HoldersAreAlive'
    BY <1>2, <1>3 DEF IInv, PortInv, HoldersAreListed, HoldersAreAlive
  <2>. QED
    BY <1>1, <1>2, <2>1, <2>2 DEF IInv, PortInv
<1>. QED
  BY <1>1, <1>2, <1>3 DEF IInv

LEMMA InvStep == IInv /\ [Next]_vars => IInv'
<1> SUFFICES ASSUME IInv, [Next]_vars PROVE IInv'
  OBVIOUS
<1>1. CASE UNCHANGED vars
  <2>1. UNCHANGED <<agentVars, runtime, ports, lock, files, faults>>
    BY <1>1 DEF vars
  <2>2. TypeOK'
    BY <2>1 DEF IInv, TypeOK, CallsTypeOK, agentVars, ports, files
  <2>3. PortInv => PortInv'
    BY <2>1 DEF PortInv, TablePortsAreDrawn, TablePortsDiffer, HoldersMatch, HoldersAreListed,
                HoldersAreAlive, Pooled, agentVars, ports, files
  <2>. QED
    BY <2>1, <2>2, <2>3 DEF IInv
<1>2. CASE \E c \in Calls : Handle(c) \/ ExecPanics(c) \/ RequestEnds(c)
  <2>1. PICK c \in Calls : Handle(c) \/ ExecPanics(c) \/ RequestEnds(c)
    BY <1>2
  <2>2. CASE Confirm(c) \/ Answer(c) \/ RequestEnds(c)
    BY <2>2, AroundInv
  <2>. QED
    BY <2>1, <2>2, RuntimeInv, AgentStopsInv DEF Handle, ExecPanics
<1>3. CASE \E c \in Calls, op \in Operations, id \in Ids : Receive(c, op, id)
  BY <1>3, AroundInv
<1>4. CASE \E id \in Ids : GuestDies(id) \/ VmKilled(id)
  BY <1>4, AroundInv
<1>5. CASE AgentStops
  BY <1>5, AgentStopsInv
<1>. QED
  BY <1>1, <1>2, <1>3, <1>4, <1>5 DEF Next

LEMMA InvHolds == Spec => []IInv
  BY InvInit, InvStep, PTL DEF Spec

(* TypeOK: every variable keeps its type, over each of the three runtimes. *)
THEOREM TypeCorrect == Spec => []TypeOK
<1>1. IInv => TypeOK
  BY DEF IInv
<1>. QED
  BY <1>1, InvHolds, PTL

(* NeverMisrouted: the port that the docker runtime answers for a sandbox in its
   table leads to that sandbox or to none, whatever failed, died or was started
   anew in between. *)
THEOREM RoutingHolds == Spec => []NeverMisrouted
<1>1. IInv => NeverMisrouted
  BY DEF IInv, PortInv, HoldersMatch, NeverMisrouted, Serving
<1>. QED
  BY <1>1, InvHolds, PTL

(* PortsComeFree: the port that allocatePort would return next is held by no
   container, until the agent has lost sight of one. *)
THEOREM PortsHold == Spec => []PortsComeFree
<1>1. IInv => PortsComeFree
  <2> SUFFICES ASSUME IInv, runtime = "docker", lost = {}, NEW id \in Ids, holds[id] = Docker!Drawn
               PROVE  FALSE
    BY DEF PortsComeFree, Free
  <2>1. nextPort \in Nat /\ pool \in Seq(0 .. nextPort - 1)
    BY DEF IInv, TypeOK
  <2>2. Pooled(Docker!Drawn) \/ Docker!Drawn = nextPort
    BY <2>1 DEF Docker!Drawn, Pooled
  <2>3. Docker!Drawn \in 0 .. nextPort
    BY <2>1, <2>2 DEF Pooled
  <2>4. entry[id] # "none" /\ envdPort[id] = Docker!Drawn
    BY <2>3 DEF IInv, PortInv, HoldersAreListed, NoPort
  <2>. QED
    BY <2>1, <2>2, <2>4 DEF IInv, PortInv, TablePortsAreDrawn
<1>. QED
  BY <1>1, InvHolds, PTL

-----------------------------------------------------------------------------
\* What every runtime makes of a call: it stays at the places of its operation;
\* one caller at most is there who changes a sandbox; a sandbox is created by one
\* call, of which nobody has been told, and otherwise changed by those who were
\* told of it.
Fits(op, at) ==
  /\ at \in Operations => op = at
  /\ at \in {"savingBase", "inject", "start", "boot"} => op = "create"
  /\ at \in {"shutdown", "writeHosts", "rewriteHosts"} => op = "stop"
  /\ at = "snapshot" => op = "pause"
  /\ at = "resuming" => op = "resume"
  /\ at = "confirm" => op = "create" \/ (op = "resume" /\ runtime = "docker-sdk")
  /\ at = "mark" => op \in {"pause", "resume"}
  /\ at = "idle" => op = "none"
CallsAreInPlace == \A c \in Calls : Fits(call[c].op, call[c].at)
OneCallerIsThere ==
  \A c, d \in Calls :
    call[c].op \in Changes /\ call[d].op \in Changes /\ Live(c) /\ Live(d) => c = d
CreationIsUntold ==
  /\ \A c \in Calls : call[c].op = "create" => told[call[c].id] = "nothing"
  /\ \A c, d \in Calls :
       call[c].op = "create" /\ call[d].op = "create" /\ call[c].id = call[d].id => c = d
ChangersWereTold ==
  \A c \in Calls : call[c].op \in {"stop", "pause", "resume"} =>
    told[call[c].id] \in {"started", "stopped"}

CallInv == CallsAreInPlace /\ OneCallerIsThere /\ CreationIsUntold /\ ChangersWereTold

\* A call moves on, or ends with what its caller is told.
Progress(c) ==
  /\ \A d \in Calls \ {c} : call'[d] = call[d]
  /\ \/ call'[c] = Idle
     \/ /\ call'[c].op = call[c].op /\ call'[c].id = call[c].id /\ call'[c].live = call[c].live
        /\ Fits(call'[c].op, call'[c].at)
        /\ told' = told
  /\ \A id \in Ids : told'[id] # told[id] =>
       id = call[c].id /\ (call[c].op = "create" \/ (call[c].op = "stop" /\ told'[id] = "stopped"))

LEMMA ProgressCalls ==
  ASSUME TypeOK, CallInv, NEW c \in Calls, call[c].id \in Ids, Progress(c),
         UNCHANGED runtime
  PROVE  CallInv'
<1>1. Fits(Idle.op, Idle.at) /\ Idle.op = "none"
  BY DEF Fits, Idle, Operations, Changes
<1>2. CallsAreInPlace'
  BY <1>1 DEF Progress, CallInv, CallsAreInPlace, Fits
<1>3. OneCallerIsThere'
  BY <1>1 DEF Progress, CallInv, OneCallerIsThere, Live, Changes
<1>4. \A d \in Calls : call'[d].op # "none" => call'[d].op = call[d].op /\ call'[d].id = call[d].id
  BY <1>1 DEF Progress
<1>5. \A d \in Calls : call[d].op \in {"create", "stop", "pause", "resume"} => call[d].id \in Ids
  BY CallShape
<1>6. CreationIsUntold'
  BY <1>1, <1>4, <1>5 DEF Progress, CallInv, CreationIsUntold, ChangersWereTold
<1>7. ChangersWereTold'
  BY <1>1, <1>4, <1>5 DEF Progress, CallInv, CreationIsUntold, ChangersWereTold
<1>. QED
  BY <1>2, <1>3, <1>6, <1>7 DEF CallInv

\* The call that moves on, from one place to another of its operation.
Advance(c) == \/ call' = [call EXCEPT ![c] = Idle]
              \/ \E at \in Steps :
                   /\ call' = [call EXCEPT ![c].at = at]
                   /\ Fits(call[c].op, at)
                   /\ told' = told
Telling(c) == told' = told \/ \E what \in Answers :
                told' = [told EXCEPT ![call[c].id] =
                           IF Live(c) THEN what ELSE IF call[c].op = "create" THEN "unheard" ELSE @]
ToldOfItsOwn(c) == told' # told =>
  call[c].op = "create"
    \/ (call[c].op = "stop" /\ told' \in {told, [told EXCEPT ![call[c].id] = "stopped"]})

LEMMA AdvanceProgress ==
  ASSUME TypeOK, NEW c \in Calls, call[c].at # "idle", Advance(c), Telling(c), ToldOfItsOwn(c)
  PROVE  Progress(c)
<1>1. call[c] \in InProgress /\ call[c].id \in Ids
  BY CallShape
<1>2. \A d \in Calls \ {c} : call'[d] = call[d]
  BY DEF Advance, TypeOK, CallsTypeOK
<1>3. \A id \in Ids : told'[id] # told[id] =>
        id = call[c].id /\ (call[c].op = "create" \/ (call[c].op = "stop" /\ told'[id] = "stopped"))
  BY <1>1 DEF Telling, ToldOfItsOwn, TypeOK, CallsTypeOK
<1>4. CASE call' = [call EXCEPT ![c] = Idle]
  BY <1>2, <1>3, <1>4 DEF Progress, TypeOK, CallsTypeOK
<1>5. CASE \E at \in Steps : /\ call' = [call EXCEPT ![c].at = at]
                             /\ Fits(call[c].op, at)
                             /\ told' = told
  <2>1. PICK at \in Steps : /\ call' = [call EXCEPT ![c].at = at]
                            /\ Fits(call[c].op, at)
                            /\ told' = told
    BY <1>5
  <2> DEFINE moved == [call[c] EXCEPT !.at = at]
  <2>2. moved.op = call[c].op /\ moved.id = call[c].id /\ moved.live = call[c].live
        /\ moved.at = at
    BY <1>1 DEF InProgress
  <2> HIDE DEF moved
  <2>4. call'[c] = moved
    <3>1. call' = [call EXCEPT ![c] = moved]
      BY <2>1 DEF moved
    <3>. QED
      BY <3>1 DEF TypeOK, CallsTypeOK
  <2>. QED
    BY <1>2, <1>3, <2>1, <2>2, <2>4 DEF Progress
<1>. QED
  BY <1>4, <1>5 DEF Advance

LEMMA DockerProgress ==
  ASSUME TypeOK, CallInv, NEW c \in Calls, Docker!Step(c)
  PROVE  Progress(c)
<1>1. Fits(call[c].op, call[c].at) /\ call[c].at # "idle"
  BY DEF CallInv, CallsAreInPlace, Docker!Step, Docker!CreateSandbox, Docker!StopSandbox,
         Docker!PauseSandbox, Docker!ResumeSandbox, Docker!Mark, Docker!At
<1>2. Advance(c)
  BY <1>1
     DEF Docker!Step, Docker!CreateSandbox, Docker!RunSucceeds, Docker!RunFails, Docker!StopSandbox,
         Docker!PauseSandbox, Docker!ResumeSandbox, Docker!Mark, Docker!Goto, Docker!Return,
         Docker!Tell, Docker!At, Docker!Idle, Idle, Advance, Fits, Steps, Operations, Changes
<1>3. Telling(c)
  BY DEF Docker!Step, Docker!CreateSandbox, Docker!RunSucceeds, Docker!RunFails, Docker!StopSandbox,
         Docker!PauseSandbox, Docker!ResumeSandbox, Docker!Mark, Docker!Tell, Docker!Live, Live,
         Telling, Answers
<1>4. ToldOfItsOwn(c)
  <2>1. CASE Docker!CreateSandbox(c)
    BY <1>1, <2>1 DEF Docker!CreateSandbox, Docker!At, Fits, Operations, Changes, ToldOfItsOwn
  <2>2. CASE Docker!StopSandbox(c)
    <3>1. call[c].op = "stop"
      BY <1>1, <2>2 DEF Docker!StopSandbox, Docker!At, Fits, Operations, Changes
    <3>. QED
      BY <2>2, <3>1, DockerCallType DEF Docker!StopSandbox, Docker!Tell, ToldOfItsOwn, TypeOK, CallsTypeOK
  <2>3. CASE Docker!PauseSandbox(c) \/ Docker!ResumeSandbox(c) \/ Docker!Mark(c)
    BY <2>3 DEF Docker!PauseSandbox, Docker!ResumeSandbox, Docker!Mark, ToldOfItsOwn
  <2>. QED
    BY <2>1, <2>2, <2>3 DEF Docker!Step
<1>. QED
  BY <1>1, <1>2, <1>3, <1>4, AdvanceProgress

LEMMA SdkProgress ==
  ASSUME TypeOK, CallInv, runtime = "docker-sdk", NEW c \in Calls, Sdk!Step(c)
  PROVE  Progress(c) \/ UNCHANGED agentVars
<1>1. CASE Sdk!Announce(c) \/ Sdk!RLock(c) \/ (Sdk!GetSandboxStatus(c) /\ UNCHANGED agentVars)
  BY <1>1 DEF Sdk!Announce, Sdk!RLock, Sdk!agentVars, agentVars
<1>2. CASE Sdk!CreateSandbox(c) \/ Sdk!StopSandbox(c) \/ Sdk!PauseOrResumeSandbox(c)
           \/ Sdk!ExecCommand(c) \/ (Sdk!GetSandboxStatus(c) /\ ~UNCHANGED agentVars)
  <2>1. Fits(call[c].op, call[c].at) /\ call[c].at # "idle"
    BY <1>2 DEF CallInv, CallsAreInPlace, Sdk!CreateSandbox, Sdk!StopSandbox,
                Sdk!PauseOrResumeSandbox, Sdk!GetSandboxStatus, Sdk!ExecCommand, Sdk!At
  <2>2. Advance(c)
    BY <1>2, <2>1
       DEF Sdk!CreateSandbox, Sdk!StopSandbox, Sdk!PauseOrResumeSandbox, Sdk!GetSandboxStatus,
           Sdk!ExecCommand, Sdk!Goto, Sdk!Return, Sdk!Tell, Sdk!At, Sdk!Idle, Idle, Advance, Fits,
           Steps, Operations, Changes, Sdk!agentVars, agentVars
  <2>3. Telling(c)
    BY <1>2
       DEF Sdk!CreateSandbox, Sdk!StopSandbox, Sdk!PauseOrResumeSandbox, Sdk!GetSandboxStatus,
           Sdk!ExecCommand, Sdk!Tell, Sdk!Live, Live, Telling, Answers, Sdk!agentVars
  <2>4. ToldOfItsOwn(c)
    <3>1. CASE Sdk!CreateSandbox(c)
      BY <2>1, <3>1 DEF Sdk!CreateSandbox, Sdk!At, Fits, Operations, Changes, ToldOfItsOwn
    <3>2. CASE Sdk!StopSandbox(c)
      <4>1. call[c].op = "stop" /\ call[c].id \in Ids
        BY <2>1, <3>2, CallShape DEF Sdk!StopSandbox, Sdk!At, Fits, Operations, Changes
      <4>. QED
        BY <3>2, <4>1 DEF Sdk!StopSandbox, Sdk!Tell, ToldOfItsOwn, TypeOK, CallsTypeOK
    <3>3. CASE Sdk!PauseOrResumeSandbox(c) \/ Sdk!ExecCommand(c) \/ Sdk!GetSandboxStatus(c)
      BY <3>3 DEF Sdk!PauseOrResumeSandbox, Sdk!ExecCommand, Sdk!GetSandboxStatus, Sdk!agentVars,
                  ToldOfItsOwn
    <3>. QED
      BY <1>2, <3>1, <3>2, <3>3
  <2>. QED
    BY <2>1, <2>2, <2>3, <2>4, AdvanceProgress
<1>. QED
  BY <1>1, <1>2 DEF Sdk!Step

LEMMA FirecrackerProgress ==
  ASSUME TypeOK, CallInv, NEW c \in Calls, Firecracker!Step(c)
  PROVE  Progress(c)
<1>1. Fits(call[c].op, call[c].at) /\ call[c].at # "idle" /\ call[c] \in InProgress
  BY FirecrackerCallType, CallShape DEF CallInv, CallsAreInPlace
<1>2. CASE Firecracker!Shutdown(c)
  <2> DEFINE moved == [call EXCEPT ![c].at = "writeHosts"]
  <2>1. call' = [moved EXCEPT ![c].seen = hosts] /\ told' = told /\ call[c].at = "shutdown"
    BY <1>2 DEF Firecracker!Shutdown, Firecracker!At
  <2>2. /\ moved \in [Calls -> InProgress \cup {Idle}] /\ moved[c] \in InProgress
        /\ moved[c].at = "writeHosts" /\ moved[c].op = call[c].op /\ moved[c].id = call[c].id
        /\ moved[c].live = call[c].live
        /\ \A d \in Calls \ {c} : moved[d] = call[d]
    <3>1. [call[c] EXCEPT !.at = "writeHosts"] \in InProgress
      BY <1>1, CallShape DEF Steps
    <3>2. /\ [call[c] EXCEPT !.at = "writeHosts"].at = "writeHosts"
          /\ [call[c] EXCEPT !.at = "writeHosts"].op = call[c].op
          /\ [call[c] EXCEPT !.at = "writeHosts"].id = call[c].id
          /\ [call[c] EXCEPT !.at = "writeHosts"].live = call[c].live
      BY <1>1 DEF InProgress
    <3>. QED
      BY <3>1, <3>2 DEF TypeOK, CallsTypeOK
  <2> HIDE DEF moved
  <2>3. /\ call'[c] = [moved[c] EXCEPT !.seen = hosts]
        /\ \A d \in Calls \ {c} : call'[d] = call[d]
    BY <2>1, <2>2
  <2>4. /\ call'[c].op = call[c].op /\ call'[c].id = call[c].id /\ call'[c].live = call[c].live
        /\ call'[c].at = "writeHosts"
    BY <2>2, <2>3 DEF InProgress
  <2>. QED
    BY <1>1, <2>1, <2>3, <2>4 DEF Progress, Fits, Operations, Changes
<1>3. CASE ~Firecracker!Shutdown(c)
  <2>1. Advance(c)
    BY <1>1, <1>3
       DEF Firecracker!Step, Firecracker!PrepareRootfs, Firecracker!SaveBase, Firecracker!InjectEnvd,
           Firecracker!StartVm, Firecracker!Boot, Firecracker!StopSandbox,
           Firecracker!WriteHosts, Firecracker!RewriteHosts, Firecracker!PauseVm,
           Firecracker!CreateSnapshot, Firecracker!ResumeSandbox, Firecracker!ResumeVm,
           Firecracker!CleanUp, Firecracker!Goto, Firecracker!Return, Firecracker!Tell,
           Firecracker!At, Firecracker!Idle, Idle, Advance, Fits, Steps, Operations, Changes
  <2>2. Telling(c)
    BY DEF Firecracker!Step, Firecracker!PrepareRootfs, Firecracker!SaveBase, Firecracker!InjectEnvd,
           Firecracker!StartVm, Firecracker!Boot, Firecracker!StopSandbox, Firecracker!Shutdown,
           Firecracker!WriteHosts, Firecracker!RewriteHosts, Firecracker!PauseVm,
           Firecracker!CreateSnapshot, Firecracker!ResumeSandbox, Firecracker!ResumeVm,
           Firecracker!CleanUp, Firecracker!Tell, Firecracker!Live, Live, Telling, Answers
  <2>3. ToldOfItsOwn(c)
    <3>1. CASE Firecracker!PrepareRootfs(c) \/ Firecracker!StartVm(c)
      BY <1>1, <3>1 DEF Firecracker!PrepareRootfs, Firecracker!StartVm, Firecracker!At, Fits,
                        Operations, Changes, ToldOfItsOwn
    <3>2. CASE Firecracker!WriteHosts(c) \/ Firecracker!RewriteHosts(c)
      <4>1. call[c].op = "stop" /\ call[c].id \in Ids
        BY <1>1, <3>2 DEF Firecracker!WriteHosts, Firecracker!RewriteHosts, Firecracker!At, Fits,
                          InProgress
      <4>. QED
        BY <3>2, <4>1 DEF Firecracker!WriteHosts, Firecracker!RewriteHosts, Firecracker!Tell,
                          ToldOfItsOwn, TypeOK, CallsTypeOK
    <3>. QED
      BY <3>1, <3>2
         DEF Firecracker!Step, Firecracker!SaveBase, Firecracker!InjectEnvd, Firecracker!Boot,
             Firecracker!StopSandbox, Firecracker!Shutdown, Firecracker!PauseVm,
             Firecracker!CreateSnapshot, Firecracker!ResumeSandbox, Firecracker!ResumeVm, ToldOfItsOwn
  <2>. QED
    BY <1>1, <2>1, <2>2, <2>3, AdvanceProgress
<1>. QED
  BY <1>2, <1>3

LEMMA AnswerProgress ==
  ASSUME TypeOK, CallInv, NEW c \in Calls, Confirm(c) \/ Answer(c)
  PROVE  Progress(c)
<1>1. Fits(call[c].op, call[c].at) /\ call[c].at # "idle"
  BY DEF CallInv, CallsAreInPlace, Confirm, Answer, At
<1>2. Advance(c)
  BY DEF Confirm, Answer, Tell, Return, Advance
<1>3. Telling(c)
  BY DEF Confirm, Answer, Tell, Telling, Answers
<1>4. ToldOfItsOwn(c)
  BY <1>1 DEF Confirm, Answer, At, Tell, Fits, Operations, Changes, ToldOfItsOwn
<1>. QED
  BY <1>1, <1>2, <1>3, <1>4, AdvanceProgress

LEMMA ReceiveCalls ==
  ASSUME TypeOK, CallInv, NEW c \in Calls, NEW op \in Operations, NEW id \in Ids, Receive(c, op, id)
  PROVE  CallInv'
<1>1. /\ call[c] = Idle /\ UNCHANGED <<told, runtime>>
      /\ \A d \in Calls \ {c} : call'[d] = call[d]
      /\ call'[c].op = op /\ call'[c].at = op /\ call'[c].id = id /\ call'[c].live = TRUE
  BY DEF Receive, Begin, TypeOK, CallsTypeOK, Idle
<1>2. /\ op = "create" => told[id] = "nothing" /\ ~Busy(id)
      /\ op \in {"stop", "pause", "resume"} => told[id] \in {"started", "stopped"}
      /\ op \in Changes => \A d \in Calls : call[d].op \in Changes => ~Live(d)
  BY DEF Receive, Asked, Operations, Changes
<1>3. CallsAreInPlace'
  BY <1>1 DEF CallInv, CallsAreInPlace, Fits, Operations, Changes
<1>4. OneCallerIsThere'
  BY <1>1, <1>2 DEF CallInv, OneCallerIsThere, Live
<1>5. CreationIsUntold'
  BY <1>1, <1>2 DEF CallInv, CreationIsUntold, Busy, Changes
<1>6. ChangersWereTold'
  BY <1>1, <1>2 DEF CallInv, ChangersWereTold
<1>. QED
  BY <1>3, <1>4, <1>5, <1>6 DEF CallInv

LEMMA RequestEndsCalls ==
  ASSUME TypeOK, CallInv, NEW c \in Calls, RequestEnds(c)
  PROVE  CallInv'
<1>1. call[c] \in InProgress
  BY CallShape DEF RequestEnds, Changes
<1> DEFINE left == [call[c] EXCEPT !.live = FALSE]
<1>2. left.op = call[c].op /\ left.at = call[c].at /\ left.id = call[c].id /\ left.live = FALSE
  BY <1>1 DEF InProgress
<1>3. call' = [call EXCEPT ![c] = left] /\ UNCHANGED <<told, runtime>>
  BY DEF RequestEnds
<1> HIDE DEF left
<1>4. /\ \A d \in Calls \ {c} : call'[d] = call[d]
      /\ call'[c] = left
  BY <1>3 DEF TypeOK, CallsTypeOK
<1>5. CallsAreInPlace' /\ OneCallerIsThere'
  BY <1>2, <1>3, <1>4 DEF CallInv, CallsAreInPlace, Fits, OneCallerIsThere, Live
<1>6. CreationIsUntold' /\ ChangersWereTold'
  BY <1>2, <1>3, <1>4 DEF CallInv, CreationIsUntold, ChangersWereTold
<1>. QED
  BY <1>5, <1>6 DEF CallInv

LEMMA NoCalls ==
  ASSUME \A c \in Calls : call[c] = Idle
  PROVE  CallInv
<1>1. Idle.op = "none" /\ Idle.at = "idle"
  BY DEF Idle
<1>2. CallsAreInPlace
  BY <1>1 DEF CallsAreInPlace, Fits, Operations, Changes
<1>3. OneCallerIsThere /\ CreationIsUntold /\ ChangersWereTold
  BY <1>1 DEF OneCallerIsThere, CreationIsUntold, ChangersWereTold, Changes
<1>. QED
  BY <1>2, <1>3 DEF CallInv

LEMMA CallStep == TypeOK /\ CallInv /\ [Next]_vars => CallInv'
<1> SUFFICES ASSUME TypeOK, CallInv, [Next]_vars PROVE CallInv'
  OBVIOUS
<1>1. CASE UNCHANGED <<call, told, runtime>>
  BY <1>1 DEF CallInv, CallsAreInPlace, Fits, OneCallerIsThere, CreationIsUntold, ChangersWereTold,
              Live
<1>2. CASE \E c \in Calls : RuntimeStep(c)
  <2>1. PICK c \in Calls : RuntimeStep(c)
    BY <1>2
  <2>2. CASE UNCHANGED agentVars
    BY <1>1, <2>1, <2>2 DEF agentVars, RuntimeStep
  <2>3. CASE ~UNCHANGED agentVars
    <3>1. call[c].id \in Ids
      <4>1. call[c].at # "idle"
        BY <2>1, <2>3, FirecrackerCallType
           DEF RuntimeStep, Docker!Step, Docker!CreateSandbox, Docker!StopSandbox,
               Docker!PauseSandbox, Docker!ResumeSandbox, Docker!Mark, Docker!At, Sdk!Step,
               Sdk!Announce, Sdk!RLock, Sdk!CreateSandbox, Sdk!StopSandbox, Sdk!PauseOrResumeSandbox,
               Sdk!GetSandboxStatus, Sdk!ExecCommand, Sdk!At, Sdk!Changes
      <4>. QED
        BY <4>1, CallShape
    <3>2. Progress(c) /\ UNCHANGED runtime
      BY <2>1, <2>3, DockerProgress, SdkProgress, FirecrackerProgress DEF RuntimeStep
    <3>. QED
      BY <3>1, <3>2, ProgressCalls
  <2>. QED
    BY <2>2, <2>3
<1>3. CASE \E c \in Calls : Confirm(c) \/ Answer(c)
  <2>1. PICK c \in Calls : Confirm(c) \/ Answer(c)
    BY <1>3
  <2>2. call[c].id \in Ids /\ UNCHANGED runtime
    BY <2>1, CallShape DEF Confirm, Answer, At
  <2>. QED
    BY <2>1, <2>2, AnswerProgress, ProgressCalls
<1>4. CASE AgentStops
  BY <1>4 DEF AgentStops, CallInv, CallsAreInPlace, Fits, OneCallerIsThere,
                       CreationIsUntold, ChangersWereTold, Idle, Operations, Changes
<1>5. CASE \E id \in Ids : GuestDies(id) \/ VmKilled(id)
  BY <1>1, <1>5 DEF GuestDies, VmKilled, Firecracker!ContextKills
<1>6. CASE UNCHANGED vars
  BY <1>1, <1>6 DEF vars, agentVars
<1>. QED
  BY <1>2, <1>3, <1>4, <1>5, <1>6, ReceiveCalls, RequestEndsCalls DEF Next, Handle, ExecPanics

LEMMA CallInit == Init => CallInv
  BY NoCalls DEF Init, CallsInit

LEMMA CallsHold == Spec => []CallInv
<1>1. IInv => TypeOK
  BY DEF IInv
<1>. QED
  BY <1>1, InvHolds, CallInit, CallStep, PTL DEF Spec

-----------------------------------------------------------------------------
\* Firecracker's disks: one that a machine was started from, or will be if the
\* request goes on, is sound; no machine is up yet while its disk is made, nor
\* any more when it is removed; one that nobody was told of is being created; a
\* part of a base image is still being written, or was left behind.
Sound(id) == \/ rootfs[id] \in {"whole", "unfinished"}
             \/ rootfs[id] = "partial" /\ torn
             \/ rootfs[id] = "emptied" /\ id \in stuck
Up(id) == guest[id] \in Alive /\ id \notin lost
UpIsSound == \A id \in Ids : Up(id) => Sound(id)
DisksToBootAreSound ==
  \A c \in Calls : call[c].at \in {"savingBase", "inject", "start"} /\ Live(c) => Sound(call[c].id)
DownMeanwhile ==
  \A c \in Calls :
    call[c].at \in {"create", "savingBase", "inject", "start", "writeHosts", "rewriteHosts"} =>
      ~Up(call[c].id)
UntoldIsCreated ==
  \A id \in Ids : told[id] = "nothing" /\ Up(id) =>
    \E c \in Calls : call[c].op = "create" /\ call[c].id = id /\ call[c].at \in {"boot", "confirm"}
PartIsWritten == base = "partial" => torn \/ \E c \in Calls : call[c].at = "savingBase" /\ Live(c)

DiskInv == UpIsSound /\ DisksToBootAreSound /\ DownMeanwhile /\ UntoldIsCreated /\ PartIsWritten

(* Where a call is after a step. *)
LEMMA GoneTo ==
  ASSUME TypeOK, NEW c \in Calls, call[c] \in InProgress, NEW at \in Steps, Firecracker!Goto(c, at)
  PROVE  /\ \A d \in Calls \ {c} : call'[d] = call[d]
         /\ call'[c].at = at /\ call'[c].op = call[c].op /\ call'[c].id = call[c].id
         /\ call'[c].live = call[c].live /\ call'[c].seen = call[c].seen
<1> DEFINE moved == [call[c] EXCEPT !.at = at]
<1>1. /\ moved.at = at /\ moved.op = call[c].op /\ moved.id = call[c].id
      /\ moved.live = call[c].live /\ moved.seen = call[c].seen
  BY DEF InProgress
<1>2. call' = [call EXCEPT ![c] = moved]
  BY DEF Firecracker!Goto
<1> HIDE DEF moved
<1>. QED
  BY <1>1, <1>2 DEF TypeOK, CallsTypeOK

LEMMA Returned ==
  ASSUME TypeOK, NEW c \in Calls, Firecracker!Return(c)
  PROVE  /\ \A d \in Calls \ {c} : call'[d] = call[d]
         /\ call'[c].at = "idle" /\ call'[c].op = "none"
  BY DEF Firecracker!Return, Firecracker!Idle, TypeOK, CallsTypeOK

LEMMA Told ==
  ASSUME TypeOK, NEW c \in Calls, call[c].id \in Ids, NEW what \in {"started", "failed", "stopped"},
         Firecracker!Tell(c, what)
  PROVE  /\ Firecracker!Return(c)
         /\ \A id \in Ids : told'[id] = "nothing" => told[id] = "nothing"
         /\ call[c].op = "create" => told'[call[c].id] # "nothing"
  BY DEF Firecracker!Tell, TypeOK, CallsTypeOK

(* The sandbox that a call creates is changed by no other call. *)
LEMMA CreatedAlone ==
  ASSUME TypeOK, CallInv, NEW c \in Calls, call[c].op = "create",
         NEW d \in Calls, d # c, call[d].op \in Changes
  PROVE  call[d].id # call[c].id
  BY DEF CallInv, CreationIsUntold, ChangersWereTold, Changes

\* The places of a call that creates or stops a sandbox, as its operation.
LEMMA PlacesOfChanges ==
  ASSUME TypeOK, CallInv, NEW c \in Calls
  PROVE  /\ call[c].at \in {"create", "savingBase", "inject", "start", "boot"} =>
              call[c].op = "create"
         /\ call[c].at \in {"stop", "shutdown", "writeHosts", "rewriteHosts"} => call[c].op = "stop"
         /\ call[c].op # "none" => call[c] \in InProgress /\ call[c].id \in Ids
  BY CallShape DEF CallInv, CallsAreInPlace, Fits, Operations, Changes

(* The disk is made while no machine has it; a part of the base image is copied
   only when its writer was cut off, since one caller is there at a time. *)
LEMMA PrepareDisk ==
  ASSUME TypeOK, CallInv, DiskInv, NEW c \in Calls, Firecracker!PrepareRootfs(c)
  PROVE  DiskInv'
<1> DEFINE id == call[c].id
<1>1. /\ call[c].at = "create" /\ call[c].op = "create" /\ call[c] \in InProgress /\ id \in Ids
      /\ UNCHANGED <<guest, lost, torn>>
      /\ ~Up(id)
  BY PlacesOfChanges DEF Firecracker!PrepareRootfs, Firecracker!At, Firecracker!unchangedByDisk,
                         DiskInv, DownMeanwhile
<1>2. \A jd \in Ids : jd # id => rootfs'[jd] = rootfs[jd]
  BY <1>1 DEF Firecracker!PrepareRootfs, Firecracker!Disk, Firecracker!CleanUp,
              Firecracker!UnmountFails, TypeOK
<1>0. stuck \subseteq stuck'
  BY DEF Firecracker!PrepareRootfs, Firecracker!UnmountFails
<1>3. UpIsSound'
  BY <1>0, <1>1, <1>2 DEF DiskInv, UpIsSound, Up, Sound
<1>4. \A d \in Calls \ {c} : call'[d] = call[d]
  BY <1>1, GoneTo, Returned, Told
     DEF Firecracker!PrepareRootfs, Firecracker!CleanUp, Steps
<1>5. \A d \in Calls \ {c} :
        call[d].at \in {"create", "savingBase", "inject", "start"} => call[d].id # id /\ call[d].id \in Ids
  BY <1>1, PlacesOfChanges, CreatedAlone DEF Changes
<1>6. CASE Firecracker!CleanUp(c) /\ UNCHANGED base
  <2>1. call'[c].at = "idle" /\ call'[c].op = "none" /\ told'[id] # "nothing"
        /\ \A jd \in Ids : told'[jd] = "nothing" => told[jd] = "nothing"
    BY <1>1, <1>6, Returned, Told DEF Firecracker!CleanUp
  <2>2. DisksToBootAreSound' /\ DownMeanwhile'
    BY <1>0, <1>1, <1>2, <1>4, <1>5, <2>1
       DEF DiskInv, DisksToBootAreSound, DownMeanwhile, Up, Sound, Live
  <2>3. UntoldIsCreated'
    BY <1>1, <1>4, <2>1 DEF DiskInv, UntoldIsCreated, Up
  <2>4. PartIsWritten'
    BY <1>1, <1>4, <1>6, <2>1 DEF DiskInv, PartIsWritten, Live
  <2>. QED
    BY <1>3, <2>2, <2>3, <2>4 DEF DiskInv
<1>7. CASE /\ Live(c) /\ told' = told
           /\ \/ \E s \in Firecracker!TemplateImages :
                   Firecracker!Disk(id, s) /\ Firecracker!Goto(c, "inject") /\ UNCHANGED base
              \/ base # "none" /\ Firecracker!Disk(id, base) /\ Firecracker!Goto(c, "inject")
                   /\ UNCHANGED base
              \/ base = "none" /\ Firecracker!Disk(id, "whole") /\ Firecracker!Goto(c, "savingBase")
                   /\ base' = "partial"
  <2>1. /\ call'[c].op = "create" /\ call'[c].id = id /\ call'[c].live = TRUE
        /\ call'[c].at = "inject" \/ call'[c].at = "savingBase"
        /\ call'[c].at = "inject" => base' = base
    BY <1>1, <1>7, GoneTo DEF Steps, Live, InProgress
  <2>2. rootfs'[id] \in {"whole", "unfinished"} \/ (rootfs'[id] = "partial" /\ torn')
    <3>1. base = "partial" => torn
      BY <1>1, <1>7 DEF DiskInv, PartIsWritten, CallInv, OneCallerIsThere, CallsAreInPlace, Fits, Changes
    <3>. QED
      BY <1>1, <1>7, <3>1 DEF Firecracker!Disk, Firecracker!TemplateImages, Sound, TypeOK
  <2>3. DisksToBootAreSound' /\ DownMeanwhile'
    BY <1>0, <1>1, <1>2, <1>4, <1>5, <2>1, <2>2
       DEF DiskInv, DisksToBootAreSound, DownMeanwhile, Up, Sound, Live
  <2>4. UntoldIsCreated'
    BY <1>1, <1>4, <1>7 DEF DiskInv, UntoldIsCreated, Up
  <2>5. PartIsWritten'
    BY <1>1, <1>4, <1>7, <2>1 DEF DiskInv, PartIsWritten, Live
  <2>. QED
    BY <1>3, <2>3, <2>4, <2>5 DEF DiskInv
<1>8. CASE Live(c) /\ Firecracker!UnmountFails(id) /\ Firecracker!Goto(c, "inject")
           /\ UNCHANGED <<base, told>>
  <2>1. call'[c].op = "create" /\ call'[c].id = id /\ call'[c].at = "inject"
    BY <1>1, <1>8, GoneTo DEF Steps
  <2>2. rootfs'[id] = "emptied" /\ id \in stuck'
    BY <1>1, <1>8 DEF Firecracker!UnmountFails, Firecracker!Disk, TypeOK
  <2>3. DisksToBootAreSound' /\ DownMeanwhile'
    BY <1>0, <1>1, <1>2, <1>4, <1>5, <2>1, <2>2
       DEF DiskInv, DisksToBootAreSound, DownMeanwhile, Up, Sound, Live
  <2>4. UntoldIsCreated'
    BY <1>1, <1>4, <1>8 DEF DiskInv, UntoldIsCreated, Up
  <2>5. PartIsWritten'
    BY <1>1, <1>4, <1>8, <2>1 DEF DiskInv, PartIsWritten, Live
  <2>. QED
    BY <1>3, <2>3, <2>4, <2>5 DEF DiskInv
<1>. QED
  BY <1>6, <1>7, <1>8 DEF Firecracker!PrepareRootfs, Firecracker!Live, Live

(* The steps between the making of the disk and the start of the machine. *)
LEMMA SaveBaseDisk ==
  ASSUME TypeOK, CallInv, DiskInv, NEW c \in Calls, Firecracker!SaveBase(c)
  PROVE  DiskInv'
<1>1. /\ call[c].at = "savingBase" /\ call[c].op = "create" /\ call[c] \in InProgress
      /\ UNCHANGED <<guest, lost, rootfs, stuck, told>>
      /\ Firecracker!Goto(c, "inject")
      /\ (base' = "whole" /\ torn' = torn) \/ torn' = TRUE
  BY PlacesOfChanges DEF Firecracker!SaveBase, Firecracker!At, Firecracker!unchangedByDisk
<1>2. /\ \A d \in Calls \ {c} : call'[d] = call[d]
      /\ call'[c].at = "inject" /\ call'[c].op = "create" /\ call'[c].id = call[c].id
      /\ call'[c].live = call[c].live
  BY <1>1, GoneTo DEF Steps
<1>3. \A id \in Ids : Sound(id) => Sound(id)'
  BY <1>1 DEF Sound, TypeOK
<1>4. UpIsSound' /\ UntoldIsCreated' /\ PartIsWritten'
  BY <1>1, <1>2, <1>3 DEF DiskInv, UpIsSound, Up, UntoldIsCreated, PartIsWritten
<1>5. \A d \in Calls : /\ call'[d].id = call[d].id /\ call'[d].live = call[d].live
                       /\ call'[d].at = call[d].at \/ d = c
  BY <1>2
<1>6. DownMeanwhile'
  BY <1>1, <1>2, <1>5 DEF DiskInv, DownMeanwhile, Up
<1>7. DisksToBootAreSound'
  BY <1>1, <1>2, <1>3, <1>5, PlacesOfChanges DEF DiskInv, DisksToBootAreSound, Live, Sound, TypeOK
<1>. QED
  BY <1>4, <1>6, <1>7 DEF DiskInv

LEMMA InjectDisk ==
  ASSUME TypeOK, CallInv, DiskInv, NEW c \in Calls, Firecracker!InjectEnvd(c)
  PROVE  DiskInv'
<1> DEFINE id == call[c].id
<1>1. /\ call[c].at = "inject" /\ call[c].op = "create" /\ call[c] \in InProgress /\ id \in Ids
      /\ UNCHANGED <<guest, lost, told, base, torn>>
      /\ Firecracker!Goto(c, "start")
      /\ ~Up(id)
  BY PlacesOfChanges DEF Firecracker!InjectEnvd, Firecracker!At, Firecracker!unchangedByDisk,
                         DiskInv, DownMeanwhile
<1>2. /\ \A d \in Calls \ {c} : call'[d] = call[d]
      /\ call'[c].at = "start" /\ call'[c].op = "create" /\ call'[c].id = id
      /\ call'[c].live = call[c].live
  BY <1>1, GoneTo DEF Steps
<1>0. stuck \subseteq stuck'
  BY DEF Firecracker!InjectEnvd, Firecracker!UnmountFails
<1>3. /\ \A jd \in Ids : jd # id => rootfs'[jd] = rootfs[jd]
      /\ Live(c) => rootfs' = rootfs \/ (rootfs'[id] = "emptied" /\ id \in stuck')
  BY <1>1 DEF Firecracker!InjectEnvd, Firecracker!UnmountFails, Firecracker!Disk,
              Firecracker!Live, Live, TypeOK
<1>4. UpIsSound' /\ UntoldIsCreated' /\ PartIsWritten'
  BY <1>0, <1>1, <1>2, <1>3 DEF DiskInv, UpIsSound, Up, Sound, UntoldIsCreated, PartIsWritten, Live
<1>5. DownMeanwhile'
  BY <1>1, <1>2 DEF DiskInv, DownMeanwhile, Up
<1>6. \A d \in Calls \ {c} :
        call[d].at \in {"savingBase", "inject", "start"} => call[d].id # id /\ call[d].id \in Ids
  BY <1>1, PlacesOfChanges, CreatedAlone DEF Changes
<1>7. DisksToBootAreSound'
  <2>1. Live(c) => Sound(id)'
    BY <1>0, <1>1, <1>2, <1>3 DEF DiskInv, DisksToBootAreSound, Sound
  <2>2. \A d \in Calls \ {c} :
          call[d].at \in {"savingBase", "inject", "start"} /\ Live(d) => Sound(call[d].id)'
    <3> SUFFICES ASSUME NEW d \in Calls \ {c}, Live(d),
                        call[d].at \in {"savingBase", "inject", "start"}
                 PROVE  Sound(call[d].id)'
      OBVIOUS
    <3>1. Sound(call[d].id) /\ call[d].id \in Ids /\ call[d].id # id /\ call'[d].id = call[d].id
      BY <1>2, <1>6 DEF DiskInv, DisksToBootAreSound
    <3>. QED
      BY <1>0, <1>1, <1>3, <3>1 DEF Sound
  <2>. QED
    BY <1>2, <2>1, <2>2 DEF DisksToBootAreSound, Live, Sound
<1>. QED
  BY <1>4, <1>5, <1>7 DEF DiskInv

(* The machine starts from the disk that its creator, who is still there, made. *)
LEMMA StartDisk ==
  ASSUME TypeOK, CallInv, DiskInv, NEW c \in Calls, Firecracker!StartVm(c)
  PROVE  DiskInv'
<1> DEFINE id == call[c].id
<1>1. /\ call[c].at = "start" /\ call[c].op = "create" /\ call[c] \in InProgress /\ id \in Ids
      /\ UNCHANGED <<lost, base, torn, stuck>>
      /\ ~Up(id)
  BY PlacesOfChanges DEF Firecracker!StartVm, Firecracker!At, DiskInv, DownMeanwhile
<1>2. \A d \in Calls \ {c} :
        /\ call'[d] = call[d]
        /\ call[d].at \in {"create", "savingBase", "inject", "start", "writeHosts", "rewriteHosts"} =>
             call[d].id # id /\ call[d].id \in Ids
  BY <1>1, GoneTo, Returned, Told, PlacesOfChanges, CreatedAlone
     DEF Firecracker!StartVm, Firecracker!CleanUp, Steps, Changes
<1>3. CASE /\ Live(c) /\ Firecracker!SetGuest(id, "running") /\ Firecracker!Goto(c, "boot")
           /\ UNCHANGED <<told, rootfs>>
  <2>1. call'[c].at = "boot" /\ call'[c].op = "create" /\ call'[c].id = id
    BY <1>1, <1>3, GoneTo DEF Steps
  <2>2. \A jd \in Ids : jd # id => guest'[jd] = guest[jd]
    BY <1>3 DEF Firecracker!SetGuest, TypeOK, CallsTypeOK
  <2>3. UpIsSound'
    <3>1. Sound(id)
      BY <1>1, <1>3 DEF DiskInv, DisksToBootAreSound
    <3>. QED
      BY <1>1, <1>3, <2>2, <3>1 DEF DiskInv, UpIsSound, Up, Sound
  <2>4. DisksToBootAreSound' /\ DownMeanwhile'
    BY <1>1, <1>2, <1>3, <2>1, <2>2 DEF DiskInv, DisksToBootAreSound, DownMeanwhile, Up, Sound, Live
  <2>5. UntoldIsCreated' /\ PartIsWritten'
    BY <1>1, <1>2, <1>3, <2>1, <2>2 DEF DiskInv, UntoldIsCreated, PartIsWritten, Up, Live
  <2>. QED
    BY <2>3, <2>4, <2>5 DEF DiskInv
<1>4. CASE Firecracker!CleanUp(c) /\ UNCHANGED guest
  <2>1. /\ call'[c].at = "idle" /\ call'[c].op = "none" /\ told'[id] # "nothing"
        /\ \A jd \in Ids : told'[jd] = "nothing" => told[jd] = "nothing"
    BY <1>1, <1>4, Returned, Told DEF Firecracker!CleanUp
  <2>2. \A jd \in Ids : jd # id => rootfs'[jd] = rootfs[jd]
    BY <1>4 DEF Firecracker!CleanUp, Firecracker!Disk, TypeOK
  <2>3. UpIsSound'
    BY <1>1, <1>4, <2>2 DEF DiskInv, UpIsSound, Up, Sound
  <2>4. DisksToBootAreSound' /\ DownMeanwhile'
    BY <1>1, <1>2, <1>4, <2>1, <2>2 DEF DiskInv, DisksToBootAreSound, DownMeanwhile, Up, Sound, Live
  <2>5. UntoldIsCreated' /\ PartIsWritten'
    BY <1>1, <1>2, <1>4, <2>1 DEF DiskInv, UntoldIsCreated, PartIsWritten, Up, Live
  <2>. QED
    BY <2>3, <2>4, <2>5 DEF DiskInv
<1>. QED
  BY <1>3, <1>4 DEF Firecracker!StartVm, Firecracker!Live, Live

(* Steps of a call that neither makes a disk nor starts a machine; it may remove
   the disk of a machine that is not up. *)
LEMMA QuietDisk ==
  ASSUME TypeOK, CallInv, DiskInv, NEW c \in Calls,
         UNCHANGED <<base, torn, stuck>>,
         \A id \in Ids : Up(id)' => Up(id),
         \A id \in Ids : told'[id] = "nothing" => told[id] = "nothing",
         \A d \in Calls \ {c} : call'[d] = call[d],
         call[c].at # "savingBase",
         call'[c].at \notin {"create", "savingBase", "inject", "start"},
         \A id \in Ids : call'[c].at \in {"writeHosts", "rewriteHosts"} /\ call'[c].id = id => ~Up(id)',
         \A id \in Ids : call[c].op = "create" /\ call[c].id = id /\ Up(id)' /\ told'[id] = "nothing" =>
           call'[c].op = "create" /\ call'[c].id = id /\ call'[c].at \in {"boot", "confirm"},
         \A id \in Ids :
           \/ rootfs'[id] = rootfs[id]
           \/ ~Up(id)' /\ \A d \in Calls \ {c} :
                            call[d].at \in {"savingBase", "inject", "start"} => call[d].id # id,
         call'[c].at # "idle" => call'[c].id \in Ids
  PROVE  DiskInv'
<1>1. UpIsSound'
  BY DEF DiskInv, UpIsSound, Sound
<1>2. \A d \in Calls : call[d].at # "idle" => call[d].id \in Ids
  BY CallShape
<1>3. DisksToBootAreSound'
  BY <1>2 DEF DiskInv, DisksToBootAreSound, Sound, Live
<1>4. DownMeanwhile'
  <2> SUFFICES ASSUME NEW d \in Calls,
                      call'[d].at \in {"create", "savingBase", "inject", "start", "writeHosts",
                                       "rewriteHosts"}
               PROVE  ~Up(call[d].id)'
    BY DEF DownMeanwhile
  <2>1. CASE d = c
    BY <2>1
  <2>2. CASE d # c
    <3>1. ~Up(call[d].id) /\ call'[d] = call[d] /\ call[d].id \in Ids
      BY <1>2, <2>2 DEF DiskInv, DownMeanwhile
    <3>. QED
      BY <3>1
  <2>. QED
    BY <2>1, <2>2
<1>5. UntoldIsCreated'
  <2> SUFFICES ASSUME NEW id \in Ids, told'[id] = "nothing", Up(id)'
               PROVE  \E d \in Calls : /\ call'[d].op = "create" /\ call'[d].id = id
                                       /\ call'[d].at \in {"boot", "confirm"}
    BY DEF UntoldIsCreated
  <2>1. PICK d \in Calls : call[d].op = "create" /\ call[d].id = id /\ call[d].at \in {"boot", "confirm"}
    BY DEF DiskInv, UntoldIsCreated
  <2>. QED
    BY <2>1
<1>6. PartIsWritten'
  BY DEF DiskInv, PartIsWritten, Live
<1>. QED
  BY <1>1, <1>3, <1>4, <1>5, <1>6 DEF DiskInv

LEMMA BootDisk ==
  ASSUME TypeOK, CallInv, DiskInv, NEW c \in Calls, Firecracker!Boot(c)
  PROVE  DiskInv'
<1>1. /\ call[c].at = "boot" /\ call[c] \in InProgress /\ call[c].op = "create" /\ call[c].id \in Ids
      /\ UNCHANGED <<guest, lost, told, rootfs, base, torn, stuck>>
      /\ Firecracker!Goto(c, "confirm")
  BY PlacesOfChanges DEF Firecracker!Boot, Firecracker!At
<1>2. /\ \A d \in Calls \ {c} : call'[d] = call[d]
      /\ call'[c].at = "confirm" /\ call'[c].op = "create" /\ call'[c].id = call[c].id
  BY <1>1, GoneTo DEF Steps
<1>. QED
  BY <1>1, <1>2, QuietDisk DEF Up

LEMMA StopDisk ==
  ASSUME TypeOK, CallInv, DiskInv, NEW c \in Calls, Firecracker!StopSandbox(c)
  PROVE  DiskInv'
<1>1. /\ call[c].at = "stop" /\ call[c] \in InProgress /\ call[c].op = "stop" /\ call[c].id \in Ids
      /\ UNCHANGED <<guest, lost, told, rootfs, base, torn, stuck>>
      /\ Firecracker!Goto(c, "shutdown") \/ Firecracker!Return(c)
  BY PlacesOfChanges DEF Firecracker!StopSandbox, Firecracker!At, Firecracker!files
<1>2. /\ \A d \in Calls \ {c} : call'[d] = call[d]
      /\ call'[c].at = "idle" \/ (call'[c].at = "shutdown" /\ call'[c].id = call[c].id)
  BY <1>1, GoneTo, Returned DEF Steps
<1>. QED
  BY <1>1, <1>2, QuietDisk DEF Up

(* After the shutdown the machine is down, or known to be lost. *)
LEMMA ShutdownDisk ==
  ASSUME TypeOK, CallInv, DiskInv, NEW c \in Calls, Firecracker!Shutdown(c)
  PROVE  DiskInv'
<1> DEFINE id == call[c].id
<1>1. /\ call[c].at = "shutdown" /\ call[c] \in InProgress /\ call[c].op = "stop" /\ id \in Ids
      /\ UNCHANGED <<told, rootfs, base, torn, stuck>>
  BY PlacesOfChanges DEF Firecracker!Shutdown, Firecracker!At
<1>2. /\ \A d \in Calls \ {c} : call'[d] = call[d]
      /\ call'[c] = Idle \/ (call'[c].id = id /\ call'[c].op = "stop")
  BY <1>1, FirecrackerProgress DEF Progress, Firecracker!Step
<1>3. call'[c].at \in {"writeHosts", "idle"}
  BY <1>1, <1>2, FirecrackerCallType
     DEF Firecracker!Step, Firecracker!Shutdown, TypeOK, CallsTypeOK, InProgress, Idle
<1>4. \A jd \in Ids : (Up(jd)' => Up(jd)) /\ (jd = id => ~Up(jd)')
  BY <1>1 DEF Firecracker!Shutdown, Firecracker!SetGuest, Up, Alive, TypeOK, CallsTypeOK
<1>. QED
  BY <1>1, <1>2, <1>3, <1>4, QuietDisk DEF Idle

(* The directory of a machine that is down is removed; nobody creates it anew. *)
LEMMA WriteHostsDisk ==
  ASSUME TypeOK, CallInv, DiskInv, NEW c \in Calls,
         Firecracker!WriteHosts(c) \/ Firecracker!RewriteHosts(c)
  PROVE  DiskInv'
<1> DEFINE id == call[c].id
<1>1. /\ call[c].at \in {"writeHosts", "rewriteHosts"}
      /\ call[c] \in InProgress /\ call[c].op = "stop" /\ id \in Ids
      /\ UNCHANGED <<guest, lost, base, torn, stuck>>
      /\ ~Up(id)
  BY PlacesOfChanges DEF Firecracker!WriteHosts, Firecracker!RewriteHosts, Firecracker!At,
                         DiskInv, DownMeanwhile
<1>2. \/ told' = told /\ Firecracker!Goto(c, "rewriteHosts")
      \/ Firecracker!Tell(c, "stopped")
  BY DEF Firecracker!WriteHosts, Firecracker!RewriteHosts
<1>3. /\ \A d \in Calls \ {c} : call'[d] = call[d]
      /\ call'[c].at = "idle" \/ (call'[c].at = "rewriteHosts" /\ call'[c].id = id)
      /\ \A jd \in Ids : told'[jd] = "nothing" => told[jd] = "nothing"
  BY <1>1, <1>2, GoneTo, Returned, Told DEF Steps
<1>4. \A jd \in Ids : rootfs'[jd] = rootfs[jd] \/ jd = id
  BY DEF Firecracker!WriteHosts, Firecracker!RewriteHosts, Firecracker!Disk, TypeOK
<1>5. \A d \in Calls \ {c} : call[d].at \in {"savingBase", "inject", "start"} => call[d].id # id
  BY <1>1, PlacesOfChanges DEF CallInv, CreationIsUntold, ChangersWereTold
<1>6. ~Up(id) /\ \A jd \in Ids : Up(jd)' <=> Up(jd)
  BY <1>1 DEF Up
<1>. QED
  BY <1>1, <1>3, <1>4, <1>5, <1>6, QuietDisk

(* A pause or a resume finds a machine that is alive, or changes none. *)
LEMMA PauseDisk ==
  ASSUME TypeOK, CallInv, DiskInv, NEW c \in Calls,
         \/ Firecracker!PauseVm(c) \/ Firecracker!CreateSnapshot(c)
         \/ Firecracker!ResumeSandbox(c) \/ Firecracker!ResumeVm(c)
  PROVE  DiskInv'
<1>1. /\ call[c].at \in {"pause", "snapshot", "resume", "resuming"}
      /\ call[c] \in InProgress /\ call[c].op # "create" /\ call[c].id \in Ids
      /\ UNCHANGED <<lost, told, rootfs, base, torn, stuck>>
  BY CallShape
     DEF Firecracker!PauseVm, Firecracker!CreateSnapshot, Firecracker!ResumeSandbox,
         Firecracker!ResumeVm, Firecracker!At, Firecracker!files, CallInv, CallsAreInPlace, Fits,
         Operations, Changes
<1>2. Firecracker!Goto(c, "snapshot") \/ Firecracker!Goto(c, "resuming") \/ Firecracker!Return(c)
  BY DEF Firecracker!PauseVm, Firecracker!CreateSnapshot, Firecracker!ResumeSandbox,
         Firecracker!ResumeVm
<1>3. /\ \A d \in Calls \ {c} : call'[d] = call[d]
      /\ call'[c].at = "idle" \/ (call'[c].at \in {"snapshot", "resuming"} /\ call'[c].id = call[c].id)
  BY <1>1, <1>2, GoneTo, Returned DEF Steps
<1>4. \A id \in Ids : Up(id)' => Up(id)
  BY <1>1
     DEF Firecracker!PauseVm, Firecracker!CreateSnapshot, Firecracker!ResumeSandbox,
         Firecracker!ResumeVm, Firecracker!SetGuest, Up, Alive, TypeOK, CallsTypeOK
<1>. QED
  BY <1>1, <1>3, <1>4, QuietDisk

LEMMA AnswerDisk ==
  ASSUME TypeOK, CallInv, DiskInv, NEW c \in Calls, Confirm(c) \/ Answer(c)
  PROVE  DiskInv'
<1>1. /\ call[c].at \in {"confirm", "status", "exec"}
      /\ call[c] \in InProgress /\ call[c].id \in Ids
      /\ UNCHANGED <<guest, lost, rootfs, base, torn, stuck>>
      /\ call[c].op = "create" <=> call[c].at = "confirm"
  BY CallShape DEF Confirm, Answer, At, files, CallInv, CallsAreInPlace, Fits, Operations, Changes
<1>2. /\ \A d \in Calls \ {c} : call'[d] = call[d]
      /\ call'[c].at = "idle"
      /\ \A id \in Ids : told'[id] = "nothing" => told[id] = "nothing"
      /\ call[c].op = "create" => told'[call[c].id] # "nothing"
  BY <1>1 DEF Confirm, Answer, Tell, Return, Idle, At, TypeOK, CallsTypeOK
<1>. QED
  BY <1>1, <1>2, QuietDisk DEF Up

(* A creation is asked for where nothing is up. *)
LEMMA ReceiveDisk ==
  ASSUME TypeOK, CallInv, DiskInv, NEW c \in Calls, NEW op \in Operations, NEW id \in Ids,
         Receive(c, op, id)
  PROVE  DiskInv'
<1>1. /\ call[c] = Idle /\ UNCHANGED <<told, guest, lost, rootfs, base, torn, stuck>>
      /\ \A d \in Calls \ {c} : call'[d] = call[d]
      /\ call'[c].op = op /\ call'[c].at = op /\ call'[c].id = id
  BY DEF Receive, Begin, TypeOK, CallsTypeOK, Idle
<1>2. Idle.at = "idle" /\ Idle.op = "none"
  BY DEF Idle
<1>3. op = "create" => ~Up(id)
  <2>1. op = "create" => told[id] = "nothing" /\ ~Busy(id)
    BY DEF Receive, Asked, Operations, Changes
  <2>. QED
    BY <2>1 DEF DiskInv, UntoldIsCreated, Busy, Changes
<1>4. UpIsSound' /\ UntoldIsCreated' /\ PartIsWritten'
  BY <1>1, <1>2 DEF DiskInv, UpIsSound, UntoldIsCreated, PartIsWritten, Up, Sound, Live
<1>5. DisksToBootAreSound'
  BY <1>1 DEF DiskInv, DisksToBootAreSound, Sound, Live, Operations, Changes
<1>6. DownMeanwhile'
  BY <1>1, <1>3 DEF DiskInv, DownMeanwhile, Up, Operations, Changes
<1>. QED
  BY <1>4, <1>5, <1>6 DEF DiskInv

(* A request that ends while the base image is written tears it. *)
LEMMA RequestEndsDisk ==
  ASSUME TypeOK, CallInv, DiskInv, NEW c \in Calls, RequestEnds(c)
  PROVE  DiskInv'
<1>1. call[c] \in InProgress /\ UNCHANGED <<told, guest, lost, rootfs, base, stuck>>
      /\ torn' = (torn \/ call[c].at = "savingBase")
  BY CallShape DEF RequestEnds, Changes, At
<1> DEFINE left == [call[c] EXCEPT !.live = FALSE]
<1>2. left.op = call[c].op /\ left.at = call[c].at /\ left.id = call[c].id /\ left.live = FALSE
  BY <1>1 DEF InProgress
<1>3. call' = [call EXCEPT ![c] = left]
  BY DEF RequestEnds
<1> HIDE DEF left
<1>4. (\A d \in Calls \ {c} : call'[d] = call[d]) /\ call'[c] = left
  BY <1>3 DEF TypeOK, CallsTypeOK
<1>5. \A d \in Calls : /\ call'[d].op = call[d].op /\ call'[d].at = call[d].at
                       /\ call'[d].id = call[d].id
                       /\ Live(d)' => Live(d)
  BY <1>2, <1>4 DEF Live
<1>6. \A id \in Ids : Sound(id) => Sound(id)'
  BY <1>1 DEF Sound
<1>7. UpIsSound' /\ UntoldIsCreated' /\ DownMeanwhile'
  BY <1>1, <1>5, <1>6 DEF DiskInv, UpIsSound, UntoldIsCreated, DownMeanwhile, Up
<1>8. DisksToBootAreSound'
  BY <1>1, <1>5 DEF DiskInv, DisksToBootAreSound, Sound
<1>9. PartIsWritten'
  BY <1>1, <1>4 DEF DiskInv, PartIsWritten, Live, TypeOK
<1>. QED
  BY <1>7, <1>8, <1>9 DEF DiskInv

LEMMA GuestEndsDisk ==
  ASSUME TypeOK, CallInv, DiskInv, NEW id \in Ids, GuestDies(id) \/ VmKilled(id)
  PROVE  DiskInv'
<1>1. UNCHANGED <<call, told, lost, rootfs, base, torn, stuck>> /\ guest' = [guest EXCEPT ![id] = "dead"]
  BY DEF GuestDies, VmKilled, SetGuest, Firecracker!ContextKills, Firecracker!SetGuest
<1>2. \A jd \in Ids : Up(jd)' => Up(jd)
  BY <1>1 DEF Up, Alive, TypeOK, CallsTypeOK
<1>3. \A c \in Calls : call[c].at # "idle" => call[c].id \in Ids
  BY CallShape
<1>4. UpIsSound' /\ UntoldIsCreated' /\ PartIsWritten' /\ DisksToBootAreSound'
  BY <1>1, <1>2 DEF DiskInv, UpIsSound, UntoldIsCreated, PartIsWritten, DisksToBootAreSound, Sound,
                    Live
<1>5. DownMeanwhile'
  <2>1. \A c \in Calls : call[c].id \in Ids => (Up(call[c].id)' => Up(call[c].id))
    BY <1>1, <1>2
  <2>. QED
    BY <1>1, <1>3, <2>1 DEF DiskInv, DownMeanwhile
<1>. QED
  BY <1>4, <1>5 DEF DiskInv

(* What was alive when the process ended is lost. *)
LEMMA AgentStopsDisk ==
  ASSUME TypeOK, runtime = "firecracker", AgentStops
  PROVE  DiskInv'
<1>1. /\ \A c \in Calls : call'[c] = Idle
      /\ torn' = TRUE /\ guest' = guest
      /\ lost' = lost \cup {id \in Ids : guest[id] \in Alive}
  BY DEF AgentStops
<1>2. Idle.at = "idle"
  BY DEF Idle
<1>3. \A id \in Ids : ~Up(id)'
  BY <1>1 DEF Up
<1>. QED
  BY <1>1, <1>2, <1>3 DEF DiskInv, UpIsSound, UntoldIsCreated, DownMeanwhile, PartIsWritten,
                          DisksToBootAreSound

-----------------------------------------------------------------------------
DiskHolds == runtime = "firecracker" => DiskInv

LEMMA DiskInit == Init => DiskHolds
<1> SUFFICES ASSUME Init PROVE DiskInv
  BY DEF DiskHolds
<1>1. \A c \in Calls : call[c].at = "idle"
  BY DEF Init, CallsInit, Idle
<1>2. \A id \in Ids : ~Up(id)
  BY DEF Init, CallsInit, Up, Alive
<1>3. base = "none"
  BY DEF Init
<1>. QED
  BY <1>1, <1>2, <1>3 DEF DiskInv, UpIsSound, UntoldIsCreated, DownMeanwhile, PartIsWritten,
                          DisksToBootAreSound

LEMMA DiskStep == TypeOK /\ CallInv /\ DiskHolds /\ [Next]_vars => DiskHolds'
<1> SUFFICES ASSUME TypeOK, CallInv, DiskHolds, [Next]_vars, runtime' = "firecracker"
             PROVE  DiskInv'
  BY DEF DiskHolds
<1>1. runtime = "firecracker" /\ DiskInv
  BY DEF DiskHolds, Next, Handle, RuntimeStep, Confirm, Answer, ExecPanics, AgentStops, RequestEnds,
         GuestDies, VmKilled, Receive, vars
<1>2. CASE UNCHANGED vars
  BY <1>1, <1>2 DEF vars, agentVars, files, DiskInv, UpIsSound, UntoldIsCreated, DownMeanwhile,
                    PartIsWritten, DisksToBootAreSound, Up, Sound, Live
<1>3. CASE \E c \in Calls : RuntimeStep(c)
  BY <1>1, <1>3, PrepareDisk, SaveBaseDisk, InjectDisk, StartDisk, BootDisk, StopDisk, ShutdownDisk,
     WriteHostsDisk, PauseDisk
     DEF RuntimeStep, Firecracker!Step
<1>4. CASE \E c \in Calls : Confirm(c) \/ Answer(c) \/ RequestEnds(c)
  BY <1>1, <1>4, AnswerDisk, RequestEndsDisk
<1>5. CASE \E c \in Calls, op \in Operations, id \in Ids : Receive(c, op, id)
  BY <1>1, <1>5, ReceiveDisk
<1>6. CASE \E id \in Ids : GuestDies(id) \/ VmKilled(id)
  BY <1>1, <1>6, GuestEndsDisk
<1>7. CASE AgentStops
  BY <1>1, <1>7, AgentStopsDisk
<1>. QED
  BY <1>2, <1>3, <1>4, <1>5, <1>6, <1>7 DEF Next, Handle, ExecPanics

(* BootsFromItsDisk: no machine is started from a disk that was removed, or that
   the end of its request emptied; one that has an emptied disk is one whose umount
   failed while its request went on; and none from a part of the base image unless
   creations overlapped, were cut off or ran out of disk. *)
THEOREM DisksHold == Spec => []BootsFromItsDisk
<1>1. DiskHolds => BootsFromItsDisk
  BY DEF DiskHolds, DiskInv, UpIsSound, Up, Sound, BootsFromItsDisk
<1>2. IInv => TypeOK
  BY DEF IInv
<1>. QED
  BY <1>1, <1>2, InvHolds, CallsHold, DiskInit, DiskStep, PTL DEF Spec

-----------------------------------------------------------------------------
\* /etc/hosts while stops do not overlap with creations or each other: outside a
\* stop it names the machines in the table; a stop has taken its entry, and holds
\* the other names while the file is empty.
StopsAreAlone ==
  \A c, d \in Calls : call[c].op = "stop" /\ call[d].op \in {"create", "stop"} => c = d
Names(names, id) == \A jd \in Ids : jd # id => (entry[jd] # "none" <=> jd \in names)
ShutsDown(c) == call[c].at \in {"shutdown", "writeHosts"}
NamesAreHeld ==
  /\ \A c \in Calls : ShutsDown(c) =>
       /\ entry[call[c].id] = "none" /\ Names(hosts, call[c].id)
       /\ call[c].at = "writeHosts" => call[c].seen = hosts
  /\ \A c \in Calls : call[c].at = "rewriteHosts" =>
       entry[call[c].id] = "none" /\ Names(call[c].seen, call[c].id)
NamesAreThere ==
  (\A c \in Calls : ~ShutsDown(c) /\ call[c].at # "rewriteHosts") =>
    \A id \in Ids : entry[id] # "none" <=> id \in hosts

HostsInv == StopsAreAlone /\ NamesAreHeld /\ NamesAreThere
HostsHold == runtime = "firecracker" /\ ~untidy => HostsInv

(* Steps that leave the file alone, and the entries where they are. *)
LEMMA QuietHosts ==
  ASSUME TypeOK, HostsInv, hosts' = hosts,
         \A id \in Ids : entry'[id] = "none" <=> entry[id] = "none",
         \A c \in Calls : /\ call'[c].op \in {"create", "stop"} => call'[c].op = call[c].op
                          /\ ShutsDown(c)' \/ call'[c].at = "rewriteHosts" =>
                               call'[c].at = call[c].at /\ call'[c].id = call[c].id
                                 /\ call'[c].seen = call[c].seen
                          /\ ShutsDown(c) \/ call[c].at = "rewriteHosts" => call'[c].at = call[c].at
  PROVE  HostsInv'
<1>1. StopsAreAlone'
  BY DEF HostsInv, StopsAreAlone
<1>2. \A c \in Calls : call[c].at # "idle" => call[c].id \in Ids
  BY CallShape
<1>3. NamesAreHeld'
  BY <1>2 DEF HostsInv, NamesAreHeld, ShutsDown, Names
<1>4. NamesAreThere'
  BY DEF HostsInv, NamesAreThere, ShutsDown
<1>. QED
  BY <1>1, <1>3, <1>4 DEF HostsInv

LEMMA BootHosts ==
  ASSUME TypeOK, CallInv, HostsInv, NEW c \in Calls, Firecracker!Boot(c), ~untidy'
  PROVE  HostsInv'
<1> DEFINE id == call[c].id
<1>1. /\ call[c].at = "boot" /\ call[c] \in InProgress /\ call[c].op = "create" /\ id \in Ids
      /\ hosts' = hosts \cup {id} /\ entry' = [entry EXCEPT ![id] = "running"]
      /\ Firecracker!Goto(c, "confirm")
  BY PlacesOfChanges DEF Firecracker!Boot, Firecracker!At, Firecracker!SetEntry
<1>2. /\ \A d \in Calls \ {c} : call'[d] = call[d]
      /\ call'[c].at = "confirm" /\ call'[c].op = "create"
  BY <1>1, GoneTo DEF Steps
<1>3. \A d \in Calls : ~ShutsDown(d) /\ call[d].at # "rewriteHosts"
  BY <1>1, PlacesOfChanges DEF HostsInv, StopsAreAlone, ShutsDown
<1>4. NamesAreHeld'
  BY <1>2, <1>3 DEF NamesAreHeld, ShutsDown
<1>5. NamesAreThere'
  BY <1>1, <1>3 DEF HostsInv, NamesAreThere, TypeOK, CallsTypeOK
<1>6. StopsAreAlone'
  BY <1>1, <1>2 DEF HostsInv, StopsAreAlone
<1>. QED
  BY <1>4, <1>5, <1>6 DEF HostsInv

LEMMA StopHosts ==
  ASSUME TypeOK, CallInv, HostsInv, NEW c \in Calls, Firecracker!StopSandbox(c)
  PROVE  HostsInv'
<1> DEFINE id == call[c].id
<1>1. /\ call[c].at = "stop" /\ call[c] \in InProgress /\ call[c].op = "stop" /\ id \in Ids
      /\ hosts' = hosts
  BY PlacesOfChanges DEF Firecracker!StopSandbox, Firecracker!At, Firecracker!files
<1>2. \A d \in Calls : ~ShutsDown(d) /\ call[d].at # "rewriteHosts"
  BY <1>1, PlacesOfChanges DEF HostsInv, StopsAreAlone, ShutsDown
<1>3. \A jd \in Ids : entry[jd] # "none" <=> jd \in hosts
  BY <1>2 DEF HostsInv, NamesAreThere
<1>4. CASE Firecracker!Return(c) /\ UNCHANGED entry
  <2>1. /\ \A d \in Calls \ {c} : call'[d] = call[d]
        /\ call'[c].at = "idle" /\ call'[c].op = "none"
    BY <1>4, Returned
  <2>. QED
    BY <1>1, <1>2, <1>4, <2>1, QuietHosts DEF ShutsDown
<1>5. CASE Firecracker!SetEntry(id, "none") /\ Firecracker!Goto(c, "shutdown")
  <2>1. /\ \A d \in Calls \ {c} : call'[d] = call[d]
        /\ call'[c].at = "shutdown" /\ call'[c].op = "stop" /\ call'[c].id = id
    BY <1>1, <1>5, GoneTo DEF Steps
  <2>2. entry'[id] = "none" /\ \A jd \in Ids : jd # id => entry'[jd] = entry[jd]
    BY <1>1, <1>5 DEF Firecracker!SetEntry, TypeOK, CallsTypeOK
  <2>3. StopsAreAlone'
    BY <1>1, <2>1 DEF HostsInv, StopsAreAlone
  <2>4. NamesAreHeld' /\ NamesAreThere'
    BY <1>1, <1>2, <1>3, <2>1, <2>2 DEF NamesAreHeld, NamesAreThere, ShutsDown, Names
  <2>. QED
    BY <2>3, <2>4 DEF HostsInv
<1>. QED
  BY <1>4, <1>5 DEF Firecracker!StopSandbox

LEMMA ShutdownHosts ==
  ASSUME TypeOK, CallInv, HostsInv, NEW c \in Calls, Firecracker!Shutdown(c)
  PROVE  HostsInv'
<1> DEFINE id == call[c].id
<1>1. /\ call[c].at = "shutdown" /\ call[c] \in InProgress /\ call[c].op = "stop" /\ id \in Ids
      /\ UNCHANGED <<hosts, entry>>
  BY PlacesOfChanges DEF Firecracker!Shutdown, Firecracker!At
<1> DEFINE moved == [call EXCEPT ![c].at = "writeHosts"]
<1>2. call' = [moved EXCEPT ![c].seen = hosts]
  BY DEF Firecracker!Shutdown
<1>3. /\ moved \in [Calls -> InProgress \cup {Idle}] /\ moved[c] \in InProgress
      /\ moved[c].at = "writeHosts" /\ moved[c].op = "stop" /\ moved[c].id = id
      /\ \A d \in Calls \ {c} : moved[d] = call[d]
  <2>1. [call[c] EXCEPT !.at = "writeHosts"] \in InProgress
    BY <1>1, CallShape DEF Steps
  <2>2. /\ [call[c] EXCEPT !.at = "writeHosts"].at = "writeHosts"
        /\ [call[c] EXCEPT !.at = "writeHosts"].op = "stop"
        /\ [call[c] EXCEPT !.at = "writeHosts"].id = id
    BY <1>1 DEF InProgress
  <2>. QED
    BY <2>1, <2>2 DEF TypeOK, CallsTypeOK
<1> HIDE DEF moved
<1>4. \A d \in Calls \ {c} : call'[d] = call[d]
  BY <1>2, <1>3
<1>5. call'[c].at = "writeHosts" /\ call'[c].op = "stop" /\ call'[c].id = id /\ call'[c].seen = hosts
  <2>1. call'[c] = [moved[c] EXCEPT !.seen = hosts]
    BY <1>2, <1>3
  <2>. QED
    BY <1>3, <2>1 DEF InProgress
<1>6. \A d \in Calls \ {c} : ~ShutsDown(d) /\ call[d].at # "rewriteHosts"
  BY <1>1, PlacesOfChanges DEF HostsInv, StopsAreAlone, ShutsDown
<1>7. StopsAreAlone'
  BY <1>1, <1>4, <1>5 DEF HostsInv, StopsAreAlone
<1>8. entry[id] = "none" /\ \A jd \in Ids : jd # id => (entry[jd] # "none" <=> jd \in hosts)
  BY <1>1 DEF HostsInv, NamesAreHeld, ShutsDown, Names
<1>9. NamesAreHeld'
  BY <1>1, <1>4, <1>5, <1>6, <1>8 DEF NamesAreHeld, ShutsDown, Names
<1>10. NamesAreThere'
  BY <1>5 DEF NamesAreThere, ShutsDown
<1>. QED
  BY <1>7, <1>9, <1>10 DEF HostsInv

LEMMA WriteHostsHosts ==
  ASSUME TypeOK, CallInv, HostsInv, NEW c \in Calls, ~untidy',
         Firecracker!WriteHosts(c) \/ Firecracker!RewriteHosts(c)
  PROVE  HostsInv'
<1> DEFINE id == call[c].id
<1>1. /\ call[c].at \in {"writeHosts", "rewriteHosts"}
      /\ call[c] \in InProgress /\ call[c].op = "stop" /\ id \in Ids
      /\ entry' = entry
  BY PlacesOfChanges DEF Firecracker!WriteHosts, Firecracker!RewriteHosts, Firecracker!At
<1>2. \A d \in Calls \ {c} : ~ShutsDown(d) /\ call[d].at # "rewriteHosts"
  BY <1>1, PlacesOfChanges DEF HostsInv, StopsAreAlone, ShutsDown
<1>3. CASE Firecracker!WriteHosts(c)
  <2>1. call[c].at = "writeHosts" /\ Firecracker!Goto(c, "rewriteHosts")
    BY <1>3 DEF Firecracker!WriteHosts, Firecracker!At
  <2>2. /\ \A d \in Calls \ {c} : call'[d] = call[d]
        /\ call'[c].at = "rewriteHosts" /\ call'[c].op = "stop" /\ call'[c].id = id
        /\ call'[c].seen = call[c].seen
    BY <1>1, <2>1, GoneTo DEF Steps
  <2>3. StopsAreAlone'
    BY <1>1, <2>2 DEF HostsInv, StopsAreAlone
  <2>4. NamesAreHeld' /\ NamesAreThere'
    BY <1>1, <1>2, <2>1, <2>2 DEF HostsInv, NamesAreHeld, NamesAreThere, ShutsDown, Names
  <2>. QED
    BY <2>3, <2>4 DEF HostsInv
<1>4. CASE Firecracker!RewriteHosts(c)
  <2>1. /\ call[c].at = "rewriteHosts" /\ hosts' = call[c].seen \ {id}
        /\ Firecracker!Tell(c, "stopped")
    BY <1>4 DEF Firecracker!RewriteHosts, Firecracker!At
  <2>2. /\ \A d \in Calls \ {c} : call'[d] = call[d]
        /\ call'[c].at = "idle" /\ call'[c].op = "none"
    BY <1>1, <2>1, Returned, Told
  <2>3. StopsAreAlone'
    BY <1>1, <2>2 DEF HostsInv, StopsAreAlone
  <2>4. NamesAreHeld' /\ NamesAreThere'
    BY <1>1, <1>2, <2>1, <2>2 DEF HostsInv, NamesAreHeld, NamesAreThere, ShutsDown, Names
  <2>. QED
    BY <2>3, <2>4 DEF HostsInv
<1>. QED
  BY <1>3, <1>4

(* The other steps of Firecracker leave the file alone. *)
LEMMA OtherHosts ==
  ASSUME TypeOK, CallInv, HostsInv, NEW c \in Calls,
         \/ Firecracker!PrepareRootfs(c) \/ Firecracker!SaveBase(c) \/ Firecracker!InjectEnvd(c)
         \/ Firecracker!StartVm(c) \/ Firecracker!PauseVm(c) \/ Firecracker!CreateSnapshot(c)
         \/ Firecracker!ResumeSandbox(c) \/ Firecracker!ResumeVm(c)
  PROVE  HostsInv'
<1>1. /\ call[c].at \in {"create", "savingBase", "inject", "start", "pause", "snapshot", "resume",
                         "resuming"}
      /\ call[c] \in InProgress /\ call[c].id \in Ids
  BY CallShape
     DEF Firecracker!PrepareRootfs, Firecracker!SaveBase, Firecracker!InjectEnvd,
         Firecracker!StartVm, Firecracker!PauseVm, Firecracker!CreateSnapshot,
         Firecracker!ResumeSandbox, Firecracker!ResumeVm, Firecracker!At
<1>2. hosts' = hosts
  BY DEF Firecracker!PrepareRootfs, Firecracker!SaveBase, Firecracker!InjectEnvd,
         Firecracker!StartVm, Firecracker!PauseVm, Firecracker!CreateSnapshot,
         Firecracker!ResumeSandbox, Firecracker!ResumeVm, Firecracker!unchangedByDisk,
         Firecracker!files
<1>3. \A id \in Ids : entry'[id] = "none" <=> entry[id] = "none"
  BY <1>1
     DEF Firecracker!PrepareRootfs, Firecracker!SaveBase, Firecracker!InjectEnvd,
         Firecracker!StartVm, Firecracker!PauseVm, Firecracker!CreateSnapshot,
         Firecracker!ResumeSandbox, Firecracker!ResumeVm, Firecracker!unchangedByDisk,
         Firecracker!SetEntry, Firecracker!Marked, TypeOK, CallsTypeOK
<1>4. \/ \E at \in {"savingBase", "inject", "start", "boot", "snapshot", "resuming"} :
           Firecracker!Goto(c, at)
      \/ Firecracker!Return(c)
  BY DEF Firecracker!PrepareRootfs, Firecracker!SaveBase, Firecracker!InjectEnvd,
         Firecracker!StartVm, Firecracker!PauseVm, Firecracker!CreateSnapshot,
         Firecracker!ResumeSandbox, Firecracker!ResumeVm, Firecracker!CleanUp, Firecracker!Tell
<1>5. /\ \A d \in Calls \ {c} : call'[d] = call[d]
      /\ call'[c].op = "none" \/ call'[c].op = call[c].op
      /\ call'[c].at \in {"idle", "savingBase", "inject", "start", "boot", "snapshot", "resuming"}
  BY <1>1, <1>4, GoneTo, Returned DEF Steps
<1>. QED
  BY <1>1, <1>2, <1>3, <1>5, QuietHosts DEF ShutsDown

LEMMA HostsInit == Init => HostsHold
<1> SUFFICES ASSUME Init PROVE HostsInv
  BY DEF HostsHold
<1>1. \A c \in Calls : call[c].at = "idle" /\ call[c].op = "none"
  BY DEF Init, CallsInit, Idle
<1>2. hosts = {} /\ \A id \in Ids : entry[id] = "none"
  BY DEF Init, CallsInit
<1>. QED
  BY <1>1, <1>2 DEF HostsInv, StopsAreAlone, NamesAreHeld, NamesAreThere, ShutsDown

LEMMA HostsStep == TypeOK /\ CallInv /\ HostsHold /\ [Next]_vars => HostsHold'
<1> SUFFICES ASSUME TypeOK, CallInv, HostsHold, [Next]_vars, runtime' = "firecracker", ~untidy'
             PROVE  HostsInv'
  BY DEF HostsHold
<1>1. runtime = "firecracker"
  BY DEF Next, Handle, RuntimeStep, Confirm, Answer, ExecPanics, AgentStops, RequestEnds,
         GuestDies, VmKilled, Receive, vars
<1>2. CASE UNCHANGED vars
  BY <1>1, <1>2 DEF vars, agentVars, files, HostsHold, HostsInv, StopsAreAlone, NamesAreHeld,
                    NamesAreThere, ShutsDown, Names
<1>3. CASE \E c \in Calls : RuntimeStep(c)
  <2>1. PICK c \in Calls : Firecracker!Step(c)
    BY <1>1, <1>3 DEF RuntimeStep
  <2>2. ~untidy
    BY <2>1
       DEF Firecracker!Step, Firecracker!PrepareRootfs, Firecracker!SaveBase, Firecracker!InjectEnvd,
           Firecracker!StartVm, Firecracker!Boot, Firecracker!StopSandbox, Firecracker!Shutdown,
           Firecracker!WriteHosts, Firecracker!RewriteHosts, Firecracker!PauseVm,
           Firecracker!CreateSnapshot, Firecracker!ResumeSandbox, Firecracker!ResumeVm,
           Firecracker!unchangedByDisk, Firecracker!files
  <2>. QED
    BY <1>1, <2>1, <2>2, BootHosts, StopHosts, ShutdownHosts, WriteHostsHosts, OtherHosts
       DEF HostsHold, Firecracker!Step
<1>4. CASE \E c \in Calls : Confirm(c) \/ Answer(c)
  <2>1. PICK c \in Calls : Confirm(c) \/ Answer(c)
    BY <1>4
  <2>2. /\ HostsInv /\ UNCHANGED <<hosts, entry>>
        /\ call[c].at \in {"confirm", "status", "exec"}
        /\ \A d \in Calls \ {c} : call'[d] = call[d]
        /\ call'[c] = Idle
    BY <1>1, <2>1 DEF HostsHold, Confirm, Answer, files, At, Tell, Return, TypeOK, CallsTypeOK
  <2>. QED
    BY <2>2, QuietHosts DEF ShutsDown, Idle
<1>5. CASE \E c \in Calls : RequestEnds(c)
  <2>1. PICK c \in Calls : RequestEnds(c)
    BY <1>5
  <2> DEFINE left == [call[c] EXCEPT !.live = FALSE]
  <2>2. /\ left.op = call[c].op /\ left.at = call[c].at /\ left.id = call[c].id
        /\ left.seen = call[c].seen
    BY <2>1, CallShape DEF RequestEnds, Changes, InProgress
  <2>3. HostsInv /\ UNCHANGED <<hosts, entry>> /\ call' = [call EXCEPT ![c] = left]
    BY <1>1, <2>1 DEF HostsHold, RequestEnds
  <2> HIDE DEF left
  <2>4. (\A d \in Calls \ {c} : call'[d] = call[d]) /\ call'[c] = left
    BY <2>3 DEF TypeOK, CallsTypeOK
  <2>. QED
    BY <2>2, <2>3, <2>4, QuietHosts DEF ShutsDown
<1>6. CASE \E c \in Calls, op \in Operations, id \in Ids : Receive(c, op, id)
  <2>1. PICK c \in Calls, op \in Operations, id \in Ids : Receive(c, op, id)
    BY <1>6
  <2>2. /\ HostsInv /\ UNCHANGED <<hosts, entry>> /\ ~Crosses(op)
        /\ \A d \in Calls \ {c} : call'[d] = call[d]
        /\ call[c] = Idle /\ call'[c].op = op /\ call'[c].at = op
    BY <1>1, <2>1 DEF HostsHold, Receive, Begin, TypeOK, CallsTypeOK, Idle
  <2>3. Idle.at = "idle" /\ Idle.op = "none"
    BY DEF Idle
  <2>4. StopsAreAlone'
    BY <2>2, <2>3 DEF HostsInv, StopsAreAlone, Crosses, Doing
  <2>5. NamesAreHeld' /\ NamesAreThere'
    BY <2>2, <2>3 DEF HostsInv, NamesAreHeld, NamesAreThere, ShutsDown, Names, Operations, Changes
  <2>. QED
    BY <2>4, <2>5 DEF HostsInv
<1>7. CASE \E id \in Ids : GuestDies(id) \/ VmKilled(id)
  <2>1. HostsInv /\ UNCHANGED <<call, hosts, entry>>
    BY <1>1, <1>7 DEF HostsHold, GuestDies, VmKilled, Firecracker!ContextKills
  <2>. QED
    BY <2>1, QuietHosts DEF ShutsDown
<1>8. CASE AgentStops
  BY <1>1, <1>8 DEF AgentStops
<1>. QED
  BY <1>2, <1>3, <1>4, <1>5, <1>6, <1>7, <1>8 DEF Next, Handle, ExecPanics

(* NamesMatch: once no stop is at work, /etc/hosts names the machines in the
   table and no others, unless a stop overlapped with a creation or another stop,
   or the file could not be written. *)
THEOREM NamesHold == Spec => []NamesMatch
<1>1. TypeOK /\ CallInv /\ HostsHold => NamesMatch
  <2> SUFFICES ASSUME TypeOK, CallInv, HostsInv, ~Doing({"stop"}), NEW id \in Ids
               PROVE  entry[id] # "none" <=> id \in hosts
    BY DEF HostsHold, NamesMatch
  <2>1. \A c \in Calls : ~ShutsDown(c) /\ call[c].at # "rewriteHosts"
    BY PlacesOfChanges DEF ShutsDown, Doing
  <2>. QED
    BY <2>1 DEF HostsInv, NamesAreThere
<1>2. IInv => TypeOK
  BY DEF IInv
<1>. QED
  BY <1>1, <1>2, InvHolds, CallsHold, HostsInit, HostsStep, PTL DEF Spec

-----------------------------------------------------------------------------
(* The guests of the node agent, over each of its runtimes: what runs is known
   to someone, and is in the state that the table says. *)

\* A guest that is up is in the table and its creator was told, or a call is about
\* to see to it; an entry that nobody was told of is about to be confirmed; a
\* machine is shut down after its entry has gone.
Brings(c, id) == /\ call[c].op = "create" /\ call[c].id = id
                 /\ call[c].at = "boot" \/ (call[c].at = "confirm" /\ entry[id] # "none")
Removes(c, id) == call[c].at = "shutdown" /\ call[c].id = id
Seen(id) ==
  Up(id) => \/ entry[id] # "none" /\ told[id] \in {"started", "unheard"}
            \/ \E c \in Calls : Brings(c, id) \/ Removes(c, id)
Listed(id) ==
  entry[id] # "none" /\ told[id] = "nothing" =>
    \E c \in Calls : call[c].op = "create" /\ call[c].id = id /\ call[c].at = "confirm"
Unlisted(id) == \A c \in Calls : Removes(c, id) => entry[id] = "none"
Booting(id) ==
  \A c \in Calls : call[c].at = "boot" /\ call[c].id = id => guest[id] \in {"running", "dead"}

\* Unless the sandbox was disturbed, one call at most changes it; its entry and its
\* guest agree, or that call is between the two and knows where they stand.
ChangedAlone(id) ==
  id \notin disturbed =>
    \A c, d \in Calls : call[c].op \in Changes /\ call[c].id = id
                          /\ call[d].op \in Changes /\ call[d].id = id => c = d
Matches(id) ==
  guest[id] \in {entry[id], "dead"} \/ (runtime = "docker-sdk" /\ guest[id] = "none")
Between(c, id) == call[c].id = id /\ call[c].at \in {"mark", "snapshot", "resuming"}
Knows(c, id) ==
  /\ call[c].at = "mark" =>
       guest[id] \in {IF call[c].op = "pause" THEN "paused" ELSE "running", "dead"}
  /\ call[c].at = "snapshot" => guest[id] \in {"paused", "dead"}
  /\ call[c].at = "resuming" => entry[id] = "running" /\ guest[id] \in {"running", "paused", "dead"}
Agrees(id) ==
  entry[id] # "none" /\ id \notin disturbed =>
    /\ Matches(id) \/ \E c \in Calls : Between(c, id)
    /\ \A c \in Calls : Between(c, id) => Knows(c, id)

Kept(id) == /\ Seen(id) /\ Listed(id) /\ Unlisted(id) /\ Booting(id)
            /\ ChangedAlone(id) /\ Agrees(id)
GuestInv == \A id \in Ids : Kept(id)


-----------------------------------------------------------------------------
\* What a step of a call does to its sandbox, id, and that it leaves the others
\* alone: all that matters for GuestInv.
Bystander(c, id) ==
  /\ \A jd \in Ids \ {id} : guest'[jd] = guest[jd] /\ entry'[jd] = entry[jd]
  /\ lost \subseteq lost' /\ disturbed \subseteq disturbed'
  /\ runtime' = runtime
  /\ call[c].op \notin Changes => guest'[id] = guest[id] /\ entry'[id] = entry[id]
Listing(c, id) ==
  /\ entry[id] = "none" /\ entry'[id] # "none" => call[c].op = "create" /\ call'[c].at = "confirm"
  /\ told'[id] = "nothing" =>
       told[id] = "nothing" /\ ~(call[c].op = "create" /\ call[c].at = "confirm")
  /\ call'[c].at = "shutdown" => entry'[id] = "none"
  /\ call'[c].at = "boot" => guest'[id] \in {"running", "dead"}
UpNext(id) == guest'[id] \in Alive /\ id \notin lost'
Seeing(c, id) ==
  UpNext(id) =>
    \/ entry'[id] # "none" /\ told'[id] \in {"started", "unheard"}
    \/ call'[c].op = "create" /\ call'[c].at \in {"boot", "confirm"}
         /\ (call'[c].at = "confirm" => entry'[id] # "none")
    \/ call'[c].at = "shutdown"
    \/ /\ Up(id) /\ told'[id] = told[id] /\ (entry'[id] = "none" <=> entry[id] = "none")
       /\ ~Brings(c, id) /\ ~Removes(c, id)
MatchesNext(id) ==
  guest'[id] \in {entry'[id], "dead"} \/ (runtime = "docker-sdk" /\ guest'[id] = "none")
Agreeing(c, id) ==
  entry'[id] # "none" /\ id \notin disturbed' =>
    /\ \/ MatchesNext(id)
       \/ call'[c].at \in {"mark", "snapshot", "resuming"}
       \/ guest'[id] = guest[id] /\ entry'[id] = entry[id] /\ ~Between(c, id)
    /\ call'[c].at = "mark" =>
         guest'[id] \in {IF call'[c].op = "pause" THEN "paused" ELSE "running", "dead"}
    /\ call'[c].at = "snapshot" => guest'[id] \in {"paused", "dead"}
    /\ call'[c].at = "resuming" =>
         entry'[id] = "running" /\ guest'[id] \in {"running", "paused", "dead"}

LEMMA GuestStep ==
  ASSUME TypeOK, CallInv, GuestInv, NEW c \in Calls, NEW id \in Ids, call[c].id = id,
         Progress(c), Bystander(c, id), Listing(c, id), Seeing(c, id), Agreeing(c, id)
  PROVE  GuestInv'
<1>1. Idle.at = "idle" /\ Idle.op = "none"
  BY DEF Idle
<1>2. /\ \A d \in Calls \ {c} : call'[d] = call[d]
      /\ \/ call'[c].at = "idle" /\ call'[c].op = "none"
         \/ call'[c].op = call[c].op /\ call'[c].id = id
  BY <1>1 DEF Progress
<1>3. \A jd \in Ids \ {id} : told'[jd] = told[jd]
  BY DEF Progress
<1>4. \A d \in Calls : /\ call[d].at \in {"boot", "shutdown", "mark", "snapshot", "resuming"} =>
                            call[d].op \in Changes
                       /\ call[d].at = "boot" => call[d].op = "create"
                       /\ call[d].at = "shutdown" => call[d].op = "stop"
  BY DEF CallInv, CallsAreInPlace, Fits, Changes
<1>5. \A d \in Calls \ {c} : call[d].id = id /\ call[d].op = "create" => call[c].op \notin Changes
  BY CreatedAlone
<1>6. \A jd \in Ids : Seen(jd)'
  <2> SUFFICES ASSUME NEW jd \in Ids, UpNext(jd)
               PROVE  \/ entry'[jd] # "none" /\ told'[jd] \in {"started", "unheard"}
                      \/ \E d \in Calls :
                           /\ call'[d].id = jd
                           /\ \/ /\ call'[d].op = "create"
                                 /\ \/ call'[d].at = "boot"
                                    \/ call'[d].at = "confirm" /\ entry'[jd] # "none"
                              \/ call'[d].at = "shutdown"
    BY DEF Seen, Brings, Removes, Up, UpNext
  <2>1. CASE /\ Up(jd) /\ told'[jd] = told[jd] /\ (entry'[jd] = "none" <=> entry[jd] = "none")
             /\ ~Brings(c, jd) /\ ~Removes(c, jd)
    <3>1. \/ entry[jd] # "none" /\ told[jd] \in {"started", "unheard"}
          \/ \E d \in Calls : Brings(d, jd) \/ Removes(d, jd)
      BY <2>1 DEF GuestInv, Kept, Seen
    <3>. QED
      BY <1>2, <2>1, <3>1 DEF Brings, Removes
  <2>2. CASE jd # id
    <3>1. Up(jd) /\ told'[jd] = told[jd] /\ entry'[jd] = entry[jd]
      BY <1>3, <2>2 DEF Bystander, Up, UpNext
    <3>2. ~Brings(c, jd) /\ ~Removes(c, jd)
      BY <2>2 DEF Brings, Removes
    <3>. QED
      BY <2>1, <3>1, <3>2
  <2>3. CASE jd = id
    BY <1>2, <2>1, <2>3 DEF Seeing
  <2>. QED
    BY <2>2, <2>3
<1>7. \A jd \in Ids : Listed(jd)'
  BY <1>2, <1>3 DEF GuestInv, Kept, Listed, Bystander, Listing
<1>8. \A jd \in Ids : Unlisted(jd)'
  <2> SUFFICES ASSUME NEW jd \in Ids, NEW d \in Calls, call'[d].at = "shutdown", call'[d].id = jd
               PROVE  entry'[jd] = "none"
    BY DEF Unlisted, Removes
  <2>1. CASE d = c
    BY <1>2, <2>1 DEF Listing
  <2>2. CASE d # c
    <3>1. entry[jd] = "none" /\ call[d].op \in Changes /\ call[d].id = jd
      BY <1>2, <1>4, <2>2 DEF GuestInv, Kept, Unlisted, Removes
    <3>2. call[c].op = "create" => jd # id
      BY <2>2, <3>1, CreatedAlone
    <3>. QED
      BY <3>1, <3>2 DEF Bystander, Listing
  <2>. QED
    BY <2>1, <2>2
<1>9. \A jd \in Ids : Booting(jd)'
  BY <1>2, <1>4, <1>5 DEF GuestInv, Kept, Booting, Bystander, Listing
<1>10. \A jd \in Ids : ChangedAlone(jd)'
  BY <1>2 DEF GuestInv, Kept, ChangedAlone, Bystander, Changes
<1>11. \A jd \in Ids : Agrees(jd)'
  <2> SUFFICES ASSUME NEW jd \in Ids, entry'[jd] # "none", jd \notin disturbed'
               PROVE  /\ MatchesNext(jd) \/ \E d \in Calls : Between(d, jd)'
                      /\ \A d \in Calls : Between(d, jd)' => Knows(d, jd)'
    BY DEF Agrees, Matches, MatchesNext, Bystander
  <2>1. \A d \in Calls \ {c} : Between(d, jd)' <=> Between(d, jd)
    BY <1>2 DEF Between
  <2>2. CASE guest'[jd] = guest[jd] /\ entry'[jd] = entry[jd]
    <3>1. /\ Matches(jd) \/ \E d \in Calls : Between(d, jd)
          /\ \A d \in Calls : Between(d, jd) => Knows(d, jd)
      BY <2>2 DEF GuestInv, Kept, Agrees, Bystander
    <3>2. \A d \in Calls \ {c} : Between(d, jd)' => Knows(d, jd)'
      BY <1>2, <2>1, <2>2, <3>1 DEF Knows
    <3>3. Between(c, jd)' => jd = id /\ Knows(c, jd)'
      BY <1>2 DEF Between, Knows, Agreeing
    <3>4. MatchesNext(jd) \/ \E d \in Calls : Between(d, jd)'
      <4>1. CASE Matches(jd)
        BY <2>2, <4>1 DEF Matches, MatchesNext
      <4>2. CASE \E d \in Calls \ {c} : Between(d, jd)
        BY <2>1, <4>2
      <4>3. CASE Between(c, jd)
        <5>1. jd = id
          BY <4>3 DEF Between
        <5>. QED
          BY <1>2, <4>3, <5>1 DEF Agreeing, Between
      <4>. QED
        BY <3>1, <4>1, <4>2, <4>3
    <3>. QED
      BY <3>2, <3>3, <3>4
  <2>3. CASE ~(guest'[jd] = guest[jd] /\ entry'[jd] = entry[jd])
    <3>1. jd = id /\ call[c].op \in Changes
      BY <2>3 DEF Bystander
    <3>2. \A d \in Calls \ {c} : ~Between(d, jd)'
      BY <1>4, <2>1, <3>1 DEF GuestInv, Kept, ChangedAlone, Bystander, Between
    <3>3. Between(c, jd)' => Knows(c, jd)'
      BY <3>1 DEF Between, Knows, Agreeing
    <3>4. MatchesNext(jd) \/ Between(c, jd)'
      BY <1>2, <2>3, <3>1 DEF Agreeing, Between
    <3>. QED
      BY <3>2, <3>3, <3>4
  <2>. QED
    BY <2>2, <2>3
<1>. QED
  BY <1>6, <1>7, <1>8, <1>9, <1>10, <1>11 DEF GuestInv, Kept

(* Before its creation a sandbox is not in the table, and nothing of it is up. *)
LEMMA NotYet ==
  ASSUME TypeOK, CallInv, GuestInv, NEW c \in Calls, NEW id \in Ids, call[c].id = id,
         call[c].at \in {"create", "savingBase", "inject", "start"}
  PROVE  entry[id] = "none" /\ ~Up(id) /\ told[id] = "nothing"
<1>1. call[c].op = "create" /\ told[id] = "nothing"
  BY PlacesOfChanges DEF CallInv, CreationIsUntold
<1>2. \A d \in Calls \ {c} : call[d].id = id => call[d].op \notin Changes
  BY <1>1, CreatedAlone
<1>3. entry[id] = "none"
  BY <1>1, <1>2 DEF GuestInv, Kept, Listed, Changes
<1>4. \A d \in Calls : ~Removes(d, id) /\ ~Brings(d, id)
  BY <1>1, <1>2, PlacesOfChanges DEF Removes, Brings, Changes
<1>. QED
  BY <1>1, <1>3, <1>4 DEF GuestInv, Kept, Seen

(* What a creation has brought up is in the table when it is confirmed. *)
LEMMA CreatingIsListed ==
  ASSUME TypeOK, CallInv, GuestInv, NEW c \in Calls, NEW id \in Ids, call[c].id = id,
         call[c].op = "create", call[c].at = "confirm", Up(id)
  PROVE  entry[id] # "none"
<1>1. told[id] = "nothing"
  BY DEF CallInv, CreationIsUntold
<1>2. \A d \in Calls \ {c} : call[d].id = id => call[d].op \notin Changes
  BY CreatedAlone
<1>3. \A d \in Calls : ~Removes(d, id) /\ (Brings(d, id) => d = c)
  BY <1>2, PlacesOfChanges DEF Removes, Brings, Changes
<1>. QED
  BY <1>1, <1>3 DEF GuestInv, Kept, Seen, Brings

(* Where the guest is when a call comes back to the table. *)
LEMMA Halfway ==
  ASSUME GuestInv, NEW c \in Calls, NEW id \in Ids, Between(c, id),
         entry[id] # "none", id \notin disturbed
  PROVE  Knows(c, id)
  BY DEF GuestInv, Kept, Agrees

(* The docker command. *)
LEMMA DockerGuests ==
  ASSUME TypeOK, CallInv, GuestInv, NEW c \in Calls, runtime' = runtime, Docker!Step(c)
  PROVE  GuestInv'
<1>1. call[c].at # "idle" /\ call[c].id \in Ids /\ Fits(call[c].op, call[c].at)
      /\ call[c] \in InProgress
  <2>1. call[c].at # "idle"
    BY DEF Docker!Step, Docker!CreateSandbox, Docker!StopSandbox, Docker!PauseSandbox,
           Docker!ResumeSandbox, Docker!Mark, Docker!At
  <2>. QED
    BY <2>1, CallShape DEF CallInv, CallsAreInPlace
<1>2. PICK id \in Ids : call[c].id = id
  BY <1>1
<1>3. Progress(c)
  BY DockerProgress
<1>4. /\ \A jd \in Ids \ {id} : guest'[jd] = guest[jd] /\ entry'[jd] = entry[jd]
      /\ lost \subseteq lost' /\ disturbed \subseteq disturbed'
  BY <1>2
     DEF Docker!Step, Docker!CreateSandbox, Docker!RunSucceeds, Docker!RunFails, Docker!StopSandbox,
         Docker!PauseSandbox, Docker!ResumeSandbox, Docker!Mark, Docker!Started, Docker!Removed,
         Docker!SetGuest, Docker!SetEntry, Docker!DeleteEntry, Docker!Marked, TypeOK, CallsTypeOK
<1>5. call[c].op \in Changes
  BY <1>1 DEF Docker!Step, Docker!CreateSandbox, Docker!StopSandbox, Docker!PauseSandbox,
              Docker!ResumeSandbox, Docker!Mark, Docker!At, Fits, Operations, Changes
<1>6. Bystander(c, id)
  BY <1>4, <1>5 DEF Bystander
<1>7. CASE Docker!CreateSandbox(c)
  <2>1. /\ call[c].at = "create" /\ call[c].op = "create"
        /\ entry[id] = "none" /\ ~Up(id) /\ told[id] = "nothing"
    BY <1>2, <1>7, PlacesOfChanges, NotYet DEF Docker!CreateSandbox, Docker!At
  <2>2. PICK p \in Ports : Docker!RunSucceeds(c, id, p) \/ Docker!RunFails(c, id, p)
    BY <1>2, <1>7 DEF Docker!CreateSandbox, Docker!Ports, Ports
  <2>3. CASE Docker!RunSucceeds(c, id, p)
    <3>1. /\ guest'[id] = "running" /\ entry'[id] = "running" /\ told' = told
          /\ call'[c].at = "confirm" /\ call'[c].op = "create"
      BY <1>1, <1>2, <2>1, <2>3, GoneTo
         DEF Docker!RunSucceeds, Docker!Started, Docker!SetGuest, Docker!SetEntry, Docker!Goto,
             Firecracker!Goto, Steps, TypeOK, CallsTypeOK
    <3>2. Listing(c, id) /\ Seeing(c, id) /\ Agreeing(c, id)
      BY <2>1, <3>1 DEF Listing, Seeing, Agreeing, MatchesNext
    <3>. QED
      BY <1>2, <1>3, <1>6, <3>2, GuestStep
  <2>4. CASE Docker!RunFails(c, id, p)
    <3>1. call'[c].at = "idle" /\ entry' = entry /\ told'[id] # "nothing"
      BY <1>1, <1>2, <2>1, <2>4
         DEF Docker!RunFails, Docker!Tell, Docker!Return, Docker!Idle, TypeOK, CallsTypeOK
    <3>2. ~UpNext(id)
      BY <2>1, <2>4 DEF Docker!RunFails, Docker!SetGuest, UpNext, Up, Alive, TypeOK, CallsTypeOK
    <3>3. Listing(c, id) /\ Seeing(c, id) /\ Agreeing(c, id)
      BY <2>1, <3>1, <3>2 DEF Listing, Seeing, Agreeing
    <3>. QED
      BY <1>2, <1>3, <1>6, <3>3, GuestStep
  <2>. QED
    BY <2>2, <2>3, <2>4
<1>8. CASE Docker!StopSandbox(c)
  <2>1. call[c].at = "stop" /\ call[c].op = "stop" /\ told[id] # "nothing" /\ call'[c].at = "idle"
    BY <1>1, <1>2, <1>8, PlacesOfChanges
       DEF Docker!StopSandbox, Docker!At, Docker!Tell, Docker!Return, Docker!Idle, TypeOK, CallsTypeOK,
           CallInv, ChangersWereTold
  <2>2. told'[id] # "nothing"
    BY <1>2, <1>8, <2>1 DEF Docker!StopSandbox, Docker!Tell, TypeOK, CallsTypeOK
  <2>3. \/ guest'[id] = "none" /\ entry'[id] = "none"
        \/ guest'[id] = "none" /\ id \in disturbed' /\ entry' = entry
        \/ guest' = guest /\ UNCHANGED <<entry, told, disturbed, lost>>
    BY <1>2, <1>8 DEF Docker!StopSandbox, Docker!Removed, Docker!SetGuest, Docker!DeleteEntry,
                      Docker!SetEntry, TypeOK, CallsTypeOK
  <2>4. Listing(c, id)
    BY <2>1, <2>2, <2>3 DEF Listing
  <2>5. Seeing(c, id)
    BY <2>1, <2>3 DEF Seeing, UpNext, Up, Alive, Brings, Removes
  <2>6. Agreeing(c, id)
    BY <2>1, <2>3 DEF Agreeing, Between
  <2>. QED
    BY <1>2, <1>3, <1>6, <2>4, <2>5, <2>6, GuestStep
<1>9. CASE Docker!PauseSandbox(c) \/ Docker!ResumeSandbox(c)
  <2>1. /\ call[c].at \in {"pause", "resume"} /\ call[c].op = call[c].at
        /\ UNCHANGED <<entry, told, lost>>
    BY <1>1, <1>9 DEF Docker!PauseSandbox, Docker!ResumeSandbox, Docker!At, Fits, Operations, Changes
  <2>2. \/ guest' = guest /\ disturbed' = disturbed /\ call'[c].at = "idle"
        \/ /\ guest[id] \in Alive /\ id \in disturbed' /\ call'[c].at = "idle"
        \/ /\ guest[id] \in Alive /\ call'[c].at = "mark" /\ call'[c].op = call[c].op
           /\ guest'[id] = IF call[c].op = "pause" THEN "paused" ELSE "running"
    <3>1. \/ guest' = guest /\ disturbed' = disturbed /\ Docker!Return(c)
          \/ guest[id] \in Alive /\ id \in disturbed' /\ Docker!Return(c)
          \/ /\ guest[id] \in Alive /\ Firecracker!Goto(c, "mark")
             /\ guest'[id] = IF call[c].op = "pause" THEN "paused" ELSE "running"
      BY <1>2, <1>9, <2>1 DEF Docker!PauseSandbox, Docker!ResumeSandbox, Docker!At, Docker!SetGuest,
                         Docker!Goto, Firecracker!Goto, Alive, TypeOK, CallsTypeOK
    <3>. QED
      BY <1>1, <3>1, GoneTo DEF Docker!Return, Docker!Idle, Steps, TypeOK, CallsTypeOK
  <2>3. Listing(c, id)
    BY <2>1, <2>2 DEF Listing
  <2>4. Seeing(c, id)
    BY <2>1, <2>2 DEF Seeing, UpNext, Up, Alive, Brings, Removes
  <2>5. Agreeing(c, id)
    BY <2>1, <2>2 DEF Agreeing, Between
  <2>. QED
    BY <1>2, <1>3, <1>6, <2>3, <2>4, <2>5, GuestStep
<1>10. CASE Docker!Mark(c)
  <2>1. /\ call[c].at = "mark" /\ call[c].op \in {"pause", "resume"} /\ call'[c].at = "idle"
        /\ UNCHANGED <<guest, told, disturbed, lost>>
        /\ entry'[id] = IF entry[id] = "none" THEN "none"
                        ELSE IF call[c].op = "pause" THEN "paused" ELSE "running"
    BY <1>1, <1>2, <1>10 DEF Docker!Mark, Docker!At, Docker!Return, Docker!Idle, Docker!Marked, Fits,
                             TypeOK, CallsTypeOK
  <2>2. entry[id] # "none" /\ id \notin disturbed => Knows(c, id)
    BY <1>2, <2>1, Halfway DEF Between
  <2>3. Listing(c, id) /\ Seeing(c, id)
    BY <2>1 DEF Listing, Seeing, UpNext, Up, Brings, Removes
  <2>4. Agreeing(c, id)
    BY <2>1, <2>2 DEF Agreeing, MatchesNext, Knows
  <2>. QED
    BY <1>2, <1>3, <1>6, <2>3, <2>4, GuestStep
<1>. QED
  BY <1>7, <1>8, <1>9, <1>10 DEF Docker!Step

(* The docker SDK, whose waits for its lock change nothing else. *)
LEMMA SdkGuests ==
  ASSUME TypeOK, CallInv, GuestInv, NEW c \in Calls, runtime = "docker-sdk", runtime' = runtime,
         Sdk!Step(c), ~UNCHANGED agentVars
  PROVE  GuestInv'
<1>1. /\ call[c].at # "idle" /\ call[c].id \in Ids /\ Fits(call[c].op, call[c].at)
      /\ call[c] \in InProgress
  <2>1. call[c].at # "idle"
    BY DEF Sdk!Step, Sdk!Announce, Sdk!RLock, Sdk!CreateSandbox, Sdk!StopSandbox,
           Sdk!PauseOrResumeSandbox, Sdk!GetSandboxStatus, Sdk!ExecCommand, Sdk!At, Sdk!Changes
  <2>. QED
    BY <2>1, CallShape DEF CallInv, CallsAreInPlace
<1>2. PICK id \in Ids : call[c].id = id
  BY <1>1
<1>3. Progress(c)
  BY SdkProgress
<1>4. CASE Sdk!CreateSandbox(c)
  <2>1. /\ call[c].at = "create" /\ call[c].op = "create"
        /\ entry[id] = "none" /\ ~Up(id) /\ told[id] = "nothing"
    BY <1>2, <1>4, PlacesOfChanges, NotYet DEF Sdk!CreateSandbox, Sdk!At
  <2>2. Bystander(c, id)
    BY <1>2, <1>4, <2>1 DEF Sdk!CreateSandbox, Sdk!Started, Sdk!SetGuest, Sdk!SetEntry, Bystander,
                            Changes, TypeOK, CallsTypeOK
  <2>3. \/ /\ guest'[id] = "running" /\ entry'[id] = "running" /\ told' = told
           /\ Firecracker!Goto(c, "confirm")
        \/ /\ ~UpNext(id) /\ entry' = entry
           /\ Sdk!Tell(c, "failed")
    BY <1>2, <1>4, <2>1 DEF Sdk!CreateSandbox, Sdk!Started, Sdk!SetGuest, Sdk!SetEntry, Sdk!Goto,
                            Firecracker!Goto, UpNext, Alive, TypeOK, CallsTypeOK
  <2>4. CASE /\ guest'[id] = "running" /\ entry'[id] = "running" /\ told' = told
             /\ Firecracker!Goto(c, "confirm")
    <3>1. call'[c].at = "confirm" /\ call'[c].op = "create"
      BY <1>1, <2>1, <2>4, GoneTo DEF Steps
    <3>2. Listing(c, id) /\ Seeing(c, id) /\ Agreeing(c, id)
      BY <2>1, <2>4, <3>1 DEF Listing, Seeing, Agreeing, MatchesNext
    <3>. QED
      BY <1>2, <1>3, <2>2, <3>2, GuestStep
  <2>5. CASE ~UpNext(id) /\ entry' = entry /\ Sdk!Tell(c, "failed")
    <3>1. call'[c].at = "idle" /\ told'[id] # "nothing"
      BY <1>2, <2>1, <2>5 DEF Sdk!Tell, Sdk!Return, Sdk!Idle, TypeOK, CallsTypeOK
    <3>2. Listing(c, id) /\ Seeing(c, id) /\ Agreeing(c, id)
      BY <2>1, <2>5, <3>1 DEF Listing, Seeing, Agreeing
    <3>. QED
      BY <1>2, <1>3, <2>2, <3>2, GuestStep
  <2>. QED
    BY <2>3, <2>4, <2>5
<1>5. CASE Sdk!StopSandbox(c)
  <2>1. call[c].at = "stop" /\ call[c].op = "stop" /\ told[id] # "nothing" /\ call'[c].at = "idle"
    BY <1>1, <1>2, <1>5, PlacesOfChanges
       DEF Sdk!StopSandbox, Sdk!At, Sdk!Tell, Sdk!Return, Sdk!Idle, TypeOK, CallsTypeOK,
           CallInv, ChangersWereTold
  <2>2. told'[id] # "nothing"
    BY <1>2, <1>5, <2>1 DEF Sdk!StopSandbox, Sdk!Tell, TypeOK, CallsTypeOK
  <2>3. Bystander(c, id)
    BY <1>2, <1>5, <2>1 DEF Sdk!StopSandbox, Sdk!Removed, Sdk!SetGuest, Bystander, Changes,
                            TypeOK, CallsTypeOK
  <2>4. entry' = entry /\ (guest'[id] = "none" \/ UNCHANGED <<guest, told, disturbed, lost>>)
    BY <1>2, <1>5 DEF Sdk!StopSandbox, Sdk!Removed, Sdk!SetGuest, TypeOK, CallsTypeOK
  <2>5. Listing(c, id)
    BY <2>1, <2>2, <2>4 DEF Listing
  <2>6. Seeing(c, id)
    BY <2>1, <2>4 DEF Seeing, UpNext, Up, Alive, Brings, Removes
  <2>7. Agreeing(c, id)
    BY <2>1, <2>4 DEF Agreeing, MatchesNext, Between
  <2>. QED
    BY <1>2, <1>3, <2>3, <2>5, <2>6, <2>7, GuestStep
<1>6. CASE Sdk!PauseOrResumeSandbox(c) \/ Sdk!GetSandboxStatus(c) \/ Sdk!ExecCommand(c)
  <2>1. /\ UNCHANGED <<entry, guest, disturbed, lost>>
        /\ call[c].at \in {"pause", "resume", "status", "confirm", "exec"}
        /\ call[c].op = "create" <=> call[c].op = "create" /\ call[c].at = "confirm"
    BY <1>1, <1>6 DEF Sdk!PauseOrResumeSandbox, Sdk!GetSandboxStatus, Sdk!ExecCommand, Sdk!At,
                      Sdk!agentVars, agentVars, Fits, Operations, Changes
  <2>2. Bystander(c, id)
    BY <2>1 DEF Bystander
  <2>3. call'[c].at \in {"idle", "confirm", "hung"}
    <3>1. Firecracker!Return(c) \/ Firecracker!Goto(c, "confirm") \/ Firecracker!Goto(c, "hung")
      BY <1>6 DEF Sdk!PauseOrResumeSandbox, Sdk!GetSandboxStatus, Sdk!ExecCommand, Sdk!Tell,
                  Sdk!Return, Sdk!Goto, Firecracker!Return, Firecracker!Goto, Firecracker!Idle,
                  Sdk!Idle, Sdk!agentVars, agentVars
    <3>. QED
      BY <1>1, <3>1, GoneTo, Returned DEF Steps
  <2>4. IF call[c].op = "create" THEN told'[id] \in {"started", "unheard"} ELSE told' = told
    BY <1>2, <1>6, <2>1
       DEF Sdk!PauseOrResumeSandbox, Sdk!GetSandboxStatus, Sdk!ExecCommand, Sdk!Tell, Sdk!At,
           Sdk!agentVars, agentVars, TypeOK, CallsTypeOK
  <2>5. call[c].op = "create" /\ Up(id) => entry[id] # "none"
    BY <1>2, <2>1, CreatingIsListed
  <2>6. Listing(c, id)
    BY <2>1, <2>3, <2>4 DEF Listing
  <2>7. Seeing(c, id)
    BY <2>1, <2>4, <2>5 DEF Seeing, UpNext, Up, Brings, Removes
  <2>8. Agreeing(c, id)
    BY <2>1, <2>3 DEF Agreeing, Between
  <2>. QED
    BY <1>2, <1>3, <2>2, <2>6, <2>7, <2>8, GuestStep
<1>. QED
  BY <1>4, <1>5, <1>6 DEF Sdk!Step, Sdk!Announce, Sdk!RLock, Sdk!agentVars, agentVars

(* Firecracker: a call that makes a disk for a machine that is not up yet, or
   removes that of one that is down. *)
LEMMA DiskGuests ==
  ASSUME TypeOK, CallInv, DiskInv, GuestInv, NEW c \in Calls, runtime' = runtime,
         \/ Firecracker!PrepareRootfs(c) \/ Firecracker!SaveBase(c) \/ Firecracker!InjectEnvd(c)
         \/ Firecracker!WriteHosts(c) \/ Firecracker!RewriteHosts(c)
  PROVE  GuestInv'
<1>1. Progress(c)
  BY FirecrackerProgress DEF Firecracker!Step
<1>2. /\ call[c].at \in {"create", "savingBase", "inject", "writeHosts", "rewriteHosts"}
      /\ call[c] \in InProgress /\ UNCHANGED <<entry, guest, disturbed, lost>>
  BY CallShape DEF Firecracker!PrepareRootfs, Firecracker!SaveBase, Firecracker!InjectEnvd,
                   Firecracker!WriteHosts, Firecracker!RewriteHosts, Firecracker!At,
                   Firecracker!unchangedByDisk
<1>3. PICK id \in Ids : call[c].id = id
  BY <1>2 DEF InProgress
<1>4. ~Up(id)
  BY <1>2, <1>3 DEF DiskInv, DownMeanwhile
<1>5. call'[c].at \in {"idle", "savingBase", "inject", "start", "rewriteHosts"}
  <2>1. \/ \E at \in {"savingBase", "inject", "start", "rewriteHosts"} : Firecracker!Goto(c, at)
        \/ Firecracker!Return(c)
    BY DEF Firecracker!PrepareRootfs, Firecracker!SaveBase, Firecracker!InjectEnvd,
           Firecracker!WriteHosts, Firecracker!RewriteHosts, Firecracker!CleanUp, Firecracker!Tell
  <2>. QED
    BY <1>2, <2>1, GoneTo, Returned DEF Steps
<1>6. told'[id] = "nothing" => told[id] = "nothing"
  BY <1>3
     DEF Firecracker!PrepareRootfs, Firecracker!SaveBase, Firecracker!InjectEnvd,
         Firecracker!WriteHosts, Firecracker!RewriteHosts, Firecracker!CleanUp, Firecracker!Tell,
         TypeOK, CallsTypeOK
<1>7. Bystander(c, id)
  BY <1>2 DEF Bystander
<1>8. Listing(c, id) /\ Seeing(c, id) /\ Agreeing(c, id)
  BY <1>2, <1>4, <1>5, <1>6 DEF Listing, Seeing, Agreeing, UpNext, Up, Between
<1>. QED
  BY <1>1, <1>3, <1>7, <1>8, GuestStep

(* A machine is started, and is then in the table. *)
LEMMA StartGuests ==
  ASSUME TypeOK, CallInv, GuestInv, NEW c \in Calls, runtime' = runtime,
         Firecracker!StartVm(c) \/ Firecracker!Boot(c)
  PROVE  GuestInv'
<1>1. Progress(c)
  BY FirecrackerProgress DEF Firecracker!Step
<1>2. /\ call[c].at \in {"start", "boot"} /\ call[c].op = "create" /\ call[c] \in InProgress
      /\ UNCHANGED <<disturbed, lost>>
  BY PlacesOfChanges DEF Firecracker!StartVm, Firecracker!Boot, Firecracker!At
<1>3. PICK id \in Ids : call[c].id = id
  BY <1>2 DEF InProgress
<1>4. Bystander(c, id)
  BY <1>2, <1>3 DEF Firecracker!StartVm, Firecracker!Boot, Firecracker!SetGuest,
                    Firecracker!SetEntry, Bystander, Changes, TypeOK, CallsTypeOK
<1>5. CASE Firecracker!StartVm(c)
  <2>1. entry[id] = "none" /\ ~Up(id) /\ entry' = entry
    BY <1>3, <1>5, NotYet DEF Firecracker!StartVm, Firecracker!At
  <2>2. \/ /\ Firecracker!Goto(c, "boot") /\ guest'[id] = "running" /\ told' = told
        \/ /\ Firecracker!Return(c) /\ guest' = guest /\ told'[id] # "nothing"
    BY <1>2, <1>3, <1>5 DEF Firecracker!StartVm, Firecracker!SetGuest, Firecracker!CleanUp,
                            Firecracker!Tell, TypeOK, CallsTypeOK
  <2>3. \/ /\ call'[c].at = "boot" /\ call'[c].op = "create"
           /\ guest'[id] = "running" /\ told' = told
        \/ call'[c].at = "idle" /\ guest' = guest /\ told'[id] # "nothing"
    BY <1>2, <2>2, GoneTo, Returned DEF Steps
  <2>4. Listing(c, id) /\ Seeing(c, id) /\ Agreeing(c, id)
    BY <1>2, <1>5, <2>1, <2>3
       DEF Firecracker!StartVm, Firecracker!At, Listing, Seeing, Agreeing, UpNext, Up
  <2>. QED
    BY <1>1, <1>3, <1>4, <2>4, GuestStep
<1>6. CASE Firecracker!Boot(c)
  <2>1. /\ call[c].at = "boot" /\ guest[id] \in {"running", "dead"}
        /\ entry'[id] = "running" /\ UNCHANGED <<guest, told>>
        /\ Firecracker!Goto(c, "confirm")
    BY <1>3, <1>6 DEF Firecracker!Boot, Firecracker!At, Firecracker!SetEntry, GuestInv, Kept, Booting,
                      TypeOK, CallsTypeOK
  <2>2. call'[c].at = "confirm" /\ call'[c].op = "create"
    BY <1>2, <2>1, GoneTo DEF Steps
  <2>3. Listing(c, id) /\ Seeing(c, id) /\ Agreeing(c, id)
    BY <1>2, <2>1, <2>2 DEF Listing, Seeing, Agreeing, MatchesNext
  <2>. QED
    BY <1>1, <1>3, <1>4, <2>3, GuestStep
<1>. QED
  BY <1>5, <1>6

(* A stop takes the entry first; when the machine could not be killed, it is lost. *)
LEMMA StopGuests ==
  ASSUME TypeOK, CallInv, GuestInv, NEW c \in Calls, runtime' = runtime,
         Firecracker!StopSandbox(c) \/ Firecracker!Shutdown(c)
  PROVE  GuestInv'
<1>1. Progress(c)
  BY FirecrackerProgress DEF Firecracker!Step
<1>2. /\ call[c].at \in {"stop", "shutdown"} /\ call[c].op = "stop" /\ call[c] \in InProgress
      /\ UNCHANGED <<told, disturbed>>
  BY PlacesOfChanges DEF Firecracker!StopSandbox, Firecracker!Shutdown, Firecracker!At
<1>3. PICK id \in Ids : call[c].id = id
  BY <1>2 DEF InProgress
<1>4. Bystander(c, id)
  BY <1>2, <1>3 DEF Firecracker!StopSandbox, Firecracker!Shutdown, Firecracker!SetGuest,
                    Firecracker!SetEntry, Bystander, Changes, TypeOK, CallsTypeOK
<1>5. CASE Firecracker!StopSandbox(c)
  <2>1. /\ call[c].at = "stop" /\ UNCHANGED <<guest, lost>>
        /\ \/ Firecracker!Return(c) /\ entry' = entry
           \/ Firecracker!Goto(c, "shutdown") /\ entry'[id] = "none"
    BY <1>3, <1>5 DEF Firecracker!StopSandbox, Firecracker!At, Firecracker!SetEntry, TypeOK,
                      CallsTypeOK
  <2>2. \/ call'[c].at = "idle" /\ entry' = entry
        \/ call'[c].at = "shutdown" /\ entry'[id] = "none"
    BY <1>2, <2>1, GoneTo, Returned DEF Steps
  <2>3. Listing(c, id) /\ Agreeing(c, id)
    BY <1>2, <2>1, <2>2 DEF Listing, Agreeing, Between
  <2>4. Seeing(c, id)
    BY <1>2, <2>1, <2>2 DEF Seeing, UpNext, Up, Brings, Removes
  <2>. QED
    BY <1>1, <1>3, <1>4, <2>3, <2>4, GuestStep
<1>6. CASE Firecracker!Shutdown(c)
  <2>1. call[c].at = "shutdown" /\ entry[id] = "none" /\ entry' = entry
    BY <1>3, <1>6 DEF Firecracker!Shutdown, Firecracker!At, GuestInv, Kept, Unlisted, Removes
  <2>2. ~UpNext(id)
    BY <1>3, <1>6 DEF Firecracker!Shutdown, Firecracker!SetGuest, UpNext, Alive, TypeOK, CallsTypeOK
  <2>3. call'[c].at # "boot"
    BY <1>1, <1>2 DEF Progress, Fits, Idle
  <2>4. Listing(c, id) /\ Seeing(c, id) /\ Agreeing(c, id)
    BY <1>2, <2>1, <2>2, <2>3 DEF Listing, Seeing, Agreeing
  <2>. QED
    BY <1>1, <1>3, <1>4, <2>4, GuestStep
<1>. QED
  BY <1>5, <1>6

(* A pause and a resume change the machine, and the entry before or after it. *)
LEMMA PauseGuests ==
  ASSUME TypeOK, CallInv, GuestInv, NEW c \in Calls, runtime' = runtime,
         \/ Firecracker!PauseVm(c) \/ Firecracker!CreateSnapshot(c)
         \/ Firecracker!ResumeSandbox(c) \/ Firecracker!ResumeVm(c),
         runtime = "firecracker"
  PROVE  GuestInv'
<1>1. Progress(c)
  BY FirecrackerProgress DEF Firecracker!Step
<1>2. /\ call[c].at \in {"pause", "snapshot", "resume", "resuming"} /\ call[c] \in InProgress
      /\ call[c].op = IF call[c].at \in {"pause", "snapshot"} THEN "pause" ELSE "resume"
      /\ UNCHANGED <<told, lost>>
  BY CallShape
     DEF Firecracker!PauseVm, Firecracker!CreateSnapshot, Firecracker!ResumeSandbox,
         Firecracker!ResumeVm, Firecracker!At, CallInv, CallsAreInPlace, Fits, Operations, Changes
<1>3. PICK id \in Ids : call[c].id = id
  BY <1>2 DEF InProgress
<1>4. Bystander(c, id)
  BY <1>2, <1>3 DEF Firecracker!PauseVm, Firecracker!CreateSnapshot, Firecracker!ResumeSandbox,
         Firecracker!ResumeVm, Firecracker!SetGuest, Firecracker!SetEntry, Firecracker!Marked,
         Bystander, Changes, TypeOK, CallsTypeOK
<1>5. call'[c].at \in {"idle", "snapshot", "resuming"}
  <2>1. Firecracker!Goto(c, "snapshot") \/ Firecracker!Goto(c, "resuming") \/ Firecracker!Return(c)
    BY DEF Firecracker!PauseVm, Firecracker!CreateSnapshot, Firecracker!ResumeSandbox,
           Firecracker!ResumeVm
  <2>. QED
    BY <1>2, <2>1, GoneTo, Returned DEF Steps
<1>6. /\ entry'[id] = "none" <=> entry[id] = "none"
      /\ guest'[id] \in Alive => guest[id] \in Alive
  BY <1>3 DEF Firecracker!PauseVm, Firecracker!CreateSnapshot, Firecracker!ResumeSandbox,
         Firecracker!ResumeVm, Firecracker!SetGuest, Firecracker!SetEntry, Firecracker!Marked, Alive,
         TypeOK, CallsTypeOK
<1>7. Listing(c, id) /\ Seeing(c, id)
  BY <1>2, <1>5, <1>6 DEF Listing, Seeing, UpNext, Up, Brings, Removes
<1>8. Agreeing(c, id)
  <2>1. CASE Firecracker!PauseVm(c)
    <3>1. /\ call[c].at = "pause" /\ entry' = entry
          /\ \/ call'[c].at = "idle" /\ guest' = guest
             \/ call'[c].at = "snapshot" /\ guest'[id] = "paused"
             \/ id \in disturbed'
      <4>1. /\ call[c].at = "pause" /\ entry' = entry
            /\ \/ Firecracker!Return(c) /\ guest' = guest
               \/ Firecracker!Goto(c, "snapshot") /\ guest'[id] = "paused"
               \/ id \in disturbed'
        BY <1>3, <2>1 DEF Firecracker!PauseVm, Firecracker!At, Firecracker!SetGuest, TypeOK,
                          CallsTypeOK
      <4>. QED
        BY <1>2, <4>1, GoneTo, Returned DEF Steps
    <3>. QED
      BY <3>1 DEF Agreeing, Between
  <2>2. CASE Firecracker!CreateSnapshot(c)
    <3>1. /\ call[c].at = "snapshot" /\ guest' = guest /\ call'[c].at = "idle"
          /\ \/ id \in disturbed'
             \/ /\ disturbed' = disturbed
                /\ entry'[id] = IF entry[id] = "none" THEN "none" ELSE "paused"
      BY <1>2, <1>3, <2>2, Returned
         DEF Firecracker!CreateSnapshot, Firecracker!At, Firecracker!Marked, TypeOK, CallsTypeOK
    <3>2. entry[id] # "none" /\ id \notin disturbed => guest[id] \in {"paused", "dead"}
      BY <1>3, <3>1, Halfway DEF Between, Knows
    <3>. QED
      BY <3>1, <3>2 DEF Agreeing, MatchesNext
  <2>3. CASE Firecracker!ResumeSandbox(c)
    <3>1. /\ call[c].at = "resume" /\ UNCHANGED <<guest, disturbed>>
          /\ \/ call'[c].at = "idle" /\ entry' = entry
             \/ call'[c].at = "resuming" /\ entry[id] # "none" /\ entry'[id] = "running"
      <4>1. /\ call[c].at = "resume" /\ UNCHANGED <<guest, disturbed>>
            /\ \/ Firecracker!Return(c) /\ entry' = entry
               \/ Firecracker!Goto(c, "resuming") /\ entry[id] # "none" /\ entry'[id] = "running"
        BY <1>3, <2>3 DEF Firecracker!ResumeSandbox, Firecracker!At, Firecracker!SetEntry, TypeOK,
                          CallsTypeOK
      <4>. QED
        BY <1>2, <4>1, GoneTo, Returned DEF Steps
    <3>2. ASSUME entry[id] # "none", id \notin disturbed
          PROVE  guest[id] \in {"running", "paused", "dead"}
      <4>1. \A d \in Calls : call[d].id = id /\ call[d].op \in Changes => d = c
        BY <1>2, <1>3, <3>2 DEF GuestInv, Kept, ChangedAlone, Changes
      <4>2. \A d \in Calls : ~Between(d, id)
        BY <3>1, <4>1 DEF Between, CallInv, CallsAreInPlace, Fits, Changes
      <4>. QED
        BY <3>2, <4>2 DEF GuestInv, Kept, Agrees, Matches, States, TypeOK, CallsTypeOK
    <3>. QED
      BY <3>1, <3>2 DEF Agreeing, Between
  <2>4. CASE Firecracker!ResumeVm(c)
    <3>1. /\ call[c].at = "resuming" /\ entry' = entry /\ call'[c].at = "idle"
          /\ \/ id \in disturbed'
             \/ guest'[id] = "running" /\ disturbed' = disturbed
             \/ guest' = guest /\ guest[id] # "paused" /\ disturbed' = disturbed
      BY <1>2, <1>3, <2>4, Returned
         DEF Firecracker!ResumeVm, Firecracker!At, Firecracker!SetGuest, TypeOK, CallsTypeOK
    <3>2. entry[id] # "none" /\ id \notin disturbed => Knows(c, id)
      BY <1>3, <3>1, Halfway DEF Between
    <3>. QED
      BY <3>1, <3>2 DEF Agreeing, MatchesNext, Knows
  <2>. QED
    BY <2>1, <2>2, <2>3, <2>4
<1>. QED
  BY <1>1, <1>3, <1>4, <1>7, <1>8, GuestStep

-----------------------------------------------------------------------------
(* The agent's own steps, and what happens around it. *)
LEMMA AnswerGuests ==
  ASSUME TypeOK, CallInv, GuestInv, NEW c \in Calls, Confirm(c) \/ Answer(c)
  PROVE  GuestInv'
<1>1. Progress(c)
  BY AnswerProgress
<1>2. /\ call[c].at \in {"confirm", "status", "exec"} /\ call[c] \in InProgress
      /\ UNCHANGED <<entry, guest, disturbed, lost, runtime>>
      /\ call[c].op = "create" <=> call[c].at = "confirm"
      /\ call'[c] = Idle
  BY CallShape DEF Confirm, Answer, Tell, Return, At, CallInv, CallsAreInPlace, Fits, Operations,
                   Changes, TypeOK, CallsTypeOK
<1>3. PICK id \in Ids : call[c].id = id
  BY <1>2 DEF InProgress
<1>4. Bystander(c, id)
  BY <1>2 DEF Bystander
<1>5. Idle.at = "idle"
  BY DEF Idle
<1>6. CASE Confirm(c)
  <2>1. call[c].at = "confirm" /\ told'[id] # "nothing"
    BY <1>2, <1>3, <1>6 DEF Confirm, Tell, At, TypeOK, CallsTypeOK
  <2>2. UpNext(id) => entry[id] # "none"
    BY <1>2, <1>3, <2>1, CreatingIsListed DEF UpNext, Up
  <2>3. UpNext(id) => told'[id] \in {"started", "unheard"}
    BY <1>2, <1>3, <1>6, <2>1, <2>2 DEF Confirm, Tell, TypeOK, CallsTypeOK
  <2>. QED
    BY <1>1, <1>2, <1>3, <1>4, <1>5, <2>1, <2>2, <2>3, GuestStep
       DEF Listing, Seeing, Agreeing, Between
<1>7. CASE Answer(c)
  <2>1. told' = told /\ call[c].at \in {"status", "exec"}
    BY <1>7 DEF Answer
  <2>2. Listing(c, id) /\ Seeing(c, id) /\ Agreeing(c, id)
    BY <1>2, <1>5, <2>1 DEF Listing, Seeing, Agreeing, Between, UpNext, Up, Brings, Removes
  <2>. QED
    BY <1>1, <1>3, <1>4, <2>2, GuestStep
<1>. QED
  BY <1>6, <1>7

LEMMA ReceiveGuests ==
  ASSUME TypeOK, GuestInv, NEW c \in Calls, NEW op \in Operations, NEW id \in Ids, Receive(c, op, id)
  PROVE  GuestInv'
<1>1. /\ call[c] = Idle /\ UNCHANGED <<entry, guest, told, lost, runtime>>
      /\ \A d \in Calls \ {c} : call'[d] = call[d]
      /\ call'[c].op = op /\ call'[c].at = op /\ call'[c].id = id
      /\ disturbed' = IF Busy(id) /\ op \in Changes THEN disturbed \cup {id} ELSE disturbed
  BY DEF Receive, Begin, TypeOK, CallsTypeOK, Idle
<1>2. Idle.at = "idle" /\ Idle.op = "none"
  BY DEF Idle
<1>3. op \notin {"idle", "confirm", "boot", "shutdown", "mark", "snapshot", "resuming"}
  BY DEF Operations, Changes
<1>4. ASSUME NEW jd \in Ids
      PROVE  Seen(jd)' /\ Listed(jd)' /\ Unlisted(jd)' /\ Booting(jd)'
  BY <1>1, <1>2, <1>3 DEF GuestInv, Kept, Seen, Listed, Unlisted, Booting, Brings, Removes, Up
<1>5. ASSUME NEW jd \in Ids
      PROVE  ChangedAlone(jd)'
  <2>1. CASE op \in Changes /\ jd = id
    BY <1>1, <2>1 DEF ChangedAlone, Busy
  <2>2. CASE ~(op \in Changes /\ jd = id)
    BY <1>1, <2>2 DEF GuestInv, Kept, ChangedAlone
  <2>. QED
    BY <2>1, <2>2
<1>6. ASSUME NEW jd \in Ids
      PROVE  Agrees(jd)'
  <2>1. \A d \in Calls : Between(d, jd)' <=> Between(d, jd)
    BY <1>1, <1>2, <1>3 DEF Between
  <2>2. \A d \in Calls : Between(d, jd) => call'[d] = call[d]
    BY <1>1, <1>2 DEF Between
  <2>3. jd \notin disturbed' => jd \notin disturbed
    BY <1>1
  <2>. QED
    BY <1>1, <2>1, <2>2, <2>3 DEF GuestInv, Kept, Agrees, Matches, Knows
<1>. QED
  BY <1>4, <1>5, <1>6 DEF GuestInv, Kept

LEMMA RequestEndsGuests ==
  ASSUME TypeOK, GuestInv, NEW c \in Calls, RequestEnds(c)
  PROVE  GuestInv'
<1> DEFINE left == [call[c] EXCEPT !.live = FALSE]
<1>1. left.op = call[c].op /\ left.at = call[c].at /\ left.id = call[c].id
  BY CallShape DEF RequestEnds, Changes, InProgress
<1>2. call' = [call EXCEPT ![c] = left] /\ UNCHANGED <<entry, guest, told, disturbed, lost, runtime>>
  BY DEF RequestEnds
<1> HIDE DEF left
<1>3. \A d \in Calls : /\ call'[d].op = call[d].op /\ call'[d].at = call[d].at
                       /\ call'[d].id = call[d].id
  BY <1>1, <1>2 DEF TypeOK, CallsTypeOK
<1>4. ASSUME NEW jd \in Ids
      PROVE  Seen(jd)' /\ Listed(jd)' /\ Unlisted(jd)' /\ Booting(jd)' /\ ChangedAlone(jd)'
  BY <1>2, <1>3
     DEF GuestInv, Kept, Seen, Listed, Unlisted, Booting, ChangedAlone, Brings, Removes, Up
<1>5. ASSUME NEW jd \in Ids
      PROVE  Agrees(jd)'
  <2>1. \A d \in Calls : Between(d, jd)' <=> Between(d, jd)
    BY <1>3 DEF Between
  <2>2. \A d \in Calls : Knows(d, jd)' <=> Knows(d, jd)
    BY <1>2, <1>3 DEF Knows
  <2>. QED
    BY <1>2, <2>1, <2>2 DEF GuestInv, Kept, Agrees, Matches
<1>. QED
  BY <1>4, <1>5 DEF GuestInv, Kept

LEMMA GuestEndsGuests ==
  ASSUME TypeOK, GuestInv, NEW id \in Ids, GuestDies(id) \/ VmKilled(id)
  PROVE  GuestInv'
<1>1. /\ UNCHANGED <<call, entry, told, disturbed, lost, runtime>>
      /\ guest'[id] = "dead" /\ \A jd \in Ids \ {id} : guest'[jd] = guest[jd]
  BY DEF GuestDies, VmKilled, SetGuest, Firecracker!ContextKills, Firecracker!SetGuest, TypeOK,
         CallsTypeOK
<1>2. ASSUME NEW jd \in Ids
      PROVE  Seen(jd)' /\ Listed(jd)' /\ Unlisted(jd)' /\ Booting(jd)' /\ ChangedAlone(jd)'
  BY <1>1
     DEF GuestInv, Kept, Seen, Listed, Unlisted, Booting, ChangedAlone, Brings, Removes, Up, Alive
<1>3. ASSUME NEW jd \in Ids
      PROVE  Agrees(jd)'
  BY <1>1 DEF GuestInv, Kept, Agrees, Matches, Between, Knows
<1>. QED
  BY <1>2, <1>3 DEF GuestInv, Kept

(* What is up when the process ends is lost; the next one starts with no entry. *)
LEMMA AgentStopsGuests ==
  ASSUME AgentStops
  PROVE  GuestInv'
<1>1. /\ \A c \in Calls : call'[c] = Idle
      /\ \A id \in Ids : entry'[id] = "none" /\ (guest'[id] \in Alive => id \in lost')
  BY DEF AgentStops
<1>2. Idle.at = "idle" /\ Idle.op = "none"
  BY DEF Idle
<1>. QED
  BY <1>1, <1>2 DEF GuestInv, Kept, Seen, Listed, Unlisted, Booting, ChangedAlone, Agrees, Removes,
                    Up, Changes

LEMMA GuestInit == Init => GuestInv
<1> SUFFICES ASSUME Init PROVE GuestInv
  OBVIOUS
<1>1. \A c \in Calls : call[c].at = "idle" /\ call[c].op = "none"
  BY DEF Init, CallsInit, Idle
<1>2. \A id \in Ids : entry[id] = "none" /\ ~Up(id)
  BY DEF Init, CallsInit, Up, Alive
<1>. QED
  BY <1>1, <1>2 DEF GuestInv, Kept, Seen, Listed, Unlisted, Booting, ChangedAlone, Agrees, Removes,
                    Changes

LEMMA GuestNext == TypeOK /\ CallInv /\ DiskHolds /\ GuestInv /\ [Next]_vars => GuestInv'
<1> SUFFICES ASSUME TypeOK, CallInv, DiskHolds, GuestInv, [Next]_vars PROVE GuestInv'
  OBVIOUS
<1>1. CASE UNCHANGED <<agentVars, runtime>>
  BY <1>1 DEF agentVars, GuestInv, Kept, Seen, Listed, Unlisted, Booting, ChangedAlone, Agrees,
              Brings, Removes, Up, Matches, Between, Knows
<1>2. CASE \E c \in Calls : RuntimeStep(c)
  <2>1. PICK c \in Calls : RuntimeStep(c)
    BY <1>2
  <2>2. CASE UNCHANGED agentVars
    BY <1>1, <2>1, <2>2 DEF RuntimeStep
  <2>3. CASE ~UNCHANGED agentVars
    BY <2>1, <2>3, DockerGuests, SdkGuests, DiskGuests, StartGuests, StopGuests, PauseGuests
       DEF RuntimeStep, DiskHolds, Firecracker!Step
  <2>. QED
    BY <2>2, <2>3
<1>3. CASE UNCHANGED vars
  BY <1>1, <1>3 DEF vars
<1>. QED
  BY <1>2, <1>3, AnswerGuests, ReceiveGuests, RequestEndsGuests, GuestEndsGuests, AgentStopsGuests
     DEF Next, Handle, ExecPanics

LEMMA GuestsHold == Spec => [](TypeOK /\ CallInv /\ GuestInv)
<1>1. IInv => TypeOK
  BY DEF IInv
<1>. QED
  BY <1>1, InvHolds, CallsHold, DiskInit, DiskStep, GuestInit, GuestNext, PTL DEF Spec

-----------------------------------------------------------------------------
(* NothingRunsUnseen: no container or machine runs without an entry, nor after its
   creator was told that the creation failed or a caller that it is stopped: its
   creator was told that it runs, or had left before any answer.  Apart from those
   that the agent lost. *)
THEOREM NothingUnseenHolds == Spec => []NothingRunsUnseen
<1>1. TypeOK /\ CallInv /\ GuestInv => NothingRunsUnseen
  <2> SUFFICES ASSUME TypeOK, CallInv, GuestInv, NEW id \in Ids, Up(id), ~Busy(id)
               PROVE  entry[id] # "none" /\ told[id] \in {"started", "unheard"}
    BY DEF NothingRunsUnseen, Up
  <2>1. \A c \in Calls : ~Brings(c, id) /\ ~Removes(c, id)
    BY PlacesOfChanges DEF Brings, Removes, Busy, Changes
  <2>. QED
    BY <2>1 DEF GuestInv, Kept, Seen
<1>. QED
  BY <1>1, GuestsHold, PTL

(* StatusIsTrue: a sandbox in the table is in the state that the table says, or
   died without anyone being told, unless calls on it overlapped or failed half-way. *)
THEOREM StatusHolds == Spec => []StatusIsTrue
<1>1. TypeOK /\ CallInv /\ GuestInv => StatusIsTrue
  <2> SUFFICES ASSUME CallInv, GuestInv, NEW id \in Ids, entry[id] # "none", ~Busy(id),
                      id \notin disturbed
               PROVE  Matches(id)
    BY DEF StatusIsTrue, Matches
  <2>1. \A c \in Calls : ~Between(c, id)
    BY DEF Between, Busy, CallInv, CallsAreInPlace, Fits, Changes
  <2>. QED
    BY <2>1 DEF GuestInv, Kept, Agrees
<1>. QED
  BY <1>1, GuestsHold, PTL

-----------------------------------------------------------------------------
\* The lock of the SDK runtime, which is what CallsReturn rests on: a call has a
\* part in it at the places that take it; one writer at most is announced; nobody
\* waits behind a writer, or is stuck behind one, who is not there.
Reads == {"status", "confirm", "exec"}

LockersAreInPlace ==
  \A c \in Calls : /\ call[c].at \in Operations \cup {"confirm", "hung", "idle"}
                   /\ lock[c] = "pending" => call[c].at \in Changes
                   /\ lock[c] \in {"waiting", "reading", "stuck"} => call[c].at \in Reads
OneWriterIsAnnounced == \A c, d \in Calls : lock[c] = "pending" /\ lock[d] = "pending" => c = d
WaitersHaveAWriter == \A c \in Calls : lock[c] \in {"waiting", "stuck"} => Sdk!Pending

LockInv == LockersAreInPlace /\ OneWriterIsAnnounced /\ WaitersHaveAWriter
LockHolds == runtime = "docker-sdk" => LockInv

(* A call that leaves the lock, with those that it lets in. *)
LEMMA WriterLeaves ==
  ASSUME TypeOK, LockInv, NEW c \in Calls, Sdk!Exclusive(c), Sdk!Unlock(c),
         \A d \in Calls \ {c} : call'[d] = call[d],
         call'[c].at \in Operations \cup {"confirm", "hung", "idle"}
  PROVE  LockInv'
<1>1. lock'[c] = "free" /\ \A d \in Calls : lock[d] = "pending" => d = c
  BY DEF Sdk!Exclusive, Sdk!Unlock, LockInv, OneWriterIsAnnounced
<1>2. ASSUME NEW d \in Calls, d # c
      PROVE  \/ lock[d] = "free" /\ lock'[d] = "free"
             \/ lock[d] = "waiting" /\ lock'[d] = "reading"
  <2>1. lock[d] \in {"free", "waiting"}
    BY <1>1, <1>2 DEF Sdk!Exclusive, TypeOK, Sdk!LockStates
  <2>. QED
    BY <1>2, <2>1 DEF Sdk!Unlock
<1>3. LockersAreInPlace'
  BY <1>1, <1>2 DEF LockInv, LockersAreInPlace
<1>4. OneWriterIsAnnounced' /\ WaitersHaveAWriter'
  BY <1>1, <1>2 DEF OneWriterIsAnnounced, WaitersHaveAWriter
<1>. QED
  BY <1>3, <1>4 DEF LockInv

LEMMA ReaderLeaves ==
  ASSUME TypeOK, LockInv, NEW c \in Calls, lock[c] = "reading", Sdk!RUnlock(c),
         \A d \in Calls \ {c} : call'[d] = call[d],
         call'[c].at \in Operations \cup {"confirm", "hung", "idle"}
  PROVE  LockInv'
<1>1. lock'[c] = "free" /\ \A d \in Calls \ {c} : lock'[d] = lock[d]
  BY DEF Sdk!RUnlock, TypeOK
<1>2. Sdk!Pending => Sdk!Pending'
  BY <1>1 DEF Sdk!Pending
<1>. QED
  BY <1>1, <1>2 DEF LockInv, LockersAreInPlace, OneWriterIsAnnounced, WaitersHaveAWriter

(* A call that takes its part in the lock, or waits for it. *)
LEMMA LockerEnters ==
  ASSUME TypeOK, LockInv, NEW c \in Calls, UNCHANGED call, NEW part \in {"pending", "waiting", "reading", "stuck"},
         lock' = [lock EXCEPT ![c] = part], lock[c] # "pending",
         part = "pending" => call[c].at \in Changes /\ ~Sdk!Pending,
         part # "pending" => call[c].at \in Reads,
         part \in {"waiting", "stuck"} => Sdk!Pending
  PROVE  LockInv'
<1>1. lock'[c] = part /\ \A d \in Calls \ {c} : lock'[d] = lock[d]
  BY DEF TypeOK
<1>2. Sdk!Pending => Sdk!Pending'
  BY <1>1 DEF Sdk!Pending
<1>3. LockersAreInPlace'
  BY <1>1 DEF LockInv, LockersAreInPlace
<1>4. OneWriterIsAnnounced'
  BY <1>1 DEF LockInv, OneWriterIsAnnounced, Sdk!Pending
<1>5. WaitersHaveAWriter'
  BY <1>1, <1>2 DEF LockInv, WaitersHaveAWriter
<1>. QED
  BY <1>3, <1>4, <1>5 DEF LockInv

(* Where the call is that a step of the runtime was for. *)
LEMMA SdkGoes ==
  ASSUME TypeOK, NEW c \in Calls, call[c].at # "idle",
         \/ Sdk!Return(c) \/ \E at \in {"confirm", "hung"} : Sdk!Goto(c, at)
  PROVE  /\ \A d \in Calls \ {c} : call'[d] = call[d]
         /\ call'[c].at \in {"confirm", "hung", "idle"}
<1>1. call[c] \in InProgress
  BY CallShape
<1>2. CASE Sdk!Return(c)
  BY <1>2 DEF Sdk!Return, Sdk!Idle, TypeOK, CallsTypeOK
<1>3. CASE \E at \in {"confirm", "hung"} : Sdk!Goto(c, at)
  <2>1. PICK at \in {"confirm", "hung"} : Sdk!Goto(c, at)
    BY <1>3
  <2>2. [call[c] EXCEPT !.at = at].at = at
    BY <1>1 DEF InProgress
  <2>. QED
    BY <2>1, <2>2 DEF Sdk!Goto, TypeOK, CallsTypeOK
<1>. QED
  BY <1>2, <1>3

LEMMA SdkLock ==
  ASSUME TypeOK, LockInv, NEW c \in Calls, Sdk!Step(c)
  PROVE  LockInv'
<1>1. CASE Sdk!Announce(c)
  BY <1>1, LockerEnters DEF Sdk!Announce, Sdk!agentVars, Sdk!Changes, Changes
<1>2. CASE Sdk!RLock(c)
  BY <1>2, LockerEnters DEF Sdk!RLock, Sdk!agentVars, Reads
<1>3. CASE Sdk!GetSandboxStatus(c) /\ Sdk!Pending
  BY <1>3, LockerEnters DEF Sdk!GetSandboxStatus, Sdk!agentVars, Reads
<1>4. CASE (Sdk!GetSandboxStatus(c) /\ ~Sdk!Pending) \/ Sdk!ExecCommand(c)
  <2>1. lock[c] = "reading" /\ Sdk!RUnlock(c) /\ call[c].at # "idle"
        /\ (Sdk!Return(c) \/ Sdk!Goto(c, "hung"))
    BY <1>4 DEF Sdk!GetSandboxStatus, Sdk!ExecCommand, Sdk!At, Sdk!Tell
  <2>. QED
    BY <2>1, SdkGoes, ReaderLeaves
<1>5. CASE Sdk!CreateSandbox(c) \/ Sdk!StopSandbox(c) \/ Sdk!PauseOrResumeSandbox(c)
  <2>1. Sdk!Exclusive(c) /\ Sdk!Unlock(c) /\ call[c].at # "idle"
        /\ (Sdk!Return(c) \/ Sdk!Goto(c, "confirm"))
    BY <1>5 DEF Sdk!CreateSandbox, Sdk!StopSandbox, Sdk!PauseOrResumeSandbox, Sdk!At, Sdk!Tell
  <2>. QED
    BY <2>1, SdkGoes, WriterLeaves
<1>. QED
  BY <1>1, <1>2, <1>3, <1>4, <1>5 DEF Sdk!Step

LEMMA LockInit == Init => LockHolds
<1>1. Idle.at = "idle"
  BY DEF Idle
<1>. QED
  BY <1>1 DEF Init, CallsInit, LockHolds, LockInv, LockersAreInPlace, OneWriterIsAnnounced,
              WaitersHaveAWriter

LEMMA LockStep == TypeOK /\ LockHolds /\ [Next]_vars => LockHolds'
<1> SUFFICES ASSUME TypeOK, LockHolds, [Next]_vars, runtime' = "docker-sdk" PROVE LockInv'
  BY DEF LockHolds
<1>0. runtime = "docker-sdk" /\ LockInv
  BY DEF LockHolds, Next, Receive, Handle, RuntimeStep, Confirm, Answer, ExecPanics, RequestEnds,
         GuestDies, VmKilled, AgentStops, vars
<1>1. ASSUME NEW c \in Calls, RuntimeStep(c) PROVE LockInv'
  BY <1>0, <1>1, SdkLock DEF RuntimeStep
<1>2. CASE AgentStops
  <2>1. Idle.at = "idle"
    BY DEF Idle
  <2>. QED
    BY <1>2, <2>1 DEF AgentStops, LockInv, LockersAreInPlace, OneWriterIsAnnounced,
                      WaitersHaveAWriter
<1>3. ASSUME UNCHANGED lock, NEW c \in Calls, \A d \in Calls \ {c} : call'[d] = call[d],
             \/ call'[c].at = call[c].at
             \/ call[c].at = "idle" /\ call'[c].at \in Operations
      PROVE  LockInv'
  <2>1. lock[c] # "free" => call'[c].at = call[c].at
    BY <1>0, <1>3 DEF LockInv, LockersAreInPlace, Changes, Reads, TypeOK, Sdk!LockStates
  <2>2. LockersAreInPlace'
    BY <1>0, <1>3, <2>1 DEF LockInv, LockersAreInPlace
  <2>3. OneWriterIsAnnounced' /\ WaitersHaveAWriter'
    BY <1>0, <1>3 DEF LockInv, OneWriterIsAnnounced, WaitersHaveAWriter, Sdk!Pending
  <2>. QED
    BY <2>2, <2>3 DEF LockInv
<1>4. ASSUME NEW c \in Calls, NEW op \in Operations, NEW id \in Ids, Receive(c, op, id)
      PROVE  LockInv'
  <2>1. [Idle EXCEPT !.op = op, !.at = op, !.id = id].at = op /\ Idle.at = "idle"
    BY DEF Idle
  <2>2. call'[c].at = op /\ call[c].at = "idle" /\ \A d \in Calls \ {c} : call'[d] = call[d]
    BY <1>4, <2>1 DEF Receive, Begin, TypeOK, CallsTypeOK
  <2>. QED
    BY <1>3, <1>4, <2>2 DEF Receive
<1>5. ASSUME NEW c \in Calls, RequestEnds(c) PROVE LockInv'
  <2>1. call[c] \in InProgress
    BY <1>0, <1>5, CallShape DEF RequestEnds, Changes, TypeOK, CallsTypeOK, Idle
  <2>2. [call[c] EXCEPT !.live = FALSE].at = call[c].at
    BY <2>1 DEF InProgress
  <2>3. call'[c].at = call[c].at /\ \A d \in Calls \ {c} : call'[d] = call[d]
    BY <1>5, <2>2 DEF RequestEnds, TypeOK, CallsTypeOK
  <2>. QED
    BY <1>3, <1>5, <2>3 DEF RequestEnds
<1>6. CASE UNCHANGED <<call, lock>>
  BY <1>0, <1>6 DEF LockInv, LockersAreInPlace, OneWriterIsAnnounced, WaitersHaveAWriter, Sdk!Pending
<1>. QED
  BY <1>0, <1>1, <1>2, <1>4, <1>5, <1>6
     DEF Next, Handle, Confirm, Answer, ExecPanics, GuestDies, VmKilled, Firecracker!ContextKills,
         vars, agentVars

LEMMA LockAlways == Spec => [](TypeOK /\ LockHolds)
<1>1. IInv => TypeOK
  BY DEF IInv
<1>. QED
  BY <1>1, InvHolds, LockInit, LockStep, PTL DEF Spec

\* What a call needs of the lock to go on: a writer to announce itself or to have
\* the lock for itself, a reader to ask for it or to have it.
GoesOn(c) ==
  \/ call[c].at \in Changes /\ lock[c] = "free" /\ ~Sdk!Pending
  \/ Sdk!Exclusive(c)
  \/ call[c].at \in Reads /\ lock[c] \in {"free", "reading"}

(* As long as no reader is stuck between its two read locks, some call can go
   on whenever one has not been answered and has not hung: the lock alone, taken
   once, never stops the runtime. *)
SomeoneGoesOn ==
  runtime = "docker-sdk" /\ (\A d \in Calls : lock[d] # "stuck") =>
    \A c \in Calls : call[c] # Idle /\ ~At(c, "hung") => \E d \in Calls : GoesOn(d)

(* GetSandboxStatus's second read lock is the only way to stop the SDK runtime. *)
THEOREM LockIsNoTrap == Spec => []SomeoneGoesOn
<1>1. TypeOK /\ LockHolds => SomeoneGoesOn
  <2> SUFFICES ASSUME TypeOK, LockInv, \A d \in Calls : lock[d] # "stuck",
                      NEW c \in Calls, call[c] # Idle, ~At(c, "hung")
               PROVE  \E d \in Calls : GoesOn(d)
    BY DEF LockHolds, SomeoneGoesOn
  <2>1. call[c].at \in Changes \cup Reads
    <3>1. call[c] \in InProgress
      BY DEF TypeOK, CallsTypeOK
    <3>. QED
      BY <3>1 DEF LockInv, LockersAreInPlace, At, InProgress, Steps, Operations, Changes, Reads
  <2>2. CASE Sdk!Pending
    <3>1. PICK d \in Calls : lock[d] = "pending"
      BY <2>2 DEF Sdk!Pending
    <3>2. CASE \E e \in Calls : lock[e] = "reading"
      BY <3>2 DEF LockInv, LockersAreInPlace, GoesOn
    <3>3. CASE \A e \in Calls : lock[e] # "reading"
      BY <3>1, <3>3 DEF Sdk!Exclusive, GoesOn
    <3>. QED
      BY <3>2, <3>3
  <2>3. CASE ~Sdk!Pending
    <3>1. lock[c] \in {"free", "reading"} /\ (lock[c] = "reading" => call[c].at \in Reads)
      BY <2>3 DEF LockInv, LockersAreInPlace, WaitersHaveAWriter, TypeOK, Sdk!LockStates, Sdk!Pending
    <3>. QED
      BY <2>1, <2>3, <3>1 DEF GoesOn
  <2>. QED
    BY <2>2, <2>3
<1>. QED
  BY <1>1, LockAlways, PTL

\* Once a reader is stuck, the writer that it waits for waits for it: both stay,
\* nobody changes a sandbox any more, and only the end of the process helps.
StuckStays ==
  (\E c \in Calls : lock[c] = "stuck") /\ runtime = "docker-sdk" =>
    \/ AgentStops
    \/ /\ \A c \in Calls : lock[c] \in {"stuck", "pending"} => lock'[c] = lock[c]
       /\ entry' = entry /\ envdPort' = envdPort

(* The deadlock of the nested read lock lasts. *)
THEOREM StuckForGood == Spec => [][StuckStays]_vars
<1>1. TypeOK /\ LockHolds /\ [Next]_vars => [StuckStays]_vars
  <2> SUFFICES ASSUME TypeOK, Next, NEW s \in Calls, lock[s] = "stuck", runtime = "docker-sdk",
                      ~AgentStops
               PROVE  /\ \A c \in Calls : lock[c] \in {"stuck", "pending"} => lock'[c] = lock[c]
                      /\ entry' = entry /\ envdPort' = envdPort
    BY DEF StuckStays
  <2>1. ASSUME NEW c \in Calls, Sdk!Step(c)
        PROVE  /\ \A d \in Calls : lock[d] \in {"stuck", "pending"} => lock'[d] = lock[d]
               /\ entry' = entry /\ envdPort' = envdPort
    <3>1. ~Sdk!Exclusive(c)
      BY DEF Sdk!Exclusive
    <3>2. /\ lock[c] \in {"free", "reading"} /\ entry' = entry /\ envdPort' = envdPort
          /\ \E part \in Sdk!LockStates : lock' = [lock EXCEPT ![c] = part]
      BY <2>1, <3>1
         DEF Sdk!Step, Sdk!Announce, Sdk!RLock, Sdk!CreateSandbox, Sdk!StopSandbox,
             Sdk!PauseOrResumeSandbox, Sdk!GetSandboxStatus, Sdk!ExecCommand, Sdk!RUnlock,
             Sdk!LockStates, Sdk!agentVars
    <3>. QED
      BY <3>2 DEF TypeOK
  <2>. QED
    BY <2>1
       DEF Next, Receive, Handle, RuntimeStep, Confirm, Answer, ExecPanics, RequestEnds, GuestDies,
           VmKilled, Firecracker!ContextKills
<1>. QED
  BY <1>1, LockAlways, PTL DEF Spec
=============================================================================
