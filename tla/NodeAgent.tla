----------------------------- MODULE NodeAgent -----------------------------
(***************************************************************************)
(* The node agent (internal/orchestrator/service.go, cmd/orchestrator):    *)
(* its handlers, over the one runtime it was started with, the edge        *)
(* controller that routes requests by what the runtime answers, and what   *)
(* happens around it: guests that die, callers who leave, the end of the   *)
(* process, after which the next one finds the guests and not the table.   *)
(***************************************************************************)
EXTENDS AgentCalls, Functions

CONSTANTS
  MaxFaults  \* bound for each runtime: callers who leave, commands that fail half-way, deaths of
             \* guests, ends of the process

VARIABLES
  runtime,     \* config.RuntimeMode
  pool, nextPort,
  lock,
  rootfs, base, hosts, watched, torn, stuck, untidy,
  faults

Docker == INSTANCE DockerRuntime
Sdk == INSTANCE DockerSdkRuntime
Firecracker == INSTANCE FirecrackerRuntime

ports == <<pool, nextPort>>
files == <<rootfs, base, hosts, watched, torn, stuck, untidy>>
vars == <<agentVars, runtime, ports, lock, files, faults>>

Runtimes == {"docker", "docker-sdk", "firecracker"}

ASSUME BoundsAssumption == MaxPorts \in Nat /\ MaxFaults \in [Runtimes -> Nat]

Fault == faults < MaxFaults[runtime] /\ faults' = faults + 1

-----------------------------------------------------------------------------
(* The control plane asks for new sandboxes, and the rest of those whose
   creation was confirmed to it; stops are repeated.  It changes one sandbox at
   a time, unless it gave an earlier call up.  Firecracker answers status and
   exec from its table and from envd, whatever else goes on. *)
Asked(op, id) ==
  CASE op = "create" -> told[id] = "nothing" /\ ~Busy(id)
    [] op = "stop"   -> told[id] \in {"started", "stopped"}
    [] op \in {"pause", "resume"} -> told[id] = "started"
    [] op \in {"status", "exec"}  -> told[id] = "started" /\ runtime # "firecracker"

(* A stop rewrites /etc/hosts, to which creations append. *)
Crosses(op) == (op \in {"create", "stop"} /\ Doing({"stop"})) \/ (op = "stop" /\ Doing({"create"}))

Receive(c, op, id) ==
  /\ Asked(op, id)
  /\ op \in Changes => \A d \in Calls : call[d].op \in Changes => ~Live(d)
  /\ Begin(c, op, id)
  /\ untidy' = (untidy \/ (runtime = "firecracker" /\ Crosses(op)))
  /\ UNCHANGED <<entry, envdPort, guest, holds, told, lost, runtime, ports, lock,
                 rootfs, base, hosts, watched, torn, stuck, faults>>

(* The step that the runtime takes for the handler. *)
RuntimeStep(c) ==
  /\ \/ runtime = "docker" /\ Docker!Step(c) /\ UNCHANGED <<lock, files>>
     \/ runtime = "docker-sdk" /\ Sdk!Step(c) /\ UNCHANGED <<ports, files>>
     \/ runtime = "firecracker" /\ Firecracker!Step(c) /\ UNCHANGED <<ports, lock>>
  /\ IF UNCHANGED <<disturbed, lost, torn, stuck, untidy>> THEN UNCHANGED faults ELSE Fault
  /\ UNCHANGED runtime

(* After a creation the agent asks the runtime for the status, and reports a
   failure when it has none. *)
Confirm(c) ==
  /\ runtime # "docker-sdk" /\ At(c, "confirm")
  /\ LET id == call[c].id
     IN  IF entry[id] # "none" \/ (runtime = "docker" /\ guest[id] # "none")
         THEN Tell(c, "started") ELSE Tell(c, "failed")
  /\ UNCHANGED <<entry, envdPort, guest, holds, disturbed, lost, runtime, ports, lock, files, faults>>

(* Status and exec end, whatever they answer, and change nothing. *)
Answer(c) ==
  /\ runtime # "docker-sdk" /\ call[c].at \in {"status", "exec"}
  /\ Return(c)
  /\ UNCHANGED <<entry, envdPort, guest, holds, told, disturbed, lost, runtime, ports, lock, files, faults>>

Handle(c) == RuntimeStep(c) \/ Confirm(c) \/ Answer(c)

-----------------------------------------------------------------------------
(* The process ends and is started again. *)
AgentStops ==
  /\ Fault
  /\ call' = [c \in Calls |-> Idle]
  /\ entry' = [id \in Ids |-> "none"] /\ envdPort' = [id \in Ids |-> NoPort]
  /\ lost' = lost \cup {id \in Ids : guest[id] \in Alive}
  /\ pool' = <<>> /\ nextPort' = 0
  /\ lock' = [c \in Calls |-> "free"]
  /\ watched' = {}
  /\ torn' = (runtime = "firecracker") /\ untidy' = (runtime = "firecracker")
  /\ UNCHANGED <<guest, holds, told, disturbed, runtime, rootfs, base, hosts, stuck>>

(* The goroutine of a docker exec closes the channel of outputs while those
   that read the pipes still send to it: that panic ends the process. *)
ExecPanics(c) == runtime = "docker" /\ At(c, "exec") /\ AgentStops

(* A guest ends of its own accord; no runtime is told. *)
GuestDies(id) ==
  /\ Fault
  /\ guest[id] \in Alive
  /\ SetGuest(id, "dead") /\ watched' = watched \ {id} /\ holds' = [holds EXCEPT ![id] = NoPort]
  /\ UNCHANGED <<call, entry, envdPort, told, disturbed, lost, runtime, ports, lock, rootfs, base,
                 hosts, torn, stuck, untidy>>

(* The caller leaves or gives the call up after its 120 s. *)
RequestEnds(c) ==
  /\ Fault
  /\ call[c].op \in Changes /\ Live(c)
  /\ call' = [call EXCEPT ![c].live = FALSE]
  /\ torn' = (torn \/ At(c, "savingBase"))
  /\ UNCHANGED <<entry, envdPort, guest, holds, told, disturbed, lost, runtime, ports, lock,
                 rootfs, base, hosts, watched, stuck, untidy>>

VmKilled(id) ==
  /\ Firecracker!ContextKills(id)
  /\ UNCHANGED <<runtime, pool, nextPort, lock, faults>>

Init ==
  /\ CallsInit
  /\ runtime \in Runtimes
  /\ pool = <<>> /\ nextPort = 0
  /\ lock = [c \in Calls |-> "free"]
  /\ rootfs = [id \in Ids |-> "none"]
  /\ base = "none" /\ hosts = {} /\ watched = {} /\ torn = FALSE /\ stuck = {} /\ untidy = FALSE
  /\ faults = 0

Next ==
  \/ \E c \in Calls, op \in Operations, id \in Ids : Receive(c, op, id)
  \/ \E c \in Calls : Handle(c) \/ ExecPanics(c) \/ RequestEnds(c)
  \/ \E id \in Ids : GuestDies(id) \/ VmKilled(id)
  \/ AgentStops

Spec == Init /\ [][Next]_vars

(* A handler that can go on does: the commands it runs end, or are ended with
   the request, and a sync.RWMutex starves no one who waits for it. *)
FairSpec == Spec /\ \A c \in Calls : SF_vars(Handle(c))

-----------------------------------------------------------------------------
(* The sandboxes that the answer of GetSandboxStatus leads to, if any. *)
Status(id) == IF runtime = "docker" THEN Docker!Status(id)
              ELSE [state |-> entry[id], port |-> envdPort[id]]
Serving(port) == {id \in Ids : port # NoPort /\ holds[id] = port}

(* The edge controller proxies to a sandbox that is listed as running.  It
   writes the port after an address, which for the docker command and for
   Firecracker ends in the port already: no such host can be dialled. *)
RoutedTo(id) ==
  IF runtime = "docker-sdk" /\ Status(id).state = "running" THEN Serving(Status(id).port) ELSE {}

(* Type invariant.  Pooled ports have been handed out before, each is in the
   pool once. *)
TypeOK ==
  /\ CallsTypeOK
  /\ runtime \in Runtimes
  /\ nextPort \in 0 .. MaxPorts
  /\ pool \in Seq(0 .. nextPort - 1) /\ IsInjective(pool)
  /\ lock \in [Calls -> Sdk!LockStates]
  /\ rootfs \in [Ids -> {"none", "unfinished", "partial", "whole", "emptied"}]
  /\ base \in {"none", "partial", "whole"}
  /\ hosts \subseteq Ids /\ watched \subseteq Ids /\ stuck \subseteq Ids
  /\ torn \in BOOLEAN /\ untidy \in BOOLEAN
  /\ faults \in 0 .. MaxFaults[runtime]

(* The port that the docker runtime answers for a sandbox in its table leads
   to that sandbox or to none: not to one that was given the port later,
   whatever failed, died or was started anew in between (allocatePort,
   releasePort). *)
NeverMisrouted ==
  runtime = "docker" => \A id \in Ids : entry[id] # "none" => Serving(envdPort[id]) \subseteq {id}

(* "allocatePort returns an available port": the port it would return next is
   held by no container, as long as the agent has not been started anew and
   has not lost sight of a container. *)
PortsComeFree ==
  runtime = "docker" /\ lost = {} => Free(Docker!Drawn)

(* A sandbox in the table is in the state that the table says, or died without
   anyone being told: except while a call changes it, after calls that
   overlapped or failed half-way, and but for what the SDK runtime has removed,
   whose entries it keeps. *)
StatusIsTrue ==
  \A id \in Ids : entry[id] # "none" /\ ~Busy(id) /\ id \notin disturbed =>
    guest[id] \in {entry[id], "dead"} \/ (runtime = "docker-sdk" /\ guest[id] = "none")

(* No container or machine runs without an entry, nor after its creator was
   told that the creation failed, nor after a caller was told that it is stopped:
   the creator was told that it runs, or had left before any answer.  Apart from
   those that the agent lost when it was started anew, was cut off from docker or
   could not kill a machine. *)
NothingRunsUnseen ==
  \A id \in Ids : guest[id] \in Alive /\ ~Busy(id) /\ id \notin lost =>
    entry[id] # "none" /\ told[id] \in {"started", "unheard"}

(* Once no stop is at work, /etc/hosts names the machines in the table and no
   others, unless a stop overlapped with a creation or another stop, or the
   file could not be written (addHostsEntry, removeHostsEntry). *)
NamesMatch ==
  runtime = "firecracker" /\ ~untidy /\ ~Doing({"stop"}) =>
    \A id \in Ids : ~Busy(id) => (entry[id] # "none" <=> id \in hosts)

(* No machine is started from a disk that was removed, or that was emptied when
   its request ended: one that runs from an emptied disk is one whose umount failed
   while the request went on, which nobody notices.  Nor from a part of the base
   image unless creations overlapped, were cut off or ran out of disk.  A template's
   image may be unfinished: nobody asks for the end of its build (prepareRootfs,
   injectEnvdIntoRootfs). *)
BootsFromItsDisk ==
  \A id \in Ids : runtime = "firecracker" /\ guest[id] \in Alive /\ id \notin lost =>
    \/ rootfs[id] \in {"whole", "unfinished"}
    \/ rootfs[id] = "partial" /\ torn
    \/ rootfs[id] = "emptied" /\ id \in stuck

(* Every call is answered, or the process ends: except that the SDK runtime's
   nested read lock can stop it for good, and its exec never ends. *)
CallsReturn ==
  \A c \in Calls :
    (call[c] # Idle) ~> (call[c] = Idle \/ At(c, "hung") \/ \E d \in Calls : lock[d] = "stuck")

(* The claim of the edge controller: it "routes requests based on the
   E2b-Sandbox-Id header to the correct sandbox's envd instance". *)
EdgeRoutesCorrectly == \A id \in Ids : RoutedTo(id) \subseteq {id}
=============================================================================
