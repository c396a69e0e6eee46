----------------------------- MODULE AgentCalls -----------------------------
(***************************************************************************)
(* What the three runtimes of a node have in common                        *)
(* (internal/orchestrator): the calls that the agent has in progress, the  *)
(* table of sandboxes that each runtime keeps in its process, and the      *)
(* containers or virtual machines themselves, which outlive the process.   *)
(***************************************************************************)
EXTENDS Integers, FiniteSets, Sequences

CONSTANTS
  Ids, Calls,  \* sandboxes, and calls that can be in progress together
  MaxPorts     \* bound: host ports, counted from 0

VARIABLES
  call,       \* the handlers in progress
  entry,      \* the runtime's table: the state it keeps, "none" without an entry
  envdPort,   \* the host port in a table entry
  guest,      \* the containers or virtual machines
  holds,      \* the host port a container holds; NoPort unless it runs
  told,       \* what the callers were told about a creation or a stop
  disturbed,  \* history: calls on the sandbox overlapped or failed half-way
  lost        \* history: the runtime lost sight of a guest that goes on

agentVars == <<call, entry, envdPort, guest, holds, told, disturbed, lost>>

-----------------------------------------------------------------------------
NoPort == -1
Ports == 0 .. MaxPorts - 1
Free(p) == \A id \in Ids : holds[id] # p

Changes == {"create", "stop", "pause", "resume"}
Operations == Changes \cup {"status", "exec"}
Steps == Operations \cup
  {"confirm", "mark", "hung", "savingBase", "inject", "start", "boot",
   "shutdown", "writeHosts", "rewriteHosts", "snapshot", "resuming"}
States == {"none", "running", "paused"}
Alive == {"running", "paused"}

(* live: the request's context has not ended; seen: a file read earlier. *)
Idle == [op |-> "none", at |-> "idle", id |-> CHOOSE id \in Ids : TRUE, live |-> TRUE, seen |-> {}]
InProgress == [op : Operations, at : Steps, id : Ids, live : BOOLEAN, seen : SUBSET Ids]

Doing(ops) == \E c \in Calls : call[c].op \in ops
Busy(id) == \E c \in Calls : call[c].op \in Changes /\ call[c].id = id
At(c, at) == call[c].at = at

Live(c) == call[c].live

(* A request arrives.  Two changes of one sandbox disturb each other. *)
Begin(c, op, id) ==
  /\ call[c] = Idle
  /\ call' = [call EXCEPT ![c] = [Idle EXCEPT !.op = op, !.at = op, !.id = id]]
  /\ disturbed' = IF Busy(id) /\ op \in Changes THEN disturbed \cup {id} ELSE disturbed

Goto(c, at) == call' = [call EXCEPT ![c].at = at]
Return(c) == call' = [call EXCEPT ![c] = Idle]

(* An answer, which reaches a caller who is still there. *)
Tell(c, what) ==
  /\ Return(c)
  /\ told' = [told EXCEPT ![call[c].id] = IF Live(c) THEN what
                                         ELSE IF call[c].op = "create" THEN "unheard" ELSE @]

SetEntry(id, s) == entry' = [entry EXCEPT ![id] = s]
DeleteEntry(id) == SetEntry(id, "none") /\ envdPort' = [envdPort EXCEPT ![id] = NoPort]
SetGuest(id, s) == guest' = [guest EXCEPT ![id] = s]

(* A container is started or removed, and with it its hold on the host port. *)
Started(id, p) == SetGuest(id, "running") /\ holds' = [holds EXCEPT ![id] = p]
Removed(id) == SetGuest(id, "none") /\ holds' = [holds EXCEPT ![id] = NoPort]

(* What a pause or a resume makes of the table: the entry, if still there. *)
Marked(c) ==
  LET id == call[c].id
  IN  IF entry[id] = "none" THEN entry
      ELSE [entry EXCEPT ![id] = IF call[c].op = "pause" THEN "paused" ELSE "running"]

CallsTypeOK ==
  /\ call \in [Calls -> InProgress \cup {Idle}]
  /\ entry \in [Ids -> States]
  /\ guest \in [Ids -> States \cup {"created", "dead"}]
  /\ envdPort \in [Ids -> Ports \cup {NoPort}]
  /\ holds \in [Ids -> Ports \cup {NoPort}]
  /\ told \in [Ids -> {"nothing", "started", "failed", "unheard", "stopped"}]
  /\ disturbed \subseteq Ids /\ lost \subseteq Ids

CallsInit ==
  /\ call = [c \in Calls |-> Idle]
  /\ entry = [id \in Ids |-> "none"]
  /\ envdPort = [id \in Ids |-> NoPort]
  /\ holds = [id \in Ids |-> NoPort]
  /\ guest = [id \in Ids |-> "none"]
  /\ told = [id \in Ids |-> "nothing"]
  /\ disturbed = {} /\ lost = {}
=============================================================================
