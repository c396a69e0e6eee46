----------------------------- MODULE SandboxApi -----------------------------
(***************************************************************************)
(* The sandbox handlers of the API (internal/api/sandbox.go), which keep a *)
(* record of every sandbox in a database (store.go, internal/db) and have  *)
(* the scheduler do the work.  The record and the scheduler's map are two  *)
(* states that each handler changes one after the other, under no common   *)
(* lock, while other requests and the expiration checker run in between.   *)
(*                                                                         *)
(* The scheduler is the abstract Placement that module Scheduler is proved *)
(* to implement: one of its operations is one step here, or an error.  An  *)
(* error leaves its map alone, and the node may have carried the command   *)
(* out all the same, or do so later.  The Docker SDK runtime answers a     *)
(* pause and a resume without doing anything.  The database is persistent  *)
(* (PostgreSQL or Supabase): records survive a restart of the API server,  *)
(* the scheduler's map does not.                                           *)
(***************************************************************************)
EXTENDS Integers, FiniteSets

CONSTANTS
  Requests,        \* HTTP requests that can be in progress together
  Ids, Nodes, NoNode, Cpu, Mem, CpuCap, MemCap,  \* as in Placement
  AutoPause,       \* sandboxes the checker pauses when they expire
  SdkNodes,        \* nodes that run the Docker SDK runtime
  Mortal,          \* bound: the sandboxes whose guest may die by itself
  MaxRestarts,     \* bound: restarts of the API server
  MaxLost          \* bound: commands whose outcome the scheduler never learns

ASSUME RestartsAssumption == MaxRestarts \in Nat

VARIABLES
  life, place,   \* the scheduler
  container,     \* what the nodes run
  late,          \* commands given up on before the node had executed them
  record,        \* the database: "none" where there is no row
  request,       \* the handlers in progress
  restarts,
  failedStops,   \* history: sandboxes a handler was told it could not stop
  disturbed,     \* history: sandboxes whose requests overlapped or were cut short
  unheard,       \* history: commands that failed for the scheduler, yet (may) run
  unfrozen,      \* history: sandboxes whose pause was answered and did nothing
  forgotten      \* history: sandboxes the scheduler forgot by a restart

S == INSTANCE Placement

schedulerVars == <<life, place>>
nodeVars == <<container, late, unheard, unfrozen>>
requestVars == <<request, disturbed>>
vars == <<schedulerVars, nodeVars, record, requestVars, restarts, failedStops, forgotten>>

-----------------------------------------------------------------------------
Idle == [at |-> "idle"]
Places == {"schedule", "cleanup", "stop", "forget", "freeze", "thaw", "markPaused", "markRunning"}
InProgress == [at: Places, id: Ids]

Busy(id) == \E r \in Requests : request[r] # Idle /\ request[r].id = id

(* Identifiers are random: a new sandbox has one that was never in use. *)
Fresh(id) == life[id] = "unborn" /\ record[id] = "none" /\ ~Busy(id)

Begin(r, id, at) == /\ request[r] = Idle
                    /\ request' = [request EXCEPT ![r] = [at |-> at, id |-> id]]
                    /\ disturbed' = IF Busy(id) THEN disturbed \cup {id} ELSE disturbed
                    /\ UNCHANGED <<nodeVars, failedStops, forgotten>>
At(r, at) == request[r].at = at
Goto(r, at) == request' = [request EXCEPT ![r].at = at] /\ UNCHANGED disturbed
Answer(r) == request' = [request EXCEPT ![r] = Idle] /\ UNCHANGED disturbed

SetRecord(id, s) == record' = [record EXCEPT ![id] = s]

UpdateSandboxStateUpserts(id, s) == SetRecord(id, s)  \* mutant: writes a missing row
(* UPDATE ... WHERE: a row that has been deleted stays deleted. *)
UpdateSandboxState(id, s) == IF record[id] = "none" THEN UNCHANGED record ELSE SetRecord(id, s)

-----------------------------------------------------------------------------
(* The scheduler's commands, as the nodes execute them (module Scheduler). *)
Ops == {"create", "stop", "pause", "resume"}
TargetKeepsStopped ==  \* mutant: a stopped sandbox stays in the runtime's table
  [create |-> "running", stop |-> "stopped", pause |-> "paused", resume |-> "running"]
Target == [create |-> "running", stop |-> "none", pause |-> "paused", resume |-> "running"]

Ignored(op, id) == op \in {"pause", "resume"} /\ place[id] \in SdkNodes

Doable(op, id) == \/ op \in {"create", "stop"}
                  \/ op = "pause" /\ container[id] = "running"
                  \/ op = "resume" /\ container[id] = "paused"

Executed(op, id) == /\ Doable(op, id)
                    /\ container' = [container EXCEPT ![id] = Target[op]]

(* The node answers success. *)
Succeeds(op, id) ==
  /\ \/ ~Ignored(op, id) /\ Executed(op, id) /\ UNCHANGED unfrozen
     \/ Ignored(op, id) /\ UNCHANGED container /\ unfrozen' = unfrozen \cup {id}
  /\ UNCHANGED <<late, unheard>>

(* An error that hides that the command was carried out, or may still be. *)
GoesUnheard(op, id) ==
  /\ Cardinality(unheard) < MaxLost
  /\ ~Ignored(op, id)
  /\ unheard' = unheard \cup {<<op, id>>}
  /\ \/ Executed(op, id) /\ UNCHANGED late
     \/ late' = late \cup {<<op, id>>} /\ UNCHANGED container
  /\ UNCHANGED unfrozen

(* The scheduler knows no such sandbox, or not in that state; the node refuses;
   or its answer is lost, to a command that the scheduler has sent. *)
Fails(op, id, sent) == \/ UNCHANGED nodeVars
                       \/ sent /\ GoesUnheard(op, id)

LateCommand(op, id) ==
  /\ <<op, id>> \in late
  /\ late' = late \ {<<op, id>>}
  /\ Executed(op, id) \/ UNCHANGED container
  /\ UNCHANGED <<schedulerVars, unheard, unfrozen, record, requestVars, restarts, failedStops,
                 forgotten>>

(* A container exits; a Firecracker VM ends with the request that created it. *)
GuestDies(id) ==
  /\ id \in Mortal
  /\ container[id] # "none"
  /\ container' = [container EXCEPT ![id] = "none"]
  /\ UNCHANGED <<schedulerVars, late, unheard, unfrozen, record, requestVars, restarts,
                 failedStops, forgotten>>

-----------------------------------------------------------------------------
(* POST /sandboxes: the row first, then the sandbox; an error removes the row. *)
CreateSandbox(r, id) ==
  /\ Fresh(id)
  /\ Begin(r, id, "schedule")
  /\ SetRecord(id, "running")
  /\ UNCHANGED <<schedulerVars, restarts>>

ScheduleCall(r) ==
  /\ At(r, "schedule")
  /\ LET id == request[r].id
     IN  \/ (\E n \in Nodes : S!Start(id, n)) /\ Succeeds("create", id) /\ Answer(r)
         \/ /\ S!Refuse(id)
            /\ Fails("create", id, \E n \in Nodes : S!HasRoom(n, id))
            /\ Goto(r, "cleanup")
  /\ UNCHANGED <<record, restarts, failedStops, forgotten>>

(* DELETE /sandboxes/{id}: whether or not the scheduler could stop it, the row
   goes.  The handler does not look at the row first. *)
DeleteSandboxFirst(r, id) ==  \* mutant: the row goes first
  /\ ~Fresh(id)
  /\ Begin(r, id, "stop")
  /\ SetRecord(id, "none")
  /\ UNCHANGED <<schedulerVars, restarts>>
DeleteSandbox(r, id) ==
  /\ ~Fresh(id)
  /\ Begin(r, id, "stop")
  /\ UNCHANGED <<schedulerVars, record, restarts>>

StopCall(r) ==
  /\ At(r, "stop")
  /\ Goto(r, "forget")
  /\ LET id == request[r].id
     IN  \/ S!End(id) /\ Succeeds("stop", id) /\ UNCHANGED failedStops
         \/ /\ Fails("stop", id, life[id] \in S!Alive)
            /\ failedStops' = failedStops \cup {id}
            /\ UNCHANGED schedulerVars
  /\ UNCHANGED <<record, restarts, forgotten>>

(* The row is removed: the clean-up of a creation, the end of a deletion. *)
Forget(r) ==
  /\ At(r, "forget") \/ At(r, "cleanup")
  /\ SetRecord(request[r].id, "none")
  /\ Answer(r)
  /\ UNCHANGED <<schedulerVars, nodeVars, restarts, failedStops, forgotten>>

(* POST .../pause: 404 without a row, 409 when the row says paused. *)
PauseSandbox(r, id) ==
  /\ record[id] = "running"
  /\ Begin(r, id, "freeze")
  /\ UNCHANGED <<schedulerVars, record, restarts>>

FreezeCallGoesOn(r) ==  \* mutant: an error is logged and the row is updated
  /\ At(r, "freeze")
  /\ LET id == request[r].id
     IN  \/ S!Freeze(id) /\ Succeeds("pause", id) /\ Goto(r, "markPaused")
         \/ /\ Fails("pause", id, life[id] = "running")
            /\ UNCHANGED schedulerVars
            /\ Goto(r, "markPaused")
  /\ UNCHANGED <<record, restarts, failedStops, forgotten>>
FreezeCall(r) ==
  /\ At(r, "freeze")
  /\ LET id == request[r].id
     IN  \/ S!Freeze(id) /\ Succeeds("pause", id) /\ Goto(r, "markPaused")
         \/ Fails("pause", id, life[id] = "running") /\ UNCHANGED schedulerVars /\ Answer(r)
  /\ UNCHANGED <<record, restarts, failedStops, forgotten>>

(* POST .../resume: 409 unless the row says paused. *)
ResumeSandbox(r, id) ==
  /\ record[id] = "paused"
  /\ Begin(r, id, "thaw")
  /\ UNCHANGED <<schedulerVars, record, restarts>>

ThawCall(r) ==
  /\ At(r, "thaw")
  /\ LET id == request[r].id
     IN  \/ S!Thaw(id) /\ Succeeds("resume", id) /\ Goto(r, "markRunning")
         \/ Fails("resume", id, life[id] = "paused") /\ UNCHANGED schedulerVars /\ Answer(r)
  /\ UNCHANGED <<record, restarts, failedStops, forgotten>>

(* POST .../connect: a paused row becomes a running one, and the scheduler is
   not asked to resume anything.  (A running row only gets a new end time.) *)
ConnectSandbox(r, id) ==
  /\ record[id] = "paused"
  /\ Begin(r, id, "markRunning")
  /\ UNCHANGED <<schedulerVars, record, restarts>>

(* The row follows the scheduler. *)
Mark(r) ==
  /\ \/ At(r, "markPaused")  /\ UpdateSandboxState(request[r].id, "paused")
     \/ At(r, "markRunning") /\ UpdateSandboxState(request[r].id, "running")
  /\ Answer(r)
  /\ UNCHANGED <<schedulerVars, nodeVars, restarts, failedStops, forgotten>>

-----------------------------------------------------------------------------
(* The expiration checker ends or pauses a sandbox and leaves the row alone;
   nobody reads its errors. *)
Expire(id) ==
  /\ IF id \in AutoPause
     THEN \/ S!Freeze(id) /\ Succeeds("pause", id)
          \/ life[id] = "running" /\ GoesUnheard("pause", id) /\ UNCHANGED schedulerVars
     ELSE \/ S!End(id) /\ Succeeds("stop", id)
          \/ life[id] \in S!Alive /\ GoesUnheard("stop", id) /\ UNCHANGED schedulerVars
  /\ UNCHANGED <<record, requestVars, restarts, failedStops, forgotten>>

(* The server stops at any point and starts with an empty scheduler.  (A command
   on its way then is one that goes unheard just before.) *)
Restart ==
  /\ restarts < MaxRestarts
  /\ restarts' = restarts + 1
  /\ request' = [r \in Requests |-> Idle]
  /\ life' = [id \in Ids |-> IF Fresh(id) THEN "unborn" ELSE "gone"]
  /\ place' = [id \in Ids |-> NoNode]
  /\ disturbed' = disturbed \cup {id \in Ids : Busy(id)}
  /\ forgotten' = forgotten \cup {id \in Ids : life[id] \in S!Alive}
  /\ UNCHANGED <<nodeVars, record, failedStops>>

Init == /\ S!Init
        /\ container = [id \in Ids |-> "none"]
        /\ record = [id \in Ids |-> "none"]
        /\ request = [r \in Requests |-> Idle]
        /\ restarts = 0
        /\ failedStops = {}
        /\ disturbed = {}
        /\ late = {}
        /\ unheard = {}
        /\ unfrozen = {}
        /\ forgotten = {}

Arrive(r, id) == \/ CreateSandbox(r, id)
                 \/ DeleteSandbox(r, id)
                 \/ PauseSandbox(r, id)
                 \/ ResumeSandbox(r, id)
                 \/ ConnectSandbox(r, id)

Proceed(r) == ScheduleCall(r) \/ StopCall(r) \/ Forget(r) \/ FreezeCall(r) \/ ThawCall(r) \/ Mark(r)

Next == \/ \E r \in Requests : Proceed(r) \/ \E id \in Ids : Arrive(r, id)
        \/ \E id \in Ids : Expire(id) \/ GuestDies(id)
        \/ \E op \in Ops, id \in Ids : LateCommand(op, id)
        \/ Restart

Spec == Init /\ [][Next]_vars

-----------------------------------------------------------------------------
(* Properties. *)

TypeOK ==
  /\ life \in [Ids -> S!Lives]
  /\ place \in [Ids -> Nodes \cup {NoNode}]
  /\ container \in [Ids -> {"none"} \cup S!Alive]
  /\ record \in [Ids -> {"none"} \cup S!Alive]
  /\ request \in [Requests -> {Idle} \cup InProgress]
  /\ restarts \in 0 .. MaxRestarts
  /\ failedStops \subseteq Ids
  /\ disturbed \subseteq Ids
  /\ late \subseteq unheard /\ unheard \subseteq Ops \X Ids
  /\ unfrozen \subseteq Ids
  /\ forgotten \subseteq Ids

(* Containers that are lost sight of, being neither in the scheduler's map nor
   in the database, come about in two ways only: the answer to their creation
   was lost, and the handler has removed the row; or their server was started
   anew and a deletion, before or after, removed the row in spite of a stop that
   failed.  A failed stop alone leaves the sandbox in the map, and a restart
   alone leaves its row. *)
Traceable ==
  \A id \in Ids : container[id] # "none" =>
    \/ life[id] \in S!Alive \/ record[id] # "none"
    \/ <<"create", id>> \in unheard
    \/ id \in failedStops \cap forgotten

(* The life of a sandbox as its row shows it. *)
RecordLife == [id \in Ids |-> IF record[id] # "none" THEN record[id]
                              ELSE IF Fresh(id) THEN "unborn" ELSE "gone"]

L == INSTANCE Lifecycle WITH life <- RecordLife

(* A sandbox is listed once in its life: after its row was deleted, by whom and
   between whichever steps of the handlers at work on it, it never comes back,
   not by a restart either. *)
RecordsLiveOnce == L!Spec

(* A sandbox whose requests came one after the other, each to its end, and that
   is listed as paused is not running, whatever the checker, a restart or a late
   command did: unless the answer to a resume was lost, or its pause was answered
   by a runtime that does not pause. *)
PausedIsFrozen ==
  \A id \in Ids \ disturbed :
    (record[id] = "paused" /\ ~Busy(id) /\ container[id] = "running")
      => <<"resume", id>> \in unheard \/ id \in unfrozen

(* README.md, "Resume a paused sandbox": the resume handler takes requests for
   the sandboxes that are paused; it looks at the row. *)
PausedCanBeResumed ==
  \A id \in Ids : life[id] = "paused" /\ record[id] # "none" /\ ~Busy(id)
                    => record[id] = "paused"
=============================================================================
