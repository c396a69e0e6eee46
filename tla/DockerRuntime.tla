---------------------------- MODULE DockerRuntime ----------------------------
(***************************************************************************)
(* The runtime that drives the docker command (runtime_docker.go).  Its    *)
(* lock is held over a whole creation or stop; the commands of a pause or  *)
(* a resume run outside it.  Host ports are numbers it hands out itself:   *)
(* first those given back, in the order they came, then the next new one.  *)
(***************************************************************************)
EXTENDS AgentCalls

VARIABLES
  pool,      \* availablePorts
  nextPort

portVars == <<pool, nextPort>>

(* allocatePort: the port, and the pool and the counter it leaves. *)
Drawn == IF pool # <<>> THEN Head(pool) ELSE nextPort
PoolAfterKeeps == pool  \* mutant: the port drawn from the pool stays in it
PoolAfter == IF pool # <<>> THEN Tail(pool) ELSE pool
Draw == nextPort' = IF pool # <<>> THEN nextPort ELSE nextPort + 1

releasePort(rest, p) == pool' = Append(rest, p)

-----------------------------------------------------------------------------
(* docker run succeeds: the entry is made with the drawn port. *)
RunSucceeds(c, id, p) ==
  /\ guest[id] = "none" /\ Free(p)
  /\ Started(id, p)
  /\ SetEntry(id, "running")
  /\ envdPort' = [envdPort EXCEPT ![id] = p]
  /\ pool' = PoolAfter
  /\ Goto(c, "confirm")
  /\ UNCHANGED <<told, disturbed, lost>>

(* It fails: the name is in use, or the image or the daemon is missing; the
   port is taken, which leaves a container that was created and not started;
   or the command is cut off with the request and the daemon goes on. *)
RunFails(c, id, p) ==
  /\ \/ UNCHANGED <<guest, holds, lost>>
     \/ guest[id] = "none" /\ ~Free(p) /\ SetGuest(id, "created") /\ UNCHANGED <<holds, lost>>
     \/ /\ ~Live(c) /\ guest[id] = "none" /\ Free(p)
        /\ Started(id, p)
        /\ lost' = lost \cup {id}
  /\ releasePort(PoolAfter, p)
  /\ Tell(c, "failed")
  /\ UNCHANGED <<entry, envdPort, disturbed>>

CreateSandbox(c) ==
  /\ At(c, "create")
  /\ Drawn \in Ports
  /\ Draw
  /\ LET id == call[c].id IN RunSucceeds(c, id, Drawn) \/ RunFails(c, id, Drawn)

-----------------------------------------------------------------------------
StopSandboxReleasesFirst(c) ==  \* mutant: the port goes back whether or not the container goes
  /\ At(c, "stop")
  /\ LET id == call[c].id
     IN  /\ \/ Removed(id) /\ DeleteEntry(id) /\ Tell(c, "stopped")
            \/ UNCHANGED <<guest, holds, entry, envdPort, told>> /\ Return(c)
         /\ IF entry[id] # "none" THEN releasePort(pool, envdPort[id]) ELSE UNCHANGED pool
  /\ UNCHANGED <<nextPort, disturbed, lost>>
StopSandboxKeepsEntry(c) ==  \* mutant: the entry is not deleted
  /\ At(c, "stop")
  /\ LET id == call[c].id
     IN  /\ Removed(id)
         /\ IF entry[id] # "none" /\ told[id] = "started"
            THEN releasePort(pool, envdPort[id]) ELSE UNCHANGED pool
         /\ Tell(c, "stopped")
  /\ UNCHANGED <<entry, envdPort, nextPort, disturbed, lost>>
StopSandboxDeletesFirst(c) ==  \* mutant: the entry is deleted before the command is run
  /\ At(c, "stop")
  /\ LET id == call[c].id
     IN  /\ \/ Removed(id) /\ Tell(c, "stopped")
            \/ UNCHANGED <<guest, holds, told>> /\ Return(c)
         /\ IF entry[id] # "none" THEN releasePort(pool, envdPort[id]) ELSE UNCHANGED pool
         /\ DeleteEntry(id)
  /\ UNCHANGED <<nextPort, disturbed, lost>>
(* docker rm -f, which fails or not where there is no container, by version;
   cut off, the daemon may still have removed the container. *)
StopSandbox(c) ==
  /\ At(c, "stop")
  /\ LET id == call[c].id
     IN  \/ /\ Removed(id)
            /\ IF entry[id] # "none" THEN releasePort(pool, envdPort[id]) ELSE UNCHANGED pool
            /\ DeleteEntry(id)
            /\ Tell(c, "stopped")
            /\ UNCHANGED disturbed
         \/ /\ \/ UNCHANGED <<guest, holds, disturbed>>
               \/ ~Live(c) /\ Removed(id) /\ disturbed' = disturbed \cup {id}
            /\ Return(c)
            /\ UNCHANGED <<entry, envdPort, pool, told>>
  /\ UNCHANGED <<nextPort, lost>>

-----------------------------------------------------------------------------
PauseSandboxIgnoresFailure(c) ==  \* mutant: the entry is marked whatever the command says
  /\ At(c, "pause")
  /\ LET id == call[c].id
     IN  (guest[id] = "running" /\ SetGuest(id, "paused")) \/ UNCHANGED guest
  /\ Goto(c, "mark")
  /\ UNCHANGED <<entry, envdPort, holds, told, disturbed, lost, portVars>>
(* docker pause and docker unpause, outside the lock.  One that is cut off may
   have taken effect. *)
PauseSandbox(c) ==
  /\ At(c, "pause")
  /\ LET id == call[c].id
     IN  \/ guest[id] = "running" /\ SetGuest(id, "paused") /\ Goto(c, "mark") /\ UNCHANGED disturbed
         \/ UNCHANGED <<guest, disturbed>> /\ Return(c)
         \/ /\ ~Live(c) /\ guest[id] = "running" /\ SetGuest(id, "paused") /\ Return(c)
            /\ disturbed' = disturbed \cup {id}
  /\ UNCHANGED <<entry, envdPort, holds, told, lost, portVars>>

ResumeSandbox(c) ==
  /\ At(c, "resume")
  /\ LET id == call[c].id
     IN  \/ guest[id] = "paused" /\ SetGuest(id, "running") /\ Goto(c, "mark") /\ UNCHANGED disturbed
         \/ UNCHANGED <<guest, disturbed>> /\ Return(c)
         \/ /\ ~Live(c) /\ guest[id] = "paused" /\ SetGuest(id, "running") /\ Return(c)
            /\ disturbed' = disturbed \cup {id}
  /\ UNCHANGED <<entry, envdPort, holds, told, lost, portVars>>

Mark(c) ==
  /\ At(c, "mark")
  /\ entry' = Marked(c)
  /\ Return(c)
  /\ UNCHANGED <<envdPort, guest, holds, told, disturbed, lost, portVars>>

(* The state and the port as GetSandboxStatus and ListSandboxes answer them:
   the table's, or else what docker inspect says, for which a paused container
   is a running one. *)
Status(id) ==
  IF entry[id] # "none" THEN [state |-> entry[id], port |-> envdPort[id]]
  ELSE IF guest[id] \in Alive THEN [state |-> "running", port |-> holds[id]]
  ELSE [state |-> IF guest[id] = "none" THEN "none" ELSE "stopped", port |-> NoPort]

Step(c) == CreateSandbox(c) \/ StopSandbox(c) \/ PauseSandbox(c) \/ ResumeSandbox(c) \/ Mark(c)
=============================================================================
