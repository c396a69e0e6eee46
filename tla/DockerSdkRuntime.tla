-------------------------- MODULE DockerSdkRuntime --------------------------
(***************************************************************************)
(* The runtime that drives Docker through its SDK (runtime_docker_sdk.go). *)
(* Docker chooses the host ports.  Entries are made and never deleted;     *)
(* pause and resume answer without doing anything.  Its lock is a          *)
(* sync.RWMutex, modelled because GetSandboxStatus takes the read lock     *)
(* twice: once a writer has announced itself no new reader is let in.      *)
(***************************************************************************)
EXTENDS AgentCalls

VARIABLES
  lock   \* a call's part in r.mu

LockStates == {"free", "pending", "waiting", "reading", "stuck"}

Pending == \E c \in Calls : lock[c] = "pending"

(* Lock: the writer announces itself, then waits for the readers to leave. *)
Announce(c) ==
  /\ call[c].at \in Changes /\ lock[c] = "free"
  /\ ~Pending
  /\ lock' = [lock EXCEPT ![c] = "pending"]
  /\ UNCHANGED agentVars

Exclusive(c) == lock[c] = "pending" /\ \A d \in Calls : lock[d] \notin {"reading", "stuck"}

UnlockLetsNobodyIn(c) == lock' = [lock EXCEPT ![c] = "free"]  \* mutant: waiting readers are forgotten
(* Unlock lets in the readers that wait. *)
Unlock(c) ==
  lock' = [d \in Calls |-> IF d = c THEN "free"
                           ELSE IF lock[d] = "waiting" THEN "reading" ELSE lock[d]]

RLock(c) ==
  /\ call[c].at \in {"status", "confirm", "exec"} /\ lock[c] = "free"
  /\ lock' = [lock EXCEPT ![c] = IF Pending THEN "waiting" ELSE "reading"]
  /\ UNCHANGED agentVars

RUnlock(c) == lock' = [lock EXCEPT ![c] = "free"]

-----------------------------------------------------------------------------
(* container.Run does not end with the request, MappedPort does: the container
   then runs and the caller is told that the creation failed. *)
CreateSandbox(c) ==
  /\ At(c, "create") /\ Exclusive(c)
  /\ LET id == call[c].id
     IN  \/ /\ \E s \in {"none", "created"} : SetGuest(id, s)
            /\ Tell(c, "failed")
            /\ UNCHANGED <<entry, envdPort, holds, lost>>
         \/ \E p \in Ports :
              /\ Free(p)
              /\ Started(id, p)
              /\ \/ /\ SetEntry(id, "running")
                    /\ envdPort' = [envdPort EXCEPT ![id] = p]
                    /\ Goto(c, "confirm")
                    /\ UNCHANGED <<told, lost>>
                 \/ /\ lost' = lost \cup {id}
                    /\ Tell(c, "failed")
                    /\ UNCHANGED <<entry, envdPort>>
  /\ Unlock(c)
  /\ UNCHANGED disturbed

(* The container is looked up by its label and terminated; the table keeps its
   entry.  The answer of a termination can be lost with the request. *)
StopSandbox(c) ==
  /\ At(c, "stop") /\ Exclusive(c)
  /\ LET id == call[c].id
     IN  \/ Return(c) /\ UNCHANGED <<guest, holds, told, disturbed>>
         \/ /\ guest[id] # "none"
            /\ Removed(id)
            /\ \/ Tell(c, "stopped") /\ UNCHANGED disturbed
               \/ ~Live(c) /\ Return(c) /\ disturbed' = disturbed \cup {id} /\ UNCHANGED told
  /\ Unlock(c)
  /\ UNCHANGED <<entry, envdPort, lost>>

PauseOrResumeSandbox(c) ==
  /\ call[c].at \in {"pause", "resume"} /\ Exclusive(c)
  /\ IF At(c, "pause") THEN Return(c) ELSE Goto(c, "confirm")
  /\ Unlock(c)
  /\ UNCHANGED <<entry, envdPort, guest, holds, told, disturbed, lost>>

(* GetSandboxStatus inside its first read lock: the second one is granted
   unless a writer has announced itself, who in turn waits for the first.
   (Of a container without an entry the handler answers an error or panics.) *)
GetSandboxStatus(c) ==
  /\ call[c].at \in {"status", "confirm"} /\ lock[c] = "reading"
  /\ IF Pending
     THEN lock' = [lock EXCEPT ![c] = "stuck"] /\ UNCHANGED agentVars
     ELSE /\ RUnlock(c)
          /\ IF call[c].op = "create" THEN Tell(c, "started") ELSE Return(c) /\ UNCHANGED told
          /\ UNCHANGED <<entry, envdPort, guest, holds, disturbed, lost>>

(* ExecCommand returns no channel, and the agent's handler waits on it for
   ever, whatever becomes of the request. *)
ExecCommand(c) ==
  /\ At(c, "exec") /\ lock[c] = "reading"
  /\ RUnlock(c)
  /\ Goto(c, "hung")
  /\ UNCHANGED <<entry, envdPort, guest, holds, told, disturbed, lost>>

Step(c) == Announce(c) \/ RLock(c) \/ CreateSandbox(c) \/ StopSandbox(c)
           \/ PauseOrResumeSandbox(c) \/ GetSandboxStatus(c) \/ ExecCommand(c)
=============================================================================
