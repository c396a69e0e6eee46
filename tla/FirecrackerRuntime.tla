------------------------- MODULE FirecrackerRuntime -------------------------
(***************************************************************************)
(* The runtime that starts Firecracker virtual machines                    *)
(* (runtime_firecracker.go).  Its lock covers the table and nothing else:  *)
(* the root file systems, the base image that all sandboxes are copied     *)
(* from, the file of host names and the machines change outside it.        *)
(***************************************************************************)
EXTENDS AgentCalls

VARIABLES
  rootfs,   \* each sandbox's disk
  base,     \* artifacts/base/default/rootfs.ext4
  hosts,    \* the sandboxes with a line in /etc/hosts
  watched,  \* machines whose process the context of a request will kill
  torn,     \* history: a copy to the base image failed or was cut off
  stuck,    \* history: disks that could not be unmounted though their request went on
  untidy    \* history: /etc/hosts was written by two at once, or not at all

files == <<rootfs, base, hosts, watched, torn, stuck, untidy>>
unchangedByDisk == <<entry, envdPort, guest, holds, disturbed, lost, hosts, watched, untidy>>

Disk(id, d) == rootfs' = [rootfs EXCEPT ![id] = d]

(* Every disk that is made or changed is mounted, and when the work is done
   unmounted, whose outcome nobody looks at; then the mount point is removed with
   all that is in it.  What is still mounted is emptied. *)
UnmountFails(id) == Disk(id, "emptied") /\ stuck' = stuck \cup {id}
CleanUp(c) == Disk(call[c].id, "none") /\ Tell(c, "failed")

-----------------------------------------------------------------------------
(* createFirecrackerRootfs, of the build service, makes the image of a template
   in its place in the directory of artifacts, and leaves it there when the
   files cannot be extracted into it: what there is to copy at any moment. *)
TemplateImages == {"unfinished", "whole"}

(* prepareRootfs: a copy of the template's image, whether or not its build is
   done, or one made of its tar file, or a minimal one; else a copy of the base
   image, as it is at that moment; else a download, which becomes the base
   image unless there is one (downloadBaseRootfs). *)
PrepareRootfs(c) ==
  /\ At(c, "create")
  /\ \/ /\ Live(c)
        /\ \/ \E d \in TemplateImages : Disk(call[c].id, d) /\ Goto(c, "inject") /\ UNCHANGED base
           \/ base # "none" /\ Disk(call[c].id, base) /\ Goto(c, "inject") /\ UNCHANGED base
           \/ base = "none" /\ Disk(call[c].id, "whole") /\ Goto(c, "savingBase") /\ base' = "partial"
        /\ UNCHANGED <<told, stuck>>
     \/ Live(c) /\ UnmountFails(call[c].id) /\ Goto(c, "inject") /\ UNCHANGED <<base, told>>
     \/ CleanUp(c) /\ UNCHANGED <<base, stuck>>
  /\ UNCHANGED <<torn, unchangedByDisk>>

(* The copy to the base image is not atomic and its outcome is ignored. *)
SaveBase(c) ==
  /\ At(c, "savingBase")
  /\ \/ Live(c) /\ base' = "whole" /\ UNCHANGED torn
     \/ torn' = TRUE /\ UNCHANGED base
  /\ Goto(c, "inject")
  /\ UNCHANGED <<rootfs, stuck, told, unchangedByDisk>>

(* injectEnvdIntoRootfs: mount, copy, unmount, remove the mount point.  When
   the request ends in between, umount cannot be started; it may fail for reasons
   of its own.  Other failures are only logged. *)
InjectEnvd(c) ==
  /\ At(c, "inject")
  /\ \/ UNCHANGED <<rootfs, stuck>>
     \/ ~Live(c) /\ Disk(call[c].id, "emptied") /\ UNCHANGED stuck
     \/ Live(c) /\ UnmountFails(call[c].id)
  /\ Goto(c, "start")
  /\ UNCHANGED <<base, torn, told, unchangedByDisk>>

StartVmUnwatched(c) ==  \* mutant: the command is built with a context of its own
  /\ At(c, "start")
  /\ SetGuest(call[c].id, "running")
  /\ Goto(c, "boot")
  /\ UNCHANGED <<entry, envdPort, holds, told, disturbed, lost, files>>
(* machine.Start, with a command that ends with the request's context. *)
StartVm(c) ==
  /\ At(c, "start")
  /\ LET id == call[c].id
     IN  \/ /\ Live(c)
            /\ SetGuest(id, "running") /\ watched' = watched \cup {id}
            /\ Goto(c, "boot")
            /\ UNCHANGED <<told, rootfs>>
         \/ CleanUp(c) /\ UNCHANGED <<guest, watched>>
  /\ UNCHANGED <<entry, envdPort, holds, disturbed, lost, base, hosts, torn, stuck, untidy>>

(* Up to 60 s of waiting for envd, then the line in /etc/hosts, neither of
   which can fail the creation, and the entry: nobody looks at one for the other. *)
Boot(c) ==
  /\ At(c, "boot")
  /\ \/ hosts' = hosts \cup {call[c].id} /\ UNCHANGED untidy
     \/ untidy' = TRUE /\ UNCHANGED hosts
  /\ SetEntry(call[c].id, "running")
  /\ Goto(c, "confirm")
  /\ UNCHANGED <<envdPort, guest, holds, told, disturbed, lost, rootfs, base, watched, torn, stuck>>

-----------------------------------------------------------------------------
(* StopSandbox: the entry goes first, so that one stop does the rest. *)
StopSandbox(c) ==
  /\ At(c, "stop")
  /\ IF entry[call[c].id] = "none" THEN Return(c) /\ UNCHANGED entry
                                   ELSE SetEntry(call[c].id, "none") /\ Goto(c, "shutdown")
  /\ UNCHANGED <<envdPort, guest, holds, told, disturbed, lost, files>>

(* The machine is killed, whose failure is only logged.  removeHostsEntry reads
   the file, truncates it and writes it anew; its failure is only logged too.
   Then the sandbox's directory is removed. *)
Shutdown(c) ==
  /\ At(c, "shutdown")
  /\ LET id == call[c].id
     IN  \/ SetGuest(id, "none") /\ watched' = watched \ {id} /\ UNCHANGED lost
         \/ guest[id] \in Alive /\ lost' = lost \cup {id} /\ UNCHANGED <<guest, watched>>
  /\ call' = [call EXCEPT ![c].at = "writeHosts", ![c].seen = hosts]
  /\ UNCHANGED <<entry, envdPort, holds, told, disturbed, rootfs, base, hosts, torn, stuck, untidy>>

WriteHosts(c) ==
  /\ At(c, "writeHosts")
  /\ \/ hosts' = {} /\ Goto(c, "rewriteHosts") /\ UNCHANGED <<untidy, rootfs, told>>
     \/ untidy' = TRUE /\ Tell(c, "stopped") /\ Disk(call[c].id, "none") /\ UNCHANGED hosts
  /\ UNCHANGED <<entry, envdPort, guest, holds, disturbed, lost, base, watched, torn, stuck>>

RewriteHostsKeeps(c) ==  \* mutant: the line of the sandbox stays
  /\ At(c, "rewriteHosts")
  /\ hosts' = call[c].seen
  /\ Disk(call[c].id, "none")
  /\ Tell(c, "stopped")
  /\ UNCHANGED <<entry, envdPort, guest, holds, disturbed, lost, base, watched, torn, stuck, untidy>>
RewriteHosts(c) ==
  /\ At(c, "rewriteHosts")
  /\ hosts' = call[c].seen \ {call[c].id}
  /\ Disk(call[c].id, "none")
  /\ Tell(c, "stopped")
  /\ UNCHANGED <<entry, envdPort, guest, holds, disturbed, lost, base, watched, torn, stuck, untidy>>

-----------------------------------------------------------------------------
(* PauseSandbox: the machine is paused, then its snapshot taken; when that
   fails the caller is told that the pause failed and the machine stays paused. *)
PauseVm(c) ==
  /\ At(c, "pause")
  /\ LET id == call[c].id
     IN  \/ Return(c) /\ UNCHANGED <<guest, disturbed>>
         \/ /\ entry[id] # "none" /\ guest[id] = "running"
            /\ SetGuest(id, "paused")
            /\ \/ Goto(c, "snapshot") /\ UNCHANGED disturbed
               \/ ~Live(c) /\ Return(c) /\ disturbed' = disturbed \cup {id}
  /\ UNCHANGED <<entry, envdPort, holds, told, lost, files>>

CreateSnapshot(c) ==
  /\ At(c, "snapshot")
  /\ \/ entry' = Marked(c) /\ UNCHANGED disturbed
     \/ disturbed' = disturbed \cup {call[c].id} /\ UNCHANGED entry
  /\ Return(c)
  /\ UNCHANGED <<envdPort, guest, holds, told, lost, files>>

(* ResumeSandbox: the entry is marked before the machine is asked. *)
ResumeSandbox(c) ==
  /\ At(c, "resume")
  /\ IF entry[call[c].id] = "none" THEN Return(c) /\ UNCHANGED entry
                                   ELSE SetEntry(call[c].id, "running") /\ Goto(c, "resuming")
  /\ UNCHANGED <<envdPort, guest, holds, told, disturbed, lost, files>>

ResumeVm(c) ==
  /\ At(c, "resuming")
  /\ LET id == call[c].id
     IN  \/ guest[id] = "paused" /\ SetGuest(id, "running") /\ UNCHANGED disturbed
         \/ guest[id] = "paused" /\ disturbed' = disturbed \cup {id} /\ UNCHANGED guest
         \/ guest[id] # "paused" /\ UNCHANGED <<guest, disturbed>>
  /\ Return(c)
  /\ UNCHANGED <<entry, envdPort, holds, told, lost, files>>

Status(id) == [state |-> entry[id], port |-> NoPort]

Step(c) == PrepareRootfs(c) \/ SaveBase(c) \/ InjectEnvd(c) \/ StartVm(c)
           \/ Boot(c) \/ StopSandbox(c) \/ Shutdown(c) \/ WriteHosts(c)
           \/ RewriteHosts(c) \/ PauseVm(c) \/ CreateSnapshot(c) \/ ResumeSandbox(c) \/ ResumeVm(c)

(* The context of a creation has ended and takes the machine with it. *)
ContextKills(id) ==
  /\ id \in watched
  /\ ~ \E c \in Calls : call[c].op = "create" /\ call[c].id = id /\ Live(c)
  /\ watched' = watched \ {id}
  /\ SetGuest(id, "dead")
  /\ UNCHANGED <<call, entry, envdPort, holds, told, disturbed, lost, rootfs, base, hosts, torn,
                 stuck, untidy>>
=============================================================================
