---------------------------- MODULE EnvdProcess ----------------------------
(***************************************************************************)
(* The process service of envd, the daemon inside each sandbox             *)
(* (pkg/envd/rpc/process.go): a table of processes, one handler of Start    *)
(* per process with two goroutines that forward its output, and the         *)
(* handlers of Connect that wait for the end of a process another caller    *)
(* started.                                                                  *)
(*                                                                           *)
(* A process is named by the Start request that made it: the daemon's own    *)
(* numbers are fresh for each.  A selector (a number or a tag, which several *)
(* processes may share) is any listed process.  Output is counted in chunks, *)
(* one read each.  Input to a process and PTY sizes are left out.            *)
(***************************************************************************)
EXTENDS Integers, FiniteSets

CONSTANTS
  Starts,      \* the Start requests, each with the process it makes
  Connectors,  \* the Connect requests
  Streams,     \* stdout and stderr
  MaxChunks,   \* bound: chunks a process writes to one of its streams
  NoProcess    \* what a connector follows before it found a process

ASSUME ChunksAssumption == MaxChunks \in Nat
ASSUME CallersAssumption ==
  /\ Starts \cap Connectors = {}
  /\ NoProcess \notin Starts

VARIABLES
  handler,    \* handler[p]: how far the handler of Start is
  process,    \* process[p]: the operating system's process
  wrote,      \* wrote[p][s]: chunks the process wrote
  pipe,       \* pipe[p][s]: chunks written and not read
  reader,     \* reader[p][s]: the goroutine that forwards the stream
  processes,  \* the table, ProcessService.processes
  done,       \* the processes whose Done channel is closed
  follower,   \* follower[c]: how far the handler of Connect is
  followed,   \* followed[c]: the process it found
  here,       \* the callers that have not left
  saw,        \* saw[p]: the last of the start and end events p's caller got
  got,        \* got[p][s]: chunks p's caller got
  cut         \* history: processes whose pipes were closed under their readers

vars == <<handler, process, wrote, pipe, reader, processes, done, follower,
          followed, here, saw, got, cut>>
table == <<processes, done>>
output == <<wrote, pipe, reader>>
followers == <<follower, followed>>
client == <<here, saw, got>>

HandlerStates == {"idle", "spawned", "listed", "waiting", "reaped", "closed",
                  "unlisted", "ended", "failed"}

TypeOK ==
  /\ handler \in [Starts -> HandlerStates]
  /\ process \in [Starts -> {"none", "running", "exited"}]
  /\ wrote \in [Starts -> [Streams -> 0..MaxChunks]]
  /\ pipe \in [Starts -> [Streams -> 0..MaxChunks]]
  /\ reader \in [Starts -> [Streams -> {"none", "reading", "holding", "stopped"}]]
  /\ processes \subseteq Starts
  /\ done \subseteq Starts
  /\ follower \in
       [Connectors -> {"idle", "found", "following", "told", "failed"}]
  /\ followed \in [Connectors -> Starts \cup {NoProcess}]
  /\ here \subseteq Starts \cup Connectors
  /\ saw \in [Starts -> {"nothing", "start", "end"}]
  /\ got \in [Starts -> [Streams -> 0..MaxChunks]]
  /\ cut \subseteq Starts

Silent == [s \in Streams |-> 0]

Init ==
  /\ handler = [p \in Starts |-> "idle"]
  /\ process = [p \in Starts |-> "none"]
  /\ wrote = [p \in Starts |-> Silent]
  /\ pipe = [p \in Starts |-> Silent]
  /\ reader = [p \in Starts |-> [s \in Streams |-> "none"]]
  /\ processes = {}
  /\ done = {}
  /\ follower = [c \in Connectors |-> "idle"]
  /\ followed = [c \in Connectors |-> NoProcess]
  /\ here = Starts \cup Connectors
  /\ saw = [p \in Starts |-> "nothing"]
  /\ got = [p \in Starts |-> Silent]
  /\ cut = {}

Goes(p, from, to) ==
  /\ handler[p] = from
  /\ handler' = [handler EXCEPT ![p] = to]

----------------------------------------------------------------------------
(* The handler of Start.  stream.Send reaches a caller who is there; once   *)
(* the caller has left it fails, or is swallowed by the connection.          *)

\* cmd.Start: the pipes exist and the process runs, or the request fails.
Spawn(p) ==
  /\ p \in here
  /\ \/ /\ Goes(p, "idle", "spawned")
        /\ process' = [process EXCEPT ![p] = "running"]
     \/ /\ Goes(p, "idle", "failed")
        /\ UNCHANGED process
  /\ UNCHANGED <<output, table, followers, client, cut>>

\* The process gets its number and is entered into the table.
Register(p) ==
  /\ Goes(p, "spawned", "listed")
  /\ processes' = processes \cup {p}
  /\ UNCHANGED <<process, output, done, followers, client, cut>>

\* The start event is sent and the two goroutines begin.
SendStart(p) ==
  /\ Goes(p, "listed", "waiting")
  /\ saw' = IF p \in here THEN [saw EXCEPT ![p] = "start"] ELSE saw
  /\ reader' = [reader EXCEPT ![p] = [s \in Streams |-> "reading"]]
  /\ UNCHANGED <<process, wrote, pipe, table, followers, here, got, cut>>

\* The start event cannot be sent and the handler returns at once: nobody waits
\* for the process, closes its Done channel or takes it off the table.
StartNotSent(p) ==
  /\ p \notin here
  /\ Goes(p, "listed", "failed")
  /\ UNCHANGED <<process, output, table, followers, client, cut>>

\* cmd.Wait: it returns when the process has exited and closes the read ends,
\* whatever a goroutine has yet to read from them.
Reap(p) ==
  /\ process[p] = "exited"
  /\ Goes(p, "waiting", "reaped")
  /\ cut' = IF \E s \in Streams : pipe[p][s] > 0 /\ reader[p][s] # "stopped"
            THEN cut \cup {p}
            ELSE cut
  /\ pipe' = [pipe EXCEPT ![p] = Silent]
  /\ UNCHANGED <<process, wrote, reader, table, followers, client>>

CloseDoneEarly(p) ==  \* mutant: it does not wait for the goroutines
  /\ Goes(p, "reaped", "closed")
  /\ done' = done \cup {p}
  /\ UNCHANGED <<process, output, processes, followers, client, cut>>

DoneStaysOpen(p) ==  \* mutant: the channel is not closed
  /\ \A s \in Streams : reader[p][s] = "stopped"
  /\ Goes(p, "reaped", "closed")
  /\ UNCHANGED <<process, output, table, followers, client, cut>>

\* wg.Wait, close(done).
CloseDone(p) ==
  /\ \A s \in Streams : reader[p][s] = "stopped"
  /\ Goes(p, "reaped", "closed")
  /\ done' = done \cup {p}
  /\ UNCHANGED <<process, output, processes, followers, client, cut>>

UnlistNothing(p) ==  \* mutant: the entry is not deleted
  /\ Goes(p, "closed", "unlisted")
  /\ UNCHANGED <<process, output, table, followers, client, cut>>

Unlist(p) ==
  /\ Goes(p, "closed", "unlisted")
  /\ processes' = processes \ {p}
  /\ UNCHANGED <<process, output, done, followers, client, cut>>

SendEndFirst(p) ==  \* mutant: the end event is sent before the entry is deleted
  /\ handler[p] \in {"closed", "unlisted"}
  /\ saw' = IF p \in here THEN [saw EXCEPT ![p] = "end"] ELSE saw
  /\ handler' = [handler EXCEPT ![p] = IF @ = "unlisted" THEN "ended" ELSE @]
  /\ UNCHANGED <<process, output, table, followers, here, got, cut>>

SendEnd(p) ==
  /\ Goes(p, "unlisted", "ended")
  /\ saw' = IF p \in here THEN [saw EXCEPT ![p] = "end"] ELSE saw
  /\ UNCHANGED <<process, output, table, followers, here, got, cut>>

----------------------------------------------------------------------------
(* A goroutine that forwards one stream. *)

Reads(p, s, from, to) ==
  /\ reader[p][s] = from
  /\ reader' = [reader EXCEPT ![p][s] = to]

ReadUntested(p, s) ==  \* mutant: it reads without the test n > 0
  /\ Reads(p, s, "reading", "holding")
  /\ pipe' = [pipe EXCEPT ![p][s] = @ - 1]
  /\ UNCHANGED <<handler, process, wrote, table, followers, client, cut>>

\* After cmd.Wait the pipe is closed and empty.
ReadChunk(p, s) ==
  /\ pipe[p][s] > 0
  /\ Reads(p, s, "reading", "holding")
  /\ pipe' = [pipe EXCEPT ![p][s] = @ - 1]
  /\ UNCHANGED <<handler, process, wrote, table, followers, client, cut>>

ReadStopsAtExit(p, s) ==  \* mutant: it stops when the process has exited
  /\ process[p] = "exited"
  /\ Reads(p, s, "reading", "stopped")
  /\ UNCHANGED <<handler, process, wrote, pipe, table, followers, client, cut>>

\* The end of the file, or an error because cmd.Wait closed it.
ReadEnd(p, s) ==
  /\ process[p] = "exited"
  /\ pipe[p][s] = 0
  /\ Reads(p, s, "reading", "stopped")
  /\ UNCHANGED <<handler, process, wrote, pipe, table, followers, client, cut>>

SendChunk(p, s) ==
  /\ p \in here
  /\ Reads(p, s, "holding", "reading")
  /\ got' = [got EXCEPT ![p][s] = @ + 1]
  /\ UNCHANGED <<handler, process, wrote, pipe, table, followers, here, saw, cut>>

ChunkNotSent(p, s) ==
  /\ p \notin here
  /\ \E to \in {"reading", "stopped"} : Reads(p, s, "holding", to)
  /\ UNCHANGED <<handler, process, wrote, pipe, table, followers, client, cut>>

----------------------------------------------------------------------------
(* The handler of Connect. *)

\* It looks the process up under the read lock.
Connect(c) ==
  /\ follower[c] = "idle"
  /\ c \in here
  /\ \/ \E p \in processes :
          /\ follower' = [follower EXCEPT ![c] = "found"]
          /\ followed' = [followed EXCEPT ![c] = p]
     \/ /\ follower' = [follower EXCEPT ![c] = "failed"]
        /\ UNCHANGED followed
  /\ UNCHANGED <<handler, process, output, table, client, cut>>

\* It sends its start event, or returns when that fails.
Greet(c) ==
  /\ follower[c] = "found"
  /\ \E to \in {"following"} \cup (IF c \in here THEN {} ELSE {"failed"}) :
       follower' = [follower EXCEPT ![c] = to]
  /\ UNCHANGED <<handler, process, output, table, followed, client, cut>>

\* It waits for Done and for nothing else, then sends its end event.
Tell(c) ==
  /\ follower[c] = "following"
  /\ followed[c] \in done
  /\ follower' = [follower EXCEPT ![c] = IF c \in here THEN "told" ELSE "failed"]
  /\ UNCHANGED <<handler, process, output, table, followed, client, cut>>

----------------------------------------------------------------------------
(* The process, signals and the callers. *)

Write(p, s) ==
  /\ process[p] = "running"
  /\ wrote[p][s] < MaxChunks
  /\ wrote' = [wrote EXCEPT ![p][s] = @ + 1]
  /\ pipe' = [pipe EXCEPT ![p][s] = @ + 1]
  /\ UNCHANGED <<handler, process, reader, table, followers, client, cut>>

Dies(p) ==
  /\ process[p] = "running"
  /\ process' = [process EXCEPT ![p] = "exited"]
  /\ UNCHANGED <<handler, output, table, followers, client, cut>>

\* By itself.
Exit(p) == Dies(p)

\* SendSignal: the process was listed when the signal's handler looked it up.
SendSignal(p) ==
  /\ p \in processes
  /\ Dies(p)

KillNobody(p) ==  \* mutant: exec.Command, which knows no context
  FALSE /\ Dies(p)

\* exec.CommandContext kills the process when the request's context ends.
Kill(p) ==
  /\ p \notin here
  /\ Dies(p)

Leave(x) ==
  /\ x \in here
  /\ here' = here \ {x}
  /\ UNCHANGED <<handler, process, output, table, followers, saw, got, cut>>

----------------------------------------------------------------------------
Handle(p) ==
  \/ Spawn(p) \/ Register(p) \/ SendStart(p) \/ StartNotSent(p) \/ Reap(p)
  \/ CloseDone(p) \/ Unlist(p) \/ SendEnd(p)

Pump(p, s) ==
  ReadChunk(p, s) \/ ReadEnd(p, s) \/ SendChunk(p, s) \/ ChunkNotSent(p, s)

Follow(c) == Connect(c) \/ Greet(c) \/ Tell(c)

Next ==
  \/ \E p \in Starts : Handle(p) \/ Exit(p) \/ SendSignal(p) \/ Kill(p)
  \/ \E p \in Starts, s \in Streams : Pump(p, s) \/ Write(p, s)
  \/ \E c \in Connectors : Follow(c)
  \/ \E x \in Starts \cup Connectors : Leave(x)

(* Goroutines are scheduled, callers take what is sent to them, and a kill  *)
(* reaches its process.  No process ever has to exit by itself, write, or be *)
(* signalled, and no caller has to come or leave.                            *)
Fairness ==
  /\ \A p \in Starts : WF_vars(handler[p] # "idle" /\ Handle(p)) /\ WF_vars(Kill(p))
  /\ \A p \in Starts, s \in Streams : WF_vars(Pump(p, s))
  /\ \A c \in Connectors : WF_vars(follower[c] # "idle" /\ Follow(c))

Spec == Init /\ [][Next]_vars
FairSpec == Spec /\ Fairness
----------------------------------------------------------------------------
(* What the service is for. *)

Serving == {"listed", "waiting", "reaped", "closed"}

\* A Start whose caller left before its start event was sent: nobody will take
\* its entry off the table.
LeftBehind(p) == handler[p] = "failed" /\ process[p] # "none"

\* The table holds a process from where its handler enters it to where it takes
\* it off: no entry outlives its handler, but for a Start that left it behind, and
\* no caller who was ever told of that process, or is still there to be told, is
\* left with it (process.go, Start and its cleanup).
ListedIsServed ==
  \A p \in Starts :
    /\ handler[p] \in Serving => p \in processes
    /\ p \in processes => handler[p] \in Serving \/ LeftBehind(p)
    /\ LeftBehind(p) => p \notin here /\ saw[p] = "nothing" /\ p \notin done

\* Who gets an end event, from Start or from Connect, is told the truth: the
\* process has exited, its output is no longer on its way, and a List after the
\* end event of Start does not show it.
EndMeansEnd ==
  /\ \A p \in Starts :
       saw[p] = "end" =>
         /\ process[p] = "exited"
         /\ p \notin processes
         /\ \A s \in Streams : reader[p][s] = "stopped"
  /\ \A c \in Connectors :
       follower[c] = "told" =>
         /\ process[followed[c]] = "exited"
         /\ \A s \in Streams : reader[followed[c]][s] = "stopped"

\* A caller who stays gets everything the process wrote before its end event,
\* unless cmd.Wait closed the pipes before the goroutines had emptied them.
OutputArrives ==
  \A p \in Starts : saw[p] = "end" /\ p \notin cut => got[p] = wrote[p]

\* What a caller gets is in order: output after the start event, and nothing
\* after the end event, not a second end either.
InOrder ==
  \A p \in Starts :
    /\ got'[p] # got[p] => saw[p] = "start"
    /\ saw[p] = "start" => saw'[p] # "nothing"
    /\ saw[p] = "end" => saw'[p] = "end"

EventsInOrder == [][InOrder]_<<saw, got>>

\* Who follows a process is answered once it has exited, whatever the caller of
\* its Start does, unless the process was left behind.
FollowersAreTold ==
  \A c \in Connectors, p \in Starts :
    followed[c] = p /\ process[p] = "exited" ~>
      followed[c] = p /\ (follower[c] \in {"told", "failed"} \/ LeftBehind(p))

\* A caller who leaves does not leave a process behind him in the table, unless
\* he left before the start event.
AbandonedIsCleared ==
  \A p \in Starts :
    p \notin here /\ p \in processes ~> p \notin processes \/ LeftBehind(p)
=============================================================================
