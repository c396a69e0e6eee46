---------------------------- MODULE BuildService ----------------------------
(***************************************************************************)
(* Template builds: the handler that starts one (internal/api/template.go) *)
(* and the service that runs it (internal/templatebuild/service.go), with  *)
(* a bounded queue and a pool of workers, each of which runs the build in  *)
(* a docker container, commits the container as the template's image and   *)
(* writes the outcome to the database.                                     *)
(*                                                                         *)
(* The handler checks a build's row and claims it in two statements; the   *)
(* service is called from a goroutine that outlives the request.  Rows,    *)
(* containers and images survive the server, queue and workers do not.     *)
(* Every template has one build, made with it, by which it is named here.  *)
(* A request names a template and a build, and nobody compares them.       *)
(***************************************************************************)
EXTENDS Naturals, Sequences, FiniteSets

CONSTANTS
  Builds,       \* builds, and the templates they were made with
  Base,         \* the build of the template that the server builds when it starts
  Endless,      \* builds with a step or a start command that may not return
  Fallible,     \* bound: builds with statements, steps and docker commands that may fail
  Starters,     \* goroutines that start builds
  Workers,      \* Service.workers
  QueueCap,     \* capacity of Service.workQueue
  MaxDeleted,   \* bound: templates deleted
  MaxRestarts   \* bound: restarts of the server

ASSUME BuildsAssumption == Base \in Builds /\ Endless \subseteq Builds /\ Fallible \subseteq Builds
ASSUME BoundsAssumption == QueueCap \in Nat \ {0} /\ MaxDeleted \in Nat /\ MaxRestarts \in Nat

VARIABLES
  server,      \* "down", "up", or "failed": main has exited with an error
  row,         \* status of the build in the database
  templateRow, \* status of the template in the database
  builtBy,     \* Template.BuildID: the build that the template is started from
  start,       \* what each starter is about to do
  workQueue,
  work,        \* what each worker is about to do
  container,   \* builds whose container ("build-" and the identifier) exists
  image,       \* images committed, by template and build
  restarts,
  disrupted,   \* history: builds hit by a restart or by an error of the database
  raced,       \* history: builds that two requests were starting together
  filed        \* history: under which templates each build has been started

templateVars == <<templateRow, builtBy>>
databaseVars == <<row, templateVars>>
dockerVars == <<container, image>>
vars == <<server, databaseVars, start, workQueue, work, dockerVars, restarts, disrupted, raced,
          filed>>

-----------------------------------------------------------------------------
Idle == [at |-> "idle"]
Statuses == {"waiting", "building", "ready", "error"}
Final == {"ready", "error"}

Jobs == [id: Builds, of: Builds]
StartPlaces == {"claim", "admit", "mark", "enqueue", "reject"}
(* "own": the worker has started the container and will remove it. *)
WorkPlaces == {"run", "steps", "hung", "commit", "markReady", "publish", "markError", "blame", "cleanup"}

Starting(b) == \E r \in Starters : start[r] # Idle /\ start[r].id = b
Queued(b) == \E i \in DOMAIN workQueue : workQueue[i].id = b
Working(b) == \E w \in Workers : work[w] # Idle /\ work[w].id = b

(* A write to a row that was deleted has no effect.  The statement may also
   fail: then the build is left as it is. *)
Write(table, b, status) == IF table[b] = "deleted" THEN table ELSE [table EXCEPT ![b] = status]

UpdateBuild(b, status) == \/ row' = Write(row, b, status) /\ UNCHANGED disrupted
                          \/ b \in Fallible /\ disrupted' = disrupted \cup {b} /\ UNCHANGED row

UpdateTemplate(t, status, b) ==
  IF templateRow[t] = "deleted" THEN UNCHANGED templateVars
  ELSE templateRow' = [templateRow EXCEPT ![t] = status] /\ builtBy' = [builtBy EXCEPT ![t] = b]

-----------------------------------------------------------------------------
(* POST /v3/templates and DELETE /templates/{id}. *)

CreateTemplate(b) ==
  /\ server = "up"
  /\ row[b] = "absent" /\ templateRow[b] = "absent"
  /\ row' = [row EXCEPT ![b] = "waiting"]
  /\ templateRow' = [templateRow EXCEPT ![b] = "waiting"]
  /\ UNCHANGED <<server, builtBy, start, workQueue, work, dockerVars, restarts, disrupted, raced,
                 filed>>

(* The schema has the template's builds go with it; the in-memory store keeps
   them. *)
DeleteTemplate(t) ==
  /\ server = "up"
  /\ templateRow[t] \in Statuses
  /\ Cardinality({u \in Builds : templateRow[u] = "deleted"}) < MaxDeleted
  /\ templateRow' = [templateRow EXCEPT ![t] = "deleted"]
  /\ row' = [row EXCEPT ![t] = "deleted"] \/ UNCHANGED row
  /\ UNCHANGED <<server, builtBy, start, workQueue, work, dockerVars, restarts, disrupted, raced,
                 filed>>

-----------------------------------------------------------------------------
(* Starting a build. *)

StartAt(r, at) == start[r].at = at
StartGoto(r, at) == start' = [start EXCEPT ![r].at = at]
StartEnds(r) == start' = [start EXCEPT ![r] = Idle]
Job(r) == [id |-> start[r].id, of |-> start[r].of]
StartUnchanged == UNCHANGED <<server, templateVars, work, dockerVars, restarts>>

StartBuildV2Unchecked(r, b, t) ==  \* mutant: the row's status is not looked at
  /\ server = "up"
  /\ start[r] = Idle
  /\ templateRow[t] \in Statuses
  /\ row[b] \in Statuses
  /\ start' = [start EXCEPT ![r] = [at |-> "claim", id |-> b, of |-> t]]
  /\ filed' = filed \cup {<<b, t>>}
  /\ UNCHANGED <<row, workQueue, disrupted, raced>>
  /\ StartUnchanged
(* POST /v2/templates/{id}/builds/{id}: 404 without the template or the build,
   409 unless the build's row says waiting. *)
StartBuildV2(r, b, t) ==
  /\ server = "up"
  /\ start[r] = Idle
  /\ templateRow[t] \in Statuses
  /\ row[b] = "waiting"
  /\ start' = [start EXCEPT ![r] = [at |-> "claim", id |-> b, of |-> t]]
  /\ filed' = filed \cup {<<b, t>>}
  /\ raced' = IF Starting(b) THEN raced \cup {b} ELSE raced
  /\ UNCHANGED <<row, workQueue, disrupted>>
  /\ StartUnchanged

(* The row becomes building, the caller gets its 202 and StartBuild runs in a
   goroutine; when the statement fails, a 500 and nothing else. *)
Claim(r) ==
  /\ StartAt(r, "claim")
  /\ \/ row' = Write(row, start[r].id, "building") /\ StartGoto(r, "admit")
     \/ start[r].id \in Fallible /\ UNCHANGED row /\ StartEnds(r)
  /\ UNCHANGED <<workQueue, disrupted, raced, filed>>
  /\ StartUnchanged

(* StartBuild: both rows must be there, the build waiting or building.  What it
   refuses is logged, and the build's row stays as it is. *)
Admitted(b, t) == templateRow[t] \in Statuses /\ row[b] \in {"waiting", "building"}
Admit(r) ==
  /\ StartAt(r, "admit")
  /\ LET b == start[r].id
     IN  \/ Admitted(b, start[r].of) /\ StartGoto(r, "mark") /\ UNCHANGED disrupted
         \/ ~Admitted(b, start[r].of) /\ StartEnds(r) /\ UNCHANGED disrupted
         \/ b \in Fallible /\ disrupted' = disrupted \cup {b} /\ StartEnds(r)
  /\ UNCHANGED <<row, workQueue, raced, filed>>
  /\ StartUnchanged

MarkBuilding(r) ==
  /\ StartAt(r, "mark")
  /\ LET b == start[r].id
     IN  \/ row' = Write(row, b, "building") /\ StartGoto(r, "enqueue") /\ UNCHANGED disrupted
         \/ b \in Fallible /\ disrupted' = disrupted \cup {b} /\ StartEnds(r) /\ UNCHANGED row
  /\ UNCHANGED <<workQueue, raced, filed>>
  /\ StartUnchanged

EnqueueOneMore(r) ==  \* mutant: an off-by-one at the queue's capacity
  /\ StartAt(r, "enqueue")
  /\ IF Len(workQueue) <= QueueCap
     THEN workQueue' = Append(workQueue, Job(r)) /\ StartEnds(r)
     ELSE StartGoto(r, "reject") /\ UNCHANGED workQueue
  /\ UNCHANGED <<row, disrupted, raced, filed>>
  /\ StartUnchanged
(* A send that does not block. *)
Enqueue(r) ==
  /\ StartAt(r, "enqueue")
  /\ IF Len(workQueue) < QueueCap
     THEN workQueue' = Append(workQueue, Job(r)) /\ StartEnds(r)
     ELSE StartGoto(r, "reject") /\ UNCHANGED workQueue
  /\ UNCHANGED <<row, disrupted, raced, filed>>
  /\ StartUnchanged

RejectSilently(r) ==  \* mutant: the row keeps its status
  /\ StartAt(r, "reject")
  /\ StartEnds(r)
  /\ UNCHANGED <<row, workQueue, disrupted, raced, filed>>
  /\ StartUnchanged
(* The queue was full. *)
Reject(r) ==
  /\ StartAt(r, "reject")
  /\ UpdateBuild(start[r].id, "error")
  /\ StartEnds(r)
  /\ UNCHANGED <<workQueue, raced, filed>>
  /\ StartUnchanged

StartStep(r) == Claim(r) \/ Admit(r) \/ MarkBuilding(r) \/ Enqueue(r) \/ Reject(r)

-----------------------------------------------------------------------------
(* processBuild *)

WorkAt(w, at) == work[w].at = at
WorkGoto(w, at) == work' = [work EXCEPT ![w].at = at]
WorkUnchanged == UNCHANGED <<server, start, restarts, raced, filed>>

Take(w) ==
  /\ work[w] = Idle
  /\ workQueue # <<>>
  /\ work' = [work EXCEPT ![w] = [at |-> "run", id |-> Head(workQueue).id,
                                  of |-> Head(workQueue).of, own |-> FALSE]]
  /\ workQueue' = Tail(workQueue)
  /\ UNCHANGED <<databaseVars, dockerVars, disrupted>>
  /\ WorkUnchanged

RunContainerAlone(w) ==  \* mutant: builds take turns under a lock
  /\ WorkAt(w, "run")
  /\ {v \in Workers : work[v] # Idle /\ work[v].own} = {}
  /\ \/ /\ container' = container \cup {work[w].id}
        /\ work' = [work EXCEPT ![w].at = "steps", ![w].own = TRUE]
     \/ /\ work[w].id \in Fallible
        /\ UNCHANGED container
        /\ WorkGoto(w, "markError")
  /\ UNCHANGED <<databaseVars, workQueue, image, disrupted>>
  /\ WorkUnchanged
RunContainerDefersFirst(w) ==  \* mutant: the removal is deferred before the run
  /\ WorkAt(w, "run")
  /\ LET b == work[w].id
     IN  \/ /\ b \notin container
            /\ container' = container \cup {b}
            /\ work' = [work EXCEPT ![w].at = "steps", ![w].own = TRUE]
         \/ /\ b \in container \cup Fallible
            /\ UNCHANGED container
            /\ work' = [work EXCEPT ![w].at = "markError", ![w].own = TRUE]
  /\ UNCHANGED <<databaseVars, workQueue, image, disrupted>>
  /\ WorkUnchanged
(* docker run: an error if the name is taken, or for reasons of its own; then
   the container may have been created all the same. *)
RunContainer(w) ==
  /\ WorkAt(w, "run")
  /\ LET b == work[w].id
     IN  \/ /\ b \notin container
            /\ container' = container \cup {b}
            /\ work' = [work EXCEPT ![w].at = "steps", ![w].own = TRUE]
         \/ /\ b \in container \cup Fallible
            /\ container' = container \/ container' = container \cup {b}
            /\ WorkGoto(w, "markError")
  /\ UNCHANGED <<databaseVars, workQueue, image, disrupted>>
  /\ WorkUnchanged

(* The steps and the start command, with no time limit. *)
ExecuteSteps(w) ==
  /\ WorkAt(w, "steps")
  /\ \/ WorkGoto(w, "commit")
     \/ work[w].id \in Fallible /\ WorkGoto(w, "markError")
     \/ work[w].id \in Endless /\ WorkGoto(w, "hung")
  /\ UNCHANGED <<databaseVars, workQueue, dockerVars, disrupted>>
  /\ WorkUnchanged

CommitGoesOn(w) ==  \* mutant: an error of docker commit is a warning
  /\ WorkAt(w, "commit")
  /\ image' = image \/ image' = image \cup {<<work[w].of, work[w].id>>}
  /\ WorkGoto(w, "markReady")
  /\ UNCHANGED <<databaseVars, workQueue, container, disrupted>>
  /\ WorkUnchanged
(* docker commit, to an image named by the request's template and the build;
   the exports that follow only log their errors. *)
Commit(w) ==
  /\ WorkAt(w, "commit")
  /\ \/ image' = image \cup {<<work[w].of, work[w].id>>} /\ WorkGoto(w, "markReady")
     \/ work[w].id \in Fallible /\ UNCHANGED image /\ WorkGoto(w, "markError")
  /\ UNCHANGED <<databaseVars, workQueue, container, disrupted>>
  /\ WorkUnchanged

(* The outcome goes to the build's row, then to the row of the template that the
   request named; the errors of the database are ignored. *)
MarkReady(w) ==
  /\ WorkAt(w, "markReady")
  /\ UpdateBuild(work[w].id, "ready")
  /\ WorkGoto(w, "publish")
  /\ UNCHANGED <<templateVars, workQueue, dockerVars>>
  /\ WorkUnchanged

Publish(w) ==
  /\ WorkAt(w, "publish")
  /\ \/ UpdateTemplate(work[w].of, "ready", work[w].id)
     \/ work[w].id \in Fallible /\ UNCHANGED templateVars
  /\ WorkGoto(w, "cleanup")
  /\ UNCHANGED <<row, workQueue, dockerVars, disrupted>>
  /\ WorkUnchanged

(* failBuild *)
MarkError(w) ==
  /\ WorkAt(w, "markError")
  /\ UpdateBuild(work[w].id, "error")
  /\ WorkGoto(w, "blame")
  /\ UNCHANGED <<templateVars, workQueue, dockerVars>>
  /\ WorkUnchanged

Blame(w) ==
  /\ WorkAt(w, "blame")
  /\ \/ UpdateTemplate(work[w].of, "error", builtBy[work[w].of])
     \/ work[w].id \in Fallible /\ UNCHANGED templateVars
  /\ IF work[w].own THEN WorkGoto(w, "cleanup") ELSE work' = [work EXCEPT ![w] = Idle]
  /\ UNCHANGED <<row, workQueue, dockerVars, disrupted>>
  /\ WorkUnchanged

(* The deferred docker rm -f, whose error is ignored. *)
Cleanup(w) ==
  /\ WorkAt(w, "cleanup")
  /\ \/ container' = container \ {work[w].id}
     \/ work[w].id \in Fallible /\ UNCHANGED container
  /\ work' = [work EXCEPT ![w] = Idle]
  /\ UNCHANGED <<databaseVars, workQueue, image, disrupted>>
  /\ WorkUnchanged

WorkStep(w) == \/ Take(w) \/ RunContainer(w) \/ ExecuteSteps(w) \/ Commit(w)
               \/ MarkReady(w) \/ Publish(w) \/ MarkError(w) \/ Blame(w) \/ Cleanup(w)

-----------------------------------------------------------------------------
(* main starts the build of the base template before it serves requests, by
   StartBuild itself, and exits when that fails.  (One whose base template was
   deleted seeds another, which is not followed here.) *)
Boot ==
  /\ server = "down"
  /\ templateRow[Base] \in Statuses
  /\ LET b == builtBy[Base]
     IN  IF row[b] \in {"waiting", "building"}
         THEN /\ row' = [row EXCEPT ![b] = "building"]
              /\ workQueue' = <<[id |-> b, of |-> Base]>>
              /\ filed' = filed \cup {<<b, Base>>}
              /\ server' = "up"
         ELSE /\ server' = "failed"
              /\ UNCHANGED <<row, workQueue, filed>>
  /\ UNCHANGED <<templateVars, start, work, dockerVars, restarts, disrupted, raced>>

(* The server ends, at any point; nothing waits for the workers. *)
Restart ==
  /\ server = "up"
  /\ restarts < MaxRestarts
  /\ restarts' = restarts + 1
  /\ server' = "down"
  /\ start' = [r \in Starters |-> Idle]
  /\ workQueue' = <<>>
  /\ work' = [w \in Workers |-> Idle]
  /\ disrupted' = disrupted \cup {b \in Builds : Starting(b) \/ Queued(b) \/ Working(b)}
  /\ UNCHANGED <<databaseVars, dockerVars, raced, filed>>

(* The base template has been seeded by the first start. *)
Init ==
  /\ server = "down"
  /\ row = [b \in Builds |-> IF b = Base THEN "waiting" ELSE "absent"]
  /\ templateRow = row
  /\ builtBy = [t \in Builds |-> t]
  /\ start = [r \in Starters |-> Idle]
  /\ workQueue = <<>>
  /\ work = [w \in Workers |-> Idle]
  /\ container = {}
  /\ image = {}
  /\ restarts = 0
  /\ disrupted = {}
  /\ raced = {}
  /\ filed = {}

Next == \/ Boot
        \/ Restart
        \/ \E b \in Builds : CreateTemplate(b) \/ DeleteTemplate(b)
        \/ \E r \in Starters : StartStep(r) \/ \E b, t \in Builds : StartBuildV2(r, b, t)
        \/ \E w \in Workers : WorkStep(w)

Spec == Init /\ [][Next]_vars

(* Goroutines run, and statements and docker commands end, but for the start
   commands that hang. *)
Fairness == /\ \A r \in Starters : WF_vars(StartStep(r))
            /\ \A w \in Workers : WF_vars(WorkStep(w))

FairSpec == Spec /\ Fairness

-----------------------------------------------------------------------------
(* Properties. *)

TypeOK ==
  /\ server \in {"down", "up", "failed"}
  /\ row \in [Builds -> Statuses \cup {"absent", "deleted"}]
  /\ templateRow \in [Builds -> Statuses \cup {"absent", "deleted"}]
  /\ builtBy \in [Builds -> Builds]
  /\ start \in [Starters -> {Idle} \cup [at: StartPlaces, id: Builds, of: Builds]]
  /\ workQueue \in Seq(Jobs) /\ Len(workQueue) <= QueueCap
  /\ work \in [Workers -> {Idle} \cup [at: WorkPlaces, id: Builds, of: Builds, own: BOOLEAN]]
  /\ container \subseteq Builds
  /\ image \subseteq Builds \X Builds
  /\ restarts \in 0 .. MaxRestarts
  /\ disrupted \subseteq Builds
  /\ raced \subseteq Builds
  /\ filed \subseteq Builds \X Builds

(* A template under which the build has been started was deleted. *)
TemplateGone(b) == \E t \in Builds : <<b, t>> \in filed /\ templateRow[t] = "deleted"

(* A build whose row says building is on its way: some goroutine is starting
   it, it is in the queue, or a worker has it.  Besides an error of the database
   and a restart, only the deletion of the template under whose path it was
   started, its own or another, leaves a row building with nobody to change it. *)
NoneForgotten ==
  \A b \in Builds \ disrupted :
    row[b] = "building" => Starting(b) \/ Queued(b) \/ Working(b) \/ TemplateGone(b)

Inside(w) == work[w] # Idle /\ work[w].own

(* The container in which a worker builds is there until that worker removes
   it, and is no other worker's, also when a build is queued twice. *)
ContainersAreOwned ==
  \A w \in Workers : Inside(w) =>
    /\ work[w].id \in container
    /\ \A v \in Workers \ {w} : Inside(v) => work[v].id # work[w].id

(* What is listed as ready has an image to start from, whatever later runs of
   the same build, and builds started under another template's path, come to:
   a template the image of the build it is started from, under its own name; a
   build an image under a template it was started under, which is its own unless
   a request named another. *)
ReadyHasImage ==
  /\ \A t \in Builds : templateRow[t] = "ready" => <<t, builtBy[t]>> \in image
  /\ \A b \in Builds : row[b] = "ready" =>
       \E t \in Builds : <<b, t>> \in filed /\ <<t, b>> \in image

(* A build runs once: its outcome stays, unless two requests started it
   together. *)
OutcomeStays ==
  [][\A b \in Builds \ raced : row[b] \in Final => row'[b] \in {row[b], "deleted"}]_vars

(* With fewer builds that may hang than workers, every other build comes to an
   end, however often those are started, unless the template it was started under
   is deleted. *)
BuildsEnd ==
  \A b \in Builds \ Endless :
    row[b] = "building" ~> (row[b] # "building" \/ b \in disrupted \/ TemplateGone(b))

(* cmd/api/main.go, "Default 'base' template already exists": a server that
   finds the templates of an earlier one in its database starts. *)
ServerComesBack == server # "failed"
=============================================================================
