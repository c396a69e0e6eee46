----------------------------- MODULE BuildProofs -----------------------------
(***************************************************************************)
(* Theorems about template builds, for any number of builds, goroutines    *)
(* and workers and any capacity of the queue.                              *)
(***************************************************************************)
EXTENDS BuildService, FiniteSetTheorems, TLAPS

(* A goroutine that has a place is not idle, and is on a build. *)
LEMMA StarterIsOnBuild ==
  ASSUME TypeOK, NEW r \in Starters, NEW at \in StartPlaces, StartAt(r, at)
  PROVE  start[r] \in [at: StartPlaces, id: Builds, of: Builds] /\ start[r] # Idle
BY DEF TypeOK, StartAt, StartPlaces, Idle

LEMMA WorkerIsOnBuild ==
  ASSUME TypeOK, NEW w \in Workers, NEW at \in WorkPlaces, WorkAt(w, at)
  PROVE  work[w] \in [at: WorkPlaces, id: Builds, of: Builds, own: BOOLEAN] /\ work[w] # Idle
BY DEF TypeOK, WorkAt, WorkPlaces, Idle

LEMMA WriteIsTable ==
  ASSUME NEW table \in [Builds -> Statuses \cup {"absent", "deleted"}],
         NEW b \in Builds, NEW status \in Statuses
  PROVE  Write(table, b, status) \in [Builds -> Statuses \cup {"absent", "deleted"}]
BY DEF Write

-----------------------------------------------------------------------------
LEMMA TypeInit == Init => TypeOK
BY BuildsAssumption, BoundsAssumption DEF Init, TypeOK, Statuses

(* A goroutine's step keeps the types. *)
LEMMA StartTypes ==
  ASSUME TypeOK, NEW r \in Starters, StartStep(r)
  PROVE  TypeOK'
<1> USE DEF StartUnchanged, templateVars, dockerVars
<1>1. CASE Claim(r)
  <2>1. start[r] \in [at: StartPlaces, id: Builds, of: Builds]
    BY <1>1, StarterIsOnBuild DEF Claim, StartPlaces
  <2>2. Write(row, start[r].id, "building") \in [Builds -> Statuses \cup {"absent", "deleted"}]
    BY <2>1, WriteIsTable DEF TypeOK, Statuses
  <2>3. start' \in [Starters -> {Idle} \cup [at: StartPlaces, id: Builds, of: Builds]]
    BY <1>1, <2>1 DEF Claim, StartGoto, StartEnds, TypeOK, StartPlaces
  <2>4. row' \in [Builds -> Statuses \cup {"absent", "deleted"}]
    BY <1>1, <2>2 DEF Claim, TypeOK
  <2>. QED
    BY <1>1, <2>3, <2>4 DEF Claim, TypeOK
<1>2. CASE Admit(r)
  <2>1. start[r] \in [at: StartPlaces, id: Builds, of: Builds]
    BY <1>2, StarterIsOnBuild DEF Admit, StartPlaces
  <2>. QED
    BY <1>2, <2>1 DEF Admit, StartGoto, StartEnds, TypeOK, StartPlaces
<1>3. CASE MarkBuilding(r)
  <2>1. start[r] \in [at: StartPlaces, id: Builds, of: Builds]
    BY <1>3, StarterIsOnBuild DEF MarkBuilding, StartPlaces
  <2>2. Write(row, start[r].id, "building") \in [Builds -> Statuses \cup {"absent", "deleted"}]
    BY <2>1, WriteIsTable DEF TypeOK, Statuses
  <2>. QED
    BY <1>3, <2>1, <2>2 DEF MarkBuilding, StartGoto, StartEnds, TypeOK, StartPlaces
<1>4. CASE Enqueue(r)
  <2>1. start[r] \in [at: StartPlaces, id: Builds, of: Builds]
    BY <1>4, StarterIsOnBuild DEF Enqueue, StartPlaces
  <2>2. CASE Len(workQueue) < QueueCap
    <3>1. QueueCap \in Nat /\ Job(r) \in Jobs /\ workQueue \in Seq(Jobs)
      BY <2>1, BoundsAssumption DEF TypeOK, Job, Jobs
    <3>2. /\ Append(workQueue, Job(r)) \in Seq(Jobs)
          /\ Len(Append(workQueue, Job(r))) = Len(workQueue) + 1
      BY <3>1
    <3>3. workQueue' \in Seq(Jobs) /\ Len(workQueue') <= QueueCap
      BY <1>4, <2>2, <3>1, <3>2 DEF Enqueue
    <3>. QED
      BY <1>4, <2>1, <3>3 DEF Enqueue, StartGoto, StartEnds, TypeOK, StartPlaces
  <2>3. CASE ~(Len(workQueue) < QueueCap)
    BY <1>4, <2>1, <2>3 DEF Enqueue, StartGoto, TypeOK, StartPlaces
  <2>. QED
    BY <2>2, <2>3
<1>5. CASE Reject(r)
  <2>1. start[r] \in [at: StartPlaces, id: Builds, of: Builds]
    BY <1>5, StarterIsOnBuild DEF Reject, StartPlaces
  <2>2. Write(row, start[r].id, "error") \in [Builds -> Statuses \cup {"absent", "deleted"}]
    BY <2>1, WriteIsTable DEF TypeOK, Statuses
  <2>. QED
    BY <1>5, <2>1, <2>2 DEF Reject, UpdateBuild, StartEnds, TypeOK, StartPlaces
<1>. QED
  BY <1>1, <1>2, <1>3, <1>4, <1>5 DEF StartStep

(* A worker's step keeps the types. *)
LEMMA WorkTypes ==
  ASSUME TypeOK, NEW w \in Workers, WorkStep(w)
  PROVE  TypeOK'
<1> USE DEF WorkUnchanged, databaseVars, templateVars, dockerVars
<1>1. CASE Take(w)
  <2>0. Head(workQueue) \in Jobs
    BY <1>1 DEF Take, TypeOK
  <2>1. Head(workQueue).id \in Builds /\ Head(workQueue).of \in Builds
    BY <2>0 DEF Jobs
  <2>2. Tail(workQueue) \in Seq(Jobs) /\ Len(Tail(workQueue)) <= QueueCap
    BY <1>1, BoundsAssumption DEF Take, TypeOK
  <2>. QED
    BY <1>1, <2>1, <2>2 DEF Take, TypeOK, WorkPlaces
<1>2. CASE ~Take(w)
  <2>1. work[w] \in [at: WorkPlaces, id: Builds, of: Builds, own: BOOLEAN]
    BY <1>2, WorkerIsOnBuild
       DEF WorkStep, RunContainer, ExecuteSteps, Commit, MarkReady, Publish, MarkError,
           Blame, Cleanup, WorkPlaces
  <2>2. /\ Write(row, work[w].id, "ready") \in [Builds -> Statuses \cup {"absent", "deleted"}]
        /\ Write(row, work[w].id, "error") \in [Builds -> Statuses \cup {"absent", "deleted"}]
    BY <2>1, WriteIsTable DEF TypeOK, Statuses
  <2>3. CASE RunContainer(w)
    BY <2>1, <2>3 DEF RunContainer, WorkGoto, TypeOK, WorkPlaces
  <2>4. CASE ExecuteSteps(w)
    BY <2>1, <2>4 DEF ExecuteSteps, WorkGoto, TypeOK, WorkPlaces
  <2>5. CASE Commit(w)
    BY <2>1, <2>5 DEF Commit, WorkGoto, TypeOK, WorkPlaces
  <2>6. CASE MarkReady(w)
    BY <2>1, <2>2, <2>6 DEF MarkReady, UpdateBuild, WorkGoto, TypeOK, WorkPlaces
  <2>7. CASE Publish(w)
    BY <2>1, <2>7 DEF Publish, UpdateTemplate, WorkGoto, TypeOK, WorkPlaces, Statuses
  <2>8. CASE MarkError(w)
    BY <2>1, <2>2, <2>8 DEF MarkError, UpdateBuild, WorkGoto, TypeOK, WorkPlaces
  <2>9. CASE Blame(w)
    BY <2>1, <2>9 DEF Blame, UpdateTemplate, WorkGoto, TypeOK, WorkPlaces, Statuses
  <2>10. CASE Cleanup(w)
    BY <2>1, <2>10 DEF Cleanup, TypeOK, WorkPlaces
  <2>. QED
    BY <1>2, <2>3, <2>4, <2>5, <2>6, <2>7, <2>8, <2>9, <2>10 DEF WorkStep
<1>. QED
  BY <1>1, <1>2

LEMMA TypeStep == TypeOK /\ [Next]_vars => TypeOK'
<1> SUFFICES ASSUME TypeOK, [Next]_vars PROVE TypeOK'
  OBVIOUS
<1> USE DEF databaseVars, templateVars, dockerVars
<1>1. CASE Boot
  <2>. DEFINE job == [id |-> builtBy[Base], of |-> Base]
  <2>0. job \in Jobs
    BY BuildsAssumption DEF TypeOK, Jobs
  <2> HIDE DEF job
  <2>1. /\ Base \in Builds /\ builtBy[Base] \in Builds
        /\ <<job>> \in Seq(Jobs) /\ Len(<<job>>) = 1 /\ 1 <= QueueCap
    BY <2>0, BuildsAssumption, BoundsAssumption DEF TypeOK
  <2>2. CASE row[builtBy[Base]] \in {"waiting", "building"}
    <3>1. workQueue' = <<job>>
      BY <1>1, <2>2 DEF Boot, job
    <3>. QED
      BY <1>1, <2>1, <2>2, <3>1 DEF Boot, TypeOK, Statuses
  <2>3. CASE row[builtBy[Base]] \notin {"waiting", "building"}
    BY <1>1, <2>3 DEF Boot, TypeOK, Statuses
  <2>. QED
    BY <2>2, <2>3
<1>2. CASE Restart
  BY <1>2, BoundsAssumption DEF Restart, TypeOK
<1>3. ASSUME NEW b \in Builds, CreateTemplate(b) \/ DeleteTemplate(b) PROVE TypeOK'
  BY <1>3 DEF CreateTemplate, DeleteTemplate, TypeOK, Statuses
<1>4. ASSUME NEW r \in Starters, StartStep(r) PROVE TypeOK'
  BY <1>4, StartTypes
<1>5. ASSUME NEW r \in Starters, NEW b \in Builds, NEW t \in Builds, StartBuildV2(r, b, t) PROVE TypeOK'
  BY <1>5 DEF StartBuildV2, StartUnchanged, TypeOK, StartPlaces
<1>6. ASSUME NEW w \in Workers, WorkStep(w) PROVE TypeOK'
  BY <1>6, WorkTypes
<1>7. CASE UNCHANGED vars
  BY <1>7 DEF vars, TypeOK
<1>. QED
  BY <1>1, <1>2, <1>3, <1>4, <1>5, <1>6, <1>7 DEF Next

(* Types: rows, queue, goroutines and workers keep theirs; the queue stays
   within its capacity. *)
THEOREM TypeCorrect == Spec => []TypeOK
<1>. QED
  BY TypeInit, TypeStep, PTL DEF Spec

-----------------------------------------------------------------------------
(* Whoever is on a build has it from a request or from main, which named it
   together with a template that was there. *)

EveryoneIsFiled ==
  /\ \A r \in Starters : start[r] # Idle => <<start[r].id, start[r].of>> \in filed
  /\ \A i \in DOMAIN workQueue : <<workQueue[i].id, workQueue[i].of>> \in filed
  /\ \A w \in Workers : work[w] # Idle => <<work[w].id, work[w].of>> \in filed

FiledWasThere == \A b, t \in Builds : <<b, t>> \in filed => templateRow[t] # "absent"

FiledInv == TypeOK /\ EveryoneIsFiled /\ FiledWasThere

LEMMA StarterIsFiled ==
  ASSUME FiledInv, NEW r \in Starters, StartStep(r)
  PROVE  EveryoneIsFiled' /\ FiledWasThere'
<1> USE DEF FiledInv
<1>1. /\ start[r] \in [at: StartPlaces, id: Builds, of: Builds] /\ start[r] # Idle
      /\ <<start[r].id, start[r].of>> \in filed
  BY StarterIsOnBuild
     DEF StartStep, Claim, Admit, MarkBuilding, Enqueue, Reject, StartPlaces, EveryoneIsFiled
<1>2. /\ \A q \in Starters \ {r} : start'[q] = start[q]
      /\ start'[r] = Idle \/ (start'[r].id = start[r].id /\ start'[r].of = start[r].of)
  BY <1>1 DEF StartStep, Claim, Admit, MarkBuilding, Enqueue, Reject, StartGoto, StartEnds, TypeOK
<1>3. UNCHANGED <<work, filed, templateRow>>
  BY DEF StartStep, Claim, Admit, MarkBuilding, Enqueue, Reject, StartUnchanged, templateVars
<1>4. UNCHANGED workQueue \/ workQueue' = Append(workQueue, Job(r))
  BY DEF StartStep, Claim, Admit, MarkBuilding, Enqueue, Reject
<1>5. \A i \in DOMAIN workQueue' : <<workQueue'[i].id, workQueue'[i].of>> \in filed
  <2>1. CASE UNCHANGED workQueue
    BY <2>1 DEF EveryoneIsFiled
  <2>2. CASE workQueue' = Append(workQueue, Job(r))
    <3>1. workQueue \in Seq(Jobs) /\ Job(r) \in Jobs
      BY <1>1 DEF TypeOK, Job, Jobs
    <3>2. \A i \in DOMAIN workQueue' :
            workQueue'[i] = Job(r) \/ (i \in DOMAIN workQueue /\ workQueue'[i] = workQueue[i])
      BY <2>2, <3>1
    <3>3. <<Job(r).id, Job(r).of>> \in filed
      BY <1>1 DEF Job
    <3>. QED
      BY <3>2, <3>3 DEF EveryoneIsFiled
  <2>. QED
    BY <1>4, <2>1, <2>2
<1>6. EveryoneIsFiled'
  BY <1>1, <1>2, <1>3, <1>5 DEF EveryoneIsFiled
<1>. QED
  BY <1>3, <1>6 DEF FiledWasThere

LEMMA WorkerIsFiled ==
  ASSUME FiledInv, NEW w \in Workers, WorkStep(w)
  PROVE  EveryoneIsFiled' /\ FiledWasThere'
<1> USE DEF FiledInv, WorkUnchanged, databaseVars, templateVars
<1>1. UNCHANGED <<start, filed>>
  BY DEF WorkStep, Take, RunContainer, ExecuteSteps, Commit, MarkReady, Publish, MarkError,
         Blame, Cleanup
<1>2. \A t \in Builds : templateRow'[t] = "absent" => templateRow[t] = "absent"
  <2>1. CASE Publish(w) \/ Blame(w)
    BY <2>1 DEF Publish, Blame, UpdateTemplate, TypeOK
  <2>2. CASE ~Publish(w) /\ ~Blame(w)
    BY <2>2 DEF WorkStep, Take, RunContainer, ExecuteSteps, Commit, MarkReady, MarkError, Cleanup
  <2>. QED
    BY <2>1, <2>2
<1>3. CASE Take(w)
  <2>1. /\ workQueue \in Seq(Jobs) /\ workQueue # <<>> /\ workQueue' = Tail(workQueue)
        /\ work' = [work EXCEPT ![w] = [at |-> "run", id |-> Head(workQueue).id,
                                        of |-> Head(workQueue).of, own |-> FALSE]]
    BY <1>3 DEF Take, TypeOK
  <2>2. /\ \A i \in DOMAIN workQueue' : i + 1 \in DOMAIN workQueue /\ workQueue'[i] = workQueue[i + 1]
        /\ 1 \in DOMAIN workQueue /\ Head(workQueue) = workQueue[1]
    BY <2>1
  <2>3. \A i \in DOMAIN workQueue' : <<workQueue'[i].id, workQueue'[i].of>> \in filed
    BY <2>2 DEF EveryoneIsFiled
  <2>4. /\ \A v \in Workers \ {w} : work'[v] = work[v]
        /\ work'[w].id = Head(workQueue).id /\ work'[w].of = Head(workQueue).of
    BY <2>1 DEF TypeOK
  <2>5. <<work'[w].id, work'[w].of>> \in filed
    BY <2>2, <2>4 DEF EveryoneIsFiled
  <2>6. EveryoneIsFiled'
    BY <1>1, <2>3, <2>4, <2>5 DEF EveryoneIsFiled
  <2>. QED
    BY <1>1, <1>2, <2>6 DEF FiledWasThere
<1>4. CASE ~Take(w)
  <2>1. work[w] \in [at: WorkPlaces, id: Builds, of: Builds, own: BOOLEAN] /\ work[w] # Idle
    BY <1>4, WorkerIsOnBuild
       DEF WorkStep, RunContainer, ExecuteSteps, Commit, MarkReady, Publish, MarkError,
           Blame, Cleanup, WorkPlaces
  <2>2. UNCHANGED workQueue /\ \A v \in Workers \ {w} : work'[v] = work[v]
    BY <1>4 DEF WorkStep, RunContainer, ExecuteSteps, Commit, MarkReady, Publish, MarkError,
                Blame, Cleanup, WorkGoto, TypeOK
  <2>3. work'[w] = Idle \/ (work'[w].id = work[w].id /\ work'[w].of = work[w].of)
    <3>1. CASE RunContainer(w) \/ ExecuteSteps(w) \/ Commit(w) \/ MarkReady(w)
      BY <2>1, <3>1 DEF RunContainer, ExecuteSteps, Commit, MarkReady, WorkGoto, TypeOK
    <3>2. CASE Publish(w) \/ MarkError(w) \/ Blame(w) \/ Cleanup(w)
      BY <2>1, <3>2 DEF Publish, MarkError, Blame, Cleanup, WorkGoto, TypeOK
    <3>. QED
      BY <1>4, <3>1, <3>2 DEF WorkStep
  <2>4. EveryoneIsFiled'
    BY <1>1, <2>1, <2>2, <2>3 DEF EveryoneIsFiled
  <2>. QED
    BY <1>1, <1>2, <2>4 DEF FiledWasThere
<1>. QED
  BY <1>3, <1>4

LEMMA FiledStep == FiledInv /\ [Next]_vars => FiledInv'
<1> SUFFICES ASSUME FiledInv, [Next]_vars PROVE FiledInv'
  OBVIOUS
<1> USE DEF FiledInv
<1>1. TypeOK'
  BY TypeStep
<1>2. CASE Boot
  <2>. DEFINE job == [id |-> builtBy[Base], of |-> Base]
  <2>1. /\ builtBy[Base] \in Builds /\ Base \in Builds /\ templateRow[Base] # "absent"
        /\ UNCHANGED <<start, work, templateRow>>
    BY <1>2, BuildsAssumption DEF Boot, TypeOK, templateVars, Statuses
  <2>2. \/ workQueue' = <<job>> /\ filed' = filed \cup {<<builtBy[Base], Base>>}
        \/ UNCHANGED <<workQueue, filed>>
    BY <1>2 DEF Boot
  <2>3. \A i \in DOMAIN workQueue' : <<workQueue'[i].id, workQueue'[i].of>> \in filed'
    <3>1. CASE workQueue' = <<job>> /\ filed' = filed \cup {<<builtBy[Base], Base>>}
      <4>1. \A i \in DOMAIN workQueue' : workQueue'[i] = job
        BY <3>1
      <4>. QED
        BY <3>1, <4>1
    <3>2. CASE UNCHANGED <<workQueue, filed>>
      BY <3>2 DEF EveryoneIsFiled
    <3>. QED
      BY <2>2, <3>1, <3>2
  <2>4. EveryoneIsFiled'
    BY <2>1, <2>2, <2>3 DEF EveryoneIsFiled
  <2>5. FiledWasThere'
    BY <2>1, <2>2 DEF FiledWasThere
  <2>. QED
    BY <1>1, <2>4, <2>5
<1>3. CASE Restart
  <2>1. workQueue' = <<>> /\ (\A r \in Starters : start'[r] = Idle) /\ \A w \in Workers : work'[w] = Idle
    BY <1>3 DEF Restart
  <2>2. UNCHANGED <<filed, templateRow>>
    BY <1>3 DEF Restart, databaseVars, templateVars
  <2>3. EveryoneIsFiled' /\ FiledWasThere'
    BY <2>1, <2>2 DEF EveryoneIsFiled, FiledWasThere
  <2>. QED
    BY <1>1, <2>3
<1>4. ASSUME NEW b \in Builds, CreateTemplate(b) \/ DeleteTemplate(b) PROVE FiledInv'
  <2>1. UNCHANGED <<start, workQueue, work, filed>>
    BY <1>4 DEF CreateTemplate, DeleteTemplate
  <2>2. \A t \in Builds : templateRow'[t] = "absent" => templateRow[t] = "absent"
    BY <1>4 DEF CreateTemplate, DeleteTemplate, TypeOK
  <2>. QED
    BY <1>1, <2>1, <2>2 DEF EveryoneIsFiled, FiledWasThere
<1>5. ASSUME NEW r \in Starters, StartStep(r) PROVE FiledInv'
  BY <1>1, <1>5, StarterIsFiled
<1>6. ASSUME NEW r \in Starters, NEW b \in Builds, NEW t \in Builds, StartBuildV2(r, b, t)
      PROVE  FiledInv'
  <2>1. /\ start'[r].id = b /\ start'[r].of = t /\ \A q \in Starters \ {r} : start'[q] = start[q]
        /\ filed' = filed \cup {<<b, t>>} /\ templateRow[t] # "absent"
        /\ UNCHANGED <<workQueue, work, templateRow>>
    BY <1>6 DEF StartBuildV2, StartUnchanged, templateVars, TypeOK, Statuses
  <2>. QED
    BY <1>1, <2>1 DEF EveryoneIsFiled, FiledWasThere
<1>7. ASSUME NEW w \in Workers, WorkStep(w) PROVE FiledInv'
  BY <1>1, <1>7, WorkerIsFiled
<1>8. CASE UNCHANGED vars
  BY <1>1, <1>8 DEF vars, databaseVars, templateVars, EveryoneIsFiled, FiledWasThere
<1>. QED
  BY <1>2, <1>3, <1>4, <1>5, <1>6, <1>7, <1>8 DEF Next

LEMMA FiledInit == Init => FiledInv
BY TypeInit DEF Init, FiledInv, EveryoneIsFiled, FiledWasThere

-----------------------------------------------------------------------------
(* What a worker's place says of the container and of the image. *)

OwnerPlaces == {"steps", "hung", "commit", "markReady", "publish", "cleanup"}

OwnersAreInside == \A w \in Workers : work[w].at \in OwnerPlaces => Inside(w)

ReadyPlacesHaveImage ==
  \A w \in Workers :
    work[w].at \in {"markReady", "publish"} => <<work[w].of, work[w].id>> \in image

DockerInv == /\ FiledInv
             /\ OwnersAreInside
             /\ ContainersAreOwned
             /\ ReadyPlacesHaveImage
             /\ ReadyHasImage

(* Actions that leave workers and docker alone, and make nothing ready. *)
LEMMA AloofStep ==
  ASSUME DockerInv, UNCHANGED <<work, container, image, builtBy>>, filed \subseteq filed',
         \A b \in Builds : /\ row'[b] = "ready" => row[b] = "ready"
                           /\ templateRow'[b] = "ready" => templateRow[b] = "ready"
  PROVE  /\ OwnersAreInside' /\ ContainersAreOwned'
         /\ ReadyPlacesHaveImage' /\ ReadyHasImage'
<1>1. OwnersAreInside' /\ ContainersAreOwned' /\ ReadyPlacesHaveImage'
  BY DEF DockerInv, OwnersAreInside, ContainersAreOwned, ReadyPlacesHaveImage, Inside
<1>2. ReadyHasImage'
  BY DEF DockerInv, ReadyHasImage
<1>. QED
  BY <1>1, <1>2

(* A worker that moves on, its build and its container the same. *)
LEMMA MoveStep ==
  ASSUME DockerInv, NEW w \in Workers, NEW at \in WorkPlaces,
         work[w] \in [at: WorkPlaces, id: Builds, of: Builds, own: BOOLEAN], work[w] # Idle,
         WorkGoto(w, at), UNCHANGED container, image \subseteq image',
         at \in OwnerPlaces => work[w].own,
         at \in {"markReady", "publish"} => <<work[w].of, work[w].id>> \in image'
  PROVE  OwnersAreInside' /\ ContainersAreOwned' /\ ReadyPlacesHaveImage'
<1>1. /\ work'[w].at = at /\ work'[w].id = work[w].id /\ work'[w].own = work[w].own
      /\ work'[w].of = work[w].of /\ work'[w] # Idle
  BY DEF DockerInv, FiledInv, TypeOK, WorkGoto, Idle
<1>2. \A v \in Workers \ {w} : work'[v] = work[v]
  BY DEF DockerInv, FiledInv, TypeOK, WorkGoto
<1>3. \A v \in Workers : Inside(v)' <=> Inside(v)
  BY <1>1, <1>2 DEF Inside
<1>4. \A v \in Workers : Inside(v) => work'[v].id = work[v].id
  BY <1>1, <1>2
<1>5. OwnersAreInside'
  BY <1>1, <1>2 DEF DockerInv, OwnersAreInside, Inside
<1>6. ContainersAreOwned'
  BY <1>3, <1>4 DEF DockerInv, ContainersAreOwned
<1>7. ReadyPlacesHaveImage'
  BY <1>1, <1>2 DEF DockerInv, ReadyPlacesHaveImage
<1>. QED
  BY <1>5, <1>6, <1>7

(* A worker that is done with its build. *)
LEMMA LeaveStep ==
  ASSUME DockerInv, NEW w \in Workers, work' = [work EXCEPT ![w] = Idle],
         UNCHANGED image,
         \A v \in Workers \ {w} : Inside(v) => work[v].id \in container'
  PROVE  OwnersAreInside' /\ ContainersAreOwned' /\ ReadyPlacesHaveImage'
<1>1. work'[w] = Idle
  BY DEF DockerInv, FiledInv, TypeOK
<1>2. \A v \in Workers \ {w} : work'[v] = work[v]
  BY DEF DockerInv, FiledInv, TypeOK
<1>3. ~Inside(w)' /\ work'[w].at = "idle"
  BY <1>1 DEF Inside, Idle
<1>. QED
  BY <1>2, <1>3
     DEF DockerInv, OwnersAreInside, ContainersAreOwned, ReadyPlacesHaveImage, Inside, OwnerPlaces

(* A worker's step. *)
LEMMA WorkDocker ==
  ASSUME DockerInv, NEW w \in Workers, WorkStep(w)
  PROVE  /\ OwnersAreInside' /\ ContainersAreOwned'
         /\ ReadyPlacesHaveImage' /\ ReadyHasImage'
<1> USE DEF WorkUnchanged, databaseVars, templateVars, dockerVars
<1>0. TypeOK
  BY DEF DockerInv, FiledInv
<1>1. CASE Take(w)
  <2>1. work' = [work EXCEPT ![w] = [at |-> "run", id |-> Head(workQueue).id,
                                    of |-> Head(workQueue).of, own |-> FALSE]]
    BY <1>1 DEF Take
  <2>2. ~Inside(w)' /\ work'[w].at = "run"
    BY <2>1 DEF DockerInv, FiledInv, TypeOK, Inside
  <2>3. \A v \in Workers \ {w} : work'[v] = work[v]
    BY <2>1 DEF DockerInv, FiledInv, TypeOK
  <2>4. UNCHANGED <<container, image, databaseVars, filed>>
    BY <1>1 DEF Take
  <2>5. OwnersAreInside' /\ ContainersAreOwned' /\ ReadyPlacesHaveImage'
    BY <2>2, <2>3, <2>4
       DEF DockerInv, OwnersAreInside, ContainersAreOwned, ReadyPlacesHaveImage, Inside, OwnerPlaces
  <2>6. ReadyHasImage'
    BY <2>4 DEF DockerInv, ReadyHasImage
  <2>. QED
    BY <2>5, <2>6
<1>2. CASE ~Take(w)
  <2>1. work[w] \in [at: WorkPlaces, id: Builds, of: Builds, own: BOOLEAN] /\ work[w] # Idle
    BY <1>0, <1>2, WorkerIsOnBuild
       DEF WorkStep, RunContainer, ExecuteSteps, Commit, MarkReady, Publish,
           MarkError, Blame, Cleanup, WorkPlaces
  <2>2. CASE RunContainer(w)
    <3>1. UNCHANGED <<image, databaseVars, filed>>
      BY <2>2 DEF RunContainer
    <3>2. CASE /\ work[w].id \notin container
               /\ container' = container \cup {work[w].id}
               /\ work' = [work EXCEPT ![w].at = "steps", ![w].own = TRUE]
      <4>1. /\ work'[w].at = "steps" /\ work'[w].id = work[w].id /\ work'[w].own
            /\ \A v \in Workers \ {w} : work'[v] = work[v]
        BY <2>1, <3>2 DEF DockerInv, FiledInv, TypeOK
      <4>2. \A v \in Workers \ {w} : Inside(v) => work[v].id \in container /\ work[v].id # work[w].id
        BY <3>2 DEF DockerInv, ContainersAreOwned
      <4>3. OwnersAreInside' /\ ReadyPlacesHaveImage'
        BY <3>1, <4>1 DEF DockerInv, OwnersAreInside, ReadyPlacesHaveImage, Inside, Idle
      <4>4. ContainersAreOwned'
        <5>1. \A v \in Workers \ {w} : Inside(v)' => Inside(v) /\ work'[v].id = work[v].id
          BY <4>1 DEF Inside
        <5>2. \A v \in Workers : Inside(v)' => work'[v].id \in container'
          <6> SUFFICES ASSUME NEW v \in Workers, Inside(v)' PROVE work'[v].id \in container'
            OBVIOUS
          <6>1. CASE v = w
            BY <3>2, <4>1, <6>1
          <6>2. CASE v # w
            <7>1. Inside(v) /\ work'[v].id = work[v].id
              BY <5>1, <6>2
            <7>2. work[v].id \in container
              BY <4>2, <6>2, <7>1
            <7>. QED
              BY <3>2, <7>1, <7>2
          <6>. QED
            BY <6>1, <6>2
        <5>3. \A v \in Workers \ {w} : Inside(v)' => work'[v].id # work'[w].id
          BY <4>1, <4>2, <5>1
        <5>4. ASSUME NEW v \in Workers \ {w}, NEW u \in Workers \ {v, w}, Inside(u)', Inside(v)'
              PROVE  work'[u].id # work'[v].id
          BY <5>1, <5>4 DEF DockerInv, ContainersAreOwned
        <5>. QED
          BY <5>2, <5>3, <5>4 DEF ContainersAreOwned
      <4>5. ReadyHasImage'
        BY <3>1 DEF DockerInv, ReadyHasImage
      <4>. QED
        BY <4>3, <4>4, <4>5
    <3>3. CASE /\ container' = container \/ container' = container \cup {work[w].id}
               /\ WorkGoto(w, "markError")
      <4>1. /\ work'[w].at = "markError" /\ work'[w].id = work[w].id
            /\ work'[w].own = work[w].own /\ work'[w] # Idle
            /\ \A v \in Workers \ {w} : work'[v] = work[v]
        BY <2>1, <3>3 DEF DockerInv, FiledInv, TypeOK, WorkGoto, Idle
      <4>2. OwnersAreInside' /\ ReadyPlacesHaveImage'
        BY <3>1, <4>1 DEF DockerInv, OwnersAreInside, ReadyPlacesHaveImage, Inside, OwnerPlaces
      <4>3. \A v \in Workers : (Inside(v)' <=> Inside(v)) /\ (Inside(v) => work'[v].id = work[v].id)
        BY <2>1, <4>1 DEF Inside
      <4>4. container \subseteq container'
        BY <3>3
      <4>5. ContainersAreOwned'
        <5> SUFFICES ASSUME NEW v \in Workers, Inside(v)'
                     PROVE  /\ work'[v].id \in container'
                            /\ \A u \in Workers \ {v} : Inside(u)' => work'[u].id # work'[v].id
          BY DEF ContainersAreOwned
        <5>1. Inside(v) /\ work'[v].id = work[v].id
          BY <4>3
        <5>2. work[v].id \in container
          BY <5>1 DEF DockerInv, ContainersAreOwned
        <5>3. ASSUME NEW u \in Workers \ {v}, Inside(u)' PROVE work'[u].id # work'[v].id
          BY <4>3, <5>1, <5>3 DEF DockerInv, ContainersAreOwned
        <5>. QED
          BY <4>4, <5>1, <5>2, <5>3
      <4>6. ReadyHasImage'
        BY <3>1 DEF DockerInv, ReadyHasImage
      <4>. QED
        BY <4>2, <4>5, <4>6
    <3>. QED
      BY <2>2, <3>2, <3>3 DEF RunContainer
  <2>3. CASE ExecuteSteps(w)
    <3>1. work[w].own
      BY <2>3 DEF ExecuteSteps, WorkAt, DockerInv, OwnersAreInside, Inside, OwnerPlaces
    <3>. QED
      BY <2>1, <2>3, <3>1, MoveStep DEF ExecuteSteps, WorkPlaces, OwnerPlaces, DockerInv, ReadyHasImage
  <2>4. CASE Commit(w)
    <3>1. work[w].own
      BY <2>4 DEF Commit, WorkAt, DockerInv, OwnersAreInside, Inside, OwnerPlaces
    <3>2. ReadyHasImage'
      BY <2>4 DEF Commit, DockerInv, ReadyHasImage
    <3>. QED
      BY <2>1, <2>4, <3>1, <3>2, MoveStep DEF Commit, WorkPlaces, OwnerPlaces
  <2>5. CASE MarkReady(w)
    <3>1. work[w].own /\ <<work[w].of, work[w].id>> \in image /\ <<work[w].id, work[w].of>> \in filed
      BY <2>5 DEF MarkReady, WorkAt, DockerInv, OwnersAreInside, Inside, OwnerPlaces,
                    ReadyPlacesHaveImage, FiledInv, EveryoneIsFiled, Idle
    <3>2. /\ UNCHANGED <<templateVars, image, filed>>
          /\ \A b \in Builds : row'[b] = "ready" => row[b] = "ready" \/ b = work[w].id
      BY <1>0, <2>1, <2>5 DEF MarkReady, UpdateBuild, Write, TypeOK
    <3>3. ReadyHasImage'
      BY <2>1, <3>1, <3>2 DEF DockerInv, ReadyHasImage
    <3>. QED
      BY <2>1, <2>5, <3>1, <3>3, MoveStep DEF MarkReady, WorkPlaces, OwnerPlaces
  <2>6. CASE Publish(w)
    <3>1. work[w].own /\ <<work[w].of, work[w].id>> \in image
      BY <2>6 DEF Publish, WorkAt, DockerInv, OwnersAreInside, Inside, OwnerPlaces, ReadyPlacesHaveImage
    <3>2. /\ UNCHANGED <<row, image, filed>>
          /\ \A t \in Builds : t # work[w].of => templateRow'[t] = templateRow[t] /\ builtBy'[t] = builtBy[t]
          /\ UNCHANGED templateVars \/ builtBy'[work[w].of] = work[w].id
      BY <1>0, <2>1, <2>6 DEF Publish, UpdateTemplate, TypeOK
    <3>3. \A t \in Builds : templateRow'[t] = "ready" => <<t, builtBy'[t]>> \in image
      BY <3>1, <3>2 DEF DockerInv, ReadyHasImage
    <3>4. ReadyHasImage'
      BY <3>2, <3>3 DEF DockerInv, ReadyHasImage
    <3>. QED
      BY <2>1, <2>6, <3>1, <3>4, MoveStep DEF Publish, WorkPlaces, OwnerPlaces
  <2>7. CASE MarkError(w)
    <3>1. ReadyHasImage'
      BY <2>1, <2>7 DEF MarkError, UpdateBuild, Write, DockerInv, FiledInv, TypeOK, ReadyHasImage
    <3>. QED
      BY <2>1, <2>7, <3>1, MoveStep DEF MarkError, WorkPlaces, OwnerPlaces
  <2>8. CASE Blame(w)
    <3>1. ReadyHasImage'
      BY <2>1, <2>8 DEF Blame, UpdateTemplate, DockerInv, FiledInv, TypeOK, ReadyHasImage
    <3>2. CASE work[w].own
      BY <2>1, <2>8, <3>1, <3>2, MoveStep DEF Blame, WorkPlaces, OwnerPlaces
    <3>3. CASE ~work[w].own
      <4>1. \A v \in Workers \ {w} : Inside(v) => work[v].id \in container'
        BY <2>8 DEF Blame, DockerInv, ContainersAreOwned
      <4>. QED
        BY <2>8, <3>1, <3>3, <4>1, LeaveStep DEF Blame
    <3>. QED
      BY <3>2, <3>3
  <2>9. CASE Cleanup(w)
    <3>1. Inside(w)
      BY <2>9 DEF Cleanup, WorkAt, DockerInv, OwnersAreInside, OwnerPlaces
    <3>2. \A v \in Workers \ {w} : Inside(v) => work[v].id \in container'
      BY <2>9, <3>1 DEF Cleanup, DockerInv, ContainersAreOwned
    <3>3. ReadyHasImage'
      BY <2>9 DEF Cleanup, DockerInv, ReadyHasImage
    <3>. QED
      BY <2>9, <3>2, <3>3, LeaveStep DEF Cleanup
  <2>. QED
    BY <1>2, <2>2, <2>3, <2>4, <2>5, <2>6, <2>7, <2>8, <2>9 DEF WorkStep
<1>. QED
  BY <1>1, <1>2

LEMMA DockerStep == DockerInv /\ [Next]_vars => DockerInv'
<1> SUFFICES ASSUME DockerInv, [Next]_vars PROVE DockerInv'
  OBVIOUS
<1>1. FiledInv'
  BY FiledStep DEF DockerInv
<1>2. CASE Boot
  <2>1. \A b \in Builds : row'[b] = "ready" => row[b] = "ready"
    BY <1>2, BuildsAssumption DEF Boot, DockerInv, FiledInv, TypeOK
  <2>2. UNCHANGED <<work, container, image, templateVars>> /\ filed \subseteq filed'
    BY <1>2 DEF Boot, dockerVars
  <2>. QED
    BY <1>1, <2>1, <2>2, AloofStep DEF DockerInv, templateVars
<1>3. CASE Restart
  <2>1. \A w \in Workers : work'[w] = Idle
    BY <1>3 DEF Restart
  <2>2. \A w \in Workers : work'[w].at = "idle" /\ ~Inside(w)'
    BY <2>1 DEF Inside, Idle
  <2>3. OwnersAreInside' /\ ContainersAreOwned' /\ ReadyPlacesHaveImage'
    BY <2>2 DEF OwnersAreInside, ContainersAreOwned, ReadyPlacesHaveImage, OwnerPlaces
  <2>4. ReadyHasImage'
    BY <1>3 DEF Restart, databaseVars, templateVars, dockerVars, DockerInv, ReadyHasImage
  <2>. QED
    BY <1>1, <2>3, <2>4 DEF DockerInv
<1>4. ASSUME NEW b \in Builds, CreateTemplate(b) \/ DeleteTemplate(b) PROVE DockerInv'
  <2>1. \A c \in Builds : /\ row'[c] = "ready" => row[c] = "ready"
                          /\ templateRow'[c] = "ready" => templateRow[c] = "ready"
    BY <1>4 DEF CreateTemplate, DeleteTemplate, DockerInv, FiledInv, TypeOK
  <2>2. UNCHANGED <<work, container, image, builtBy, filed>>
    BY <1>4 DEF CreateTemplate, DeleteTemplate, dockerVars
  <2>. QED
    BY <1>1, <2>1, <2>2, AloofStep DEF DockerInv
<1>5. ASSUME NEW r \in Starters, StartStep(r) PROVE DockerInv'
  <2>1. UNCHANGED <<work, container, image, templateRow, builtBy, filed>>
    BY <1>5 DEF StartStep, Claim, Admit, MarkBuilding, Enqueue, Reject, StartUnchanged,
                templateVars, dockerVars
  <2>2. \/ UNCHANGED row
        \/ row' = Write(row, start[r].id, "building") \/ row' = Write(row, start[r].id, "error")
    BY <1>5 DEF StartStep, Claim, Admit, MarkBuilding, Enqueue, Reject, UpdateBuild
  <2>3. \A b \in Builds : row'[b] = "ready" => row[b] = "ready"
    BY <2>2 DEF Write, DockerInv, FiledInv, TypeOK
  <2>. QED
    BY <1>1, <2>1, <2>3, AloofStep DEF DockerInv
<1>6. ASSUME NEW r \in Starters, NEW b \in Builds, NEW t \in Builds, StartBuildV2(r, b, t) PROVE DockerInv'
  <2>1. /\ UNCHANGED <<work, container, image, row, templateRow, builtBy>>
        /\ filed \subseteq filed'
    BY <1>6 DEF StartBuildV2, StartUnchanged, templateVars, dockerVars
  <2>. QED
    BY <1>1, <2>1, AloofStep DEF DockerInv
<1>7. ASSUME NEW w \in Workers, WorkStep(w) PROVE DockerInv'
  BY <1>1, <1>7, WorkDocker DEF DockerInv
<1>8. CASE UNCHANGED vars
  BY <1>1, <1>8, AloofStep DEF vars, databaseVars, templateVars, dockerVars, DockerInv
<1>. QED
  BY <1>2, <1>3, <1>4, <1>5, <1>6, <1>7, <1>8 DEF Next

LEMMA DockerInit == Init => DockerInv
<1> SUFFICES ASSUME Init PROVE DockerInv
  OBVIOUS
<1>1. FiledInv
  BY FiledInit
<1>2. \A w \in Workers : work[w] = Idle /\ work[w].at = "idle" /\ ~Inside(w)
  BY DEF Init, Inside, Idle
<1>3. OwnersAreInside /\ ContainersAreOwned /\ ReadyPlacesHaveImage
  BY <1>2 DEF OwnersAreInside, ContainersAreOwned, ReadyPlacesHaveImage, OwnerPlaces
<1>4. ReadyHasImage
  BY DEF Init, ReadyHasImage
<1>. QED
  BY <1>1, <1>3, <1>4 DEF DockerInv

LEMMA AlwaysDockerInv == Spec => []DockerInv
<1>. QED
  BY DockerInit, DockerStep, PTL DEF Spec

(* A worker's container is its own until it removes it, also when a build was
   queued twice or a container of an earlier server is still there. *)
THEOREM ContainersOwned == Spec => []ContainersAreOwned
<1>1. DockerInv => ContainersAreOwned
  BY DEF DockerInv
<1>. QED
  BY <1>1, AlwaysDockerInv, PTL

(* A template listed as ready has the image of the build it is started from
   under its own name, and a build listed as ready an image under a template it
   was started under, also when requests start builds under other templates. *)
THEOREM ReadyImageHolds == Spec => []ReadyHasImage
<1>1. DockerInv => ReadyHasImage
  BY DEF DockerInv
<1>. QED
  BY <1>1, AlwaysDockerInv, PTL

-----------------------------------------------------------------------------
(* How many workers may hang.  This is what carries BuildsEnd: a build that  *)
(* is started again while it hangs does not take a second worker.            *)

Hung == {w \in Workers : work[w].at = "hung"}

HangersAreEndless == \A w \in Hung : work[w].id \in Endless

LEMMA HangersInit == Init => HangersAreEndless
BY DEF Init, HangersAreEndless, Hung, Idle

LEMMA HangersStep == TypeOK /\ HangersAreEndless /\ [Next]_vars => HangersAreEndless'
<1> SUFFICES ASSUME TypeOK, HangersAreEndless, [Next]_vars PROVE HangersAreEndless'
  OBVIOUS
<1> USE DEF HangersAreEndless, Hung
<1>1. ASSUME NEW w \in Workers, WorkStep(w) PROVE HangersAreEndless'
  <2>1. \A v \in Workers \ {w} : work'[v] = work[v]
    BY <1>1 DEF WorkStep, Take, RunContainer, ExecuteSteps, Commit, MarkReady, Publish, MarkError,
                Blame, Cleanup, WorkGoto, TypeOK
  <2>2. work'[w].at = "hung" => work'[w].id \in Endless
    <3>1. CASE Take(w)
      BY <3>1 DEF Take, TypeOK
    <3>2. CASE ~Take(w)
      <4>1. work[w] \in [at: WorkPlaces, id: Builds, of: Builds, own: BOOLEAN]
        BY <1>1, <3>2, WorkerIsOnBuild
           DEF WorkStep, RunContainer, ExecuteSteps, Commit, MarkReady, Publish, MarkError,
               Blame, Cleanup, WorkPlaces
      <4>2. CASE ExecuteSteps(w)
        BY <4>1, <4>2 DEF ExecuteSteps, WorkGoto, TypeOK
      <4>3. CASE RunContainer(w) \/ Commit(w) \/ MarkReady(w) \/ Publish(w)
        BY <4>1, <4>3 DEF RunContainer, Commit, MarkReady, Publish, WorkGoto, TypeOK
      <4>4. CASE MarkError(w) \/ Blame(w) \/ Cleanup(w)
        BY <4>1, <4>4 DEF MarkError, Blame, Cleanup, WorkGoto, TypeOK, Idle
      <4>. QED
        BY <1>1, <3>2, <4>2, <4>3, <4>4 DEF WorkStep
    <3>. QED
      BY <3>1, <3>2
  <2>. QED
    BY <2>1, <2>2
<1>2. CASE Restart
  BY <1>2 DEF Restart, Idle
<1>3. CASE UNCHANGED work
  BY <1>3
<1>. QED
  BY <1>1, <1>2, <1>3
     DEF Next, Boot, CreateTemplate, DeleteTemplate, StartStep, StartBuildV2, Claim, Admit,
         MarkBuilding, Enqueue, Reject, StartUnchanged, vars

(* Workers that hang are in containers of their own, so each hangs in another *)
(* build.                                                                     *)
LEMMA HangersAreFew ==
  ASSUME DockerInv, HangersAreEndless, IsFiniteSet(Endless)
  PROVE  IsFiniteSet(Hung) /\ Cardinality(Hung) <= Cardinality(Endless)
<1>. DEFINE build == [w \in Hung |-> work[w].id]
<1>1. \A w \in Hung : Inside(w)
  BY DEF DockerInv, OwnersAreInside, OwnerPlaces, Hung
<1>2. \A v, w \in Hung : work[v].id = work[w].id => v = w
  BY <1>1 DEF DockerInv, ContainersAreOwned, Hung
<1>3. build \in [Hung -> Endless]
  BY DEF HangersAreEndless
<1>4. build \in Injection(Hung, Endless)
  BY <1>2, <1>3 DEF Injection, IsInjective
<1>. QED
  BY <1>4, FS_Injection

(* With fewer builds that may hang than workers, there is at every moment a *)
(* worker that does not hang, however often the builds are started.         *)
PoolKeepsAWorker ==
  IsFiniteSet(Workers) /\ IsFiniteSet(Endless) /\ Cardinality(Endless) < Cardinality(Workers)
    => \E w \in Workers : work[w].at # "hung"

LEMMA SomeoneMoves == DockerInv /\ HangersAreEndless => PoolKeepsAWorker
<1> SUFFICES ASSUME DockerInv, HangersAreEndless, IsFiniteSet(Workers), IsFiniteSet(Endless),
                    Cardinality(Endless) < Cardinality(Workers)
             PROVE  \E w \in Workers : work[w].at # "hung"
  BY DEF PoolKeepsAWorker
<1>1. Cardinality(Hung) <= Cardinality(Endless)
  BY HangersAreFew
<1>2. Cardinality(Endless) \in Nat /\ Cardinality(Workers) \in Nat
  BY FS_CardinalityType
<1>3. Hung # Workers
  <2>1. Cardinality(Hung) # Cardinality(Workers)
    <3>1. Cardinality(Hung) \in Nat
      BY HangersAreFew, FS_CardinalityType
    <3>. QED
      BY <1>1, <1>2, <3>1
  <2>. QED
    BY <2>1
<1>. QED
  BY <1>3 DEF Hung

(* The pool of workers is never used up by builds that hang. *)
THEOREM PoolHolds == Spec => []PoolKeepsAWorker
<1>1. Spec => []HangersAreEndless
  BY HangersInit, HangersStep, TypeCorrect, PTL DEF Spec
<1>. QED
  BY <1>1, AlwaysDockerInv, SomeoneMoves, PTL

-----------------------------------------------------------------------------
(* How far a goroutine is with its build: the other half of BuildsEnd. *)

Stage == [claim |-> 0, admit |-> 1, mark |-> 2, enqueue |-> 3, reject |-> 4,
          run |-> 0, steps |-> 1, commit |-> 2, hung |-> 2, markReady |-> 3, publish |-> 4,
          markError |-> 3, blame |-> 4, cleanup |-> 5]

Forward(old, new) ==
  old # Idle /\ new # old => \/ new = Idle
                             \/ new.id = old.id /\ Stage[new.at] > Stage[old.at]

EveryoneGoesForward == /\ \A r \in Starters : Forward(start[r], start'[r])
                       /\ \A w \in Workers : Forward(work[w], work'[w])

LEMMA StarterGoesForward ==
  ASSUME TypeOK, NEW r \in Starters, StartStep(r)
  PROVE  \A q \in Starters : Forward(start[q], start'[q])
<1>1. \A q \in Starters \ {r} : start'[q] = start[q]
  BY DEF StartStep, Claim, Admit, MarkBuilding, Enqueue, Reject, StartGoto, StartEnds, TypeOK
<1>2. start[r] \in [at: StartPlaces, id: Builds, of: Builds]
  BY StarterIsOnBuild DEF StartStep, Claim, Admit, MarkBuilding, Enqueue, Reject, StartPlaces
<1>3. Forward(start[r], start'[r])
  <2>1. CASE Claim(r) \/ Admit(r)
    BY <1>2, <2>1 DEF Claim, Admit, StartAt, StartGoto, StartEnds, TypeOK, Forward, Stage
  <2>2. CASE MarkBuilding(r) \/ Enqueue(r) \/ Reject(r)
    BY <1>2, <2>2 DEF MarkBuilding, Enqueue, Reject, StartAt, StartGoto, StartEnds, TypeOK, Forward, Stage
  <2>. QED
    BY <2>1, <2>2 DEF StartStep
<1>. QED
  BY <1>1, <1>3 DEF Forward

LEMMA WorkerGoesForward ==
  ASSUME TypeOK, NEW w \in Workers, WorkStep(w)
  PROVE  \A v \in Workers : Forward(work[v], work'[v])
<1>1. \A v \in Workers \ {w} : work'[v] = work[v]
  BY DEF WorkStep, Take, RunContainer, ExecuteSteps, Commit, MarkReady, Publish, MarkError,
         Blame, Cleanup, WorkGoto, TypeOK
<1>2. Forward(work[w], work'[w])
  <2>1. CASE Take(w)
    BY <2>1 DEF Take, Forward
  <2>2. CASE ~Take(w)
    <3>1. work[w] \in [at: WorkPlaces, id: Builds, of: Builds, own: BOOLEAN]
      BY <2>2, WorkerIsOnBuild
         DEF WorkStep, RunContainer, ExecuteSteps, Commit, MarkReady, Publish, MarkError,
             Blame, Cleanup, WorkPlaces
    <3>2. CASE RunContainer(w)
      BY <3>1, <3>2 DEF RunContainer, WorkAt, WorkGoto, TypeOK, Forward, Stage
    <3>3. CASE ExecuteSteps(w) \/ Commit(w)
      BY <3>1, <3>3 DEF ExecuteSteps, Commit, WorkAt, WorkGoto, TypeOK, Forward, Stage
    <3>4. CASE MarkReady(w) \/ Publish(w) \/ MarkError(w)
      BY <3>1, <3>4 DEF MarkReady, Publish, MarkError, WorkAt, WorkGoto, TypeOK, Forward, Stage
    <3>5. CASE Blame(w) \/ Cleanup(w)
      BY <3>1, <3>5 DEF Blame, Cleanup, WorkAt, WorkGoto, TypeOK, Forward, Stage
    <3>. QED
      BY <2>2, <3>2, <3>3, <3>4, <3>5 DEF WorkStep
  <2>. QED
    BY <2>1, <2>2
<1>. QED
  BY <1>1, <1>2 DEF Forward

LEMMA StepGoesForward == TypeOK /\ [Next]_vars => EveryoneGoesForward
<1> SUFFICES ASSUME TypeOK, [Next]_vars PROVE EveryoneGoesForward
  OBVIOUS
<1>1. ASSUME NEW r \in Starters, StartStep(r) PROVE EveryoneGoesForward
  <2>1. UNCHANGED work
    BY <1>1 DEF StartStep, Claim, Admit, MarkBuilding, Enqueue, Reject, StartUnchanged
  <2>. QED
    BY <1>1, <2>1, StarterGoesForward DEF EveryoneGoesForward, Forward
<1>2. ASSUME NEW w \in Workers, WorkStep(w) PROVE EveryoneGoesForward
  <2>1. UNCHANGED start
    BY <1>2 DEF WorkStep, Take, RunContainer, ExecuteSteps, Commit, MarkReady, Publish, MarkError,
                Blame, Cleanup, WorkUnchanged
  <2>. QED
    BY <1>2, <2>1, WorkerGoesForward DEF EveryoneGoesForward, Forward
<1>3. ASSUME NEW r \in Starters, NEW b \in Builds, NEW t \in Builds, StartBuildV2(r, b, t) PROVE EveryoneGoesForward
  <2>1. start[r] = Idle /\ UNCHANGED work /\ \A q \in Starters \ {r} : start'[q] = start[q]
    BY <1>3 DEF StartBuildV2, StartUnchanged, TypeOK
  <2>. QED
    BY <2>1 DEF EveryoneGoesForward, Forward
<1>4. CASE Restart
  BY <1>4 DEF Restart, EveryoneGoesForward, Forward
<1>5. CASE UNCHANGED <<start, work>>
  BY <1>5 DEF EveryoneGoesForward, Forward
<1>. QED
  BY <1>1, <1>2, <1>3, <1>4, <1>5 DEF Next, Boot, CreateTemplate, DeleteTemplate, vars

(* A request that starts a build and a worker that runs one only go forward:   *)
(* nobody returns to an earlier place or turns to another build, so each ends  *)
(* within six steps of its own, unless the steps of the build hang.           *)
THEOREM BuildsGoForward == Spec => [][EveryoneGoesForward]_vars
<1>1. TypeOK /\ [Next]_vars => [EveryoneGoesForward]_vars
  BY StepGoesForward
<1>. QED
  BY <1>1, TypeCorrect, PTL DEF Spec

-----------------------------------------------------------------------------
(* Who carries a build whose row says building: a goroutine that has claimed
   it, the queue, or a worker that has not written its outcome. *)

ClaimedPlaces == {"admit", "mark", "enqueue", "reject"}
UndecidedPlaces == {"run", "steps", "hung", "commit", "markReady", "markError"}

CarriedByStarter(b) == \E r \in Starters : start[r].at \in ClaimedPlaces /\ start[r].id = b
CarriedByWorker(b) == \E w \in Workers : work[w].at \in UndecidedPlaces /\ work[w].id = b
Carried(b) == CarriedByStarter(b) \/ Queued(b) \/ CarriedByWorker(b)

BuildingIsCarried ==
  \A b \in Builds \ disrupted : row[b] = "building" => Carried(b) \/ TemplateGone(b)

(* A server that is down has lost its queue and its goroutines. *)
DownIsEmpty == server = "down" => workQueue = <<>> /\ \A r \in Starters : start[r] = Idle

CarryInv == FiledInv /\ BuildingIsCarried /\ DownIsEmpty

(* A starter's step drops no build but its own, and that only when it had
   claimed it. *)
LEMMA OtherStarters ==
  ASSUME NEW r \in Starters, NEW b \in Builds,
         start[r].id # b \/ start[r].at \notin ClaimedPlaces,
         \A q \in Starters \ {r} : start'[q] = start[q],
         UNCHANGED work, Queued(b) => Queued(b)', Carried(b)
  PROVE  Carried(b)'
<1>1. CASE CarriedByStarter(b)
  <2>1. PICK q \in Starters : start[q].at \in ClaimedPlaces /\ start[q].id = b
    BY <1>1 DEF CarriedByStarter
  <2>2. q # r
    BY <2>1
  <2>. QED
    BY <2>1, <2>2 DEF Carried, CarriedByStarter
<1>2. CASE Queued(b)
  BY <1>2 DEF Carried
<1>3. CASE CarriedByWorker(b)
  BY <1>3 DEF Carried, CarriedByWorker
<1>. QED
  BY <1>1, <1>2, <1>3 DEF Carried

LEMMA OtherWorkers ==
  ASSUME NEW w \in Workers, NEW b \in Builds,
         work[w].id # b \/ work[w].at \notin UndecidedPlaces,
         \A v \in Workers \ {w} : work'[v] = work[v],
         UNCHANGED start, Queued(b) => Queued(b)', Carried(b)
  PROVE  Carried(b)'
<1>1. CASE CarriedByWorker(b)
  <2>1. PICK v \in Workers : work[v].at \in UndecidedPlaces /\ work[v].id = b
    BY <1>1 DEF CarriedByWorker
  <2>2. v # w
    BY <2>1
  <2>. QED
    BY <2>1, <2>2 DEF Carried, CarriedByWorker
<1>2. CASE Queued(b)
  BY <1>2 DEF Carried
<1>3. CASE CarriedByStarter(b)
  BY <1>3 DEF Carried, CarriedByStarter
<1>. QED
  BY <1>1, <1>2, <1>3 DEF Carried

(* What a goroutine does with the build it starts: it goes on carrying it,
   queues it, or leaves a row that does not say building. *)
LEMMA StartOutcome ==
  ASSUME FiledInv, NEW r \in Starters, StartStep(r), NEW b \in Builds, b = start[r].id
  PROVE  \/ start[r].at = "claim" /\ UNCHANGED row
         \/ start'[r].at \in ClaimedPlaces /\ start'[r].id = b
         \/ Queued(b)'
         \/ row'[b] # "building"
         \/ b \in disrupted'
         \/ TemplateGone(b)
<1>0. TypeOK
  BY DEF FiledInv
<1>1. CASE Claim(r)
  <2>1. start[r] \in [at: StartPlaces, id: Builds, of: Builds]
    BY <1>1, <1>0, StarterIsOnBuild DEF Claim, StartPlaces
  <2>. QED
    BY <1>0, <1>1, <2>1 DEF Claim, StartAt, StartGoto, TypeOK, ClaimedPlaces
<1>2. CASE Admit(r)
  <2>1. start[r] \in [at: StartPlaces, id: Builds, of: Builds]
    BY <1>2, <1>0, StarterIsOnBuild DEF Admit, StartPlaces
  <2>2. CASE Admitted(b, start[r].of) /\ StartGoto(r, "mark")
    BY <1>0, <2>1, <2>2 DEF StartGoto, TypeOK, ClaimedPlaces
  <2>3. CASE ~Admitted(b, start[r].of)
    <3>1. <<b, start[r].of>> \in filed /\ start[r].of \in Builds
      BY <1>2, <2>1 DEF Admit, StartAt, FiledInv, EveryoneIsFiled, Idle
    <3>2. templateRow[start[r].of] = "deleted" \/ row[b] \notin {"waiting", "building"}
      BY <1>0, <2>3, <3>1 DEF Admitted, FiledInv, FiledWasThere, TypeOK
    <3>3. UNCHANGED row
      BY <1>2 DEF Admit
    <3>. QED
      BY <3>1, <3>2, <3>3 DEF TemplateGone
  <2>4. CASE b \in disrupted'
    BY <2>4
  <2>. QED
    BY <1>2, <2>2, <2>3, <2>4 DEF Admit
<1>3. CASE MarkBuilding(r)
  <2>1. start[r] \in [at: StartPlaces, id: Builds, of: Builds]
    BY <1>3, <1>0, StarterIsOnBuild DEF MarkBuilding, StartPlaces
  <2>. QED
    BY <1>0, <1>3, <2>1 DEF MarkBuilding, StartGoto, TypeOK, ClaimedPlaces
<1>4. CASE Enqueue(r)
  <2>1. start[r] \in [at: StartPlaces, id: Builds, of: Builds]
    BY <1>4, <1>0, StarterIsOnBuild DEF Enqueue, StartPlaces
  <2>2. CASE Len(workQueue) < QueueCap
    <3>1. workQueue' = Append(workQueue, Job(r)) /\ workQueue \in Seq(Jobs)
      BY <1>0, <1>4, <2>2 DEF Enqueue, TypeOK
    <3>2. Job(r).id = b
      BY DEF Job
    <3>3. Job(r) \in Jobs
      BY <2>1 DEF Job, Jobs
    <3>4. /\ Len(workQueue) + 1 \in DOMAIN workQueue'
          /\ workQueue'[Len(workQueue) + 1] = Job(r)
      BY <3>1, <3>3
    <3>. QED
      BY <3>2, <3>4 DEF Queued
  <2>3. CASE ~(Len(workQueue) < QueueCap)
    BY <1>0, <1>4, <2>1, <2>3 DEF Enqueue, StartGoto, TypeOK, ClaimedPlaces
  <2>. QED
    BY <2>2, <2>3
<1>5. CASE Reject(r)
  <2>1. start[r] \in [at: StartPlaces, id: Builds, of: Builds]
    BY <1>5, <1>0, StarterIsOnBuild DEF Reject, StartPlaces
  <2>. QED
    BY <1>0, <1>5, <2>1 DEF Reject, UpdateBuild, Write, TypeOK
<1>. QED
  BY <1>1, <1>2, <1>3, <1>4, <1>5 DEF StartStep

LEMMA StartFrame ==
  ASSUME TypeOK, NEW r \in Starters, StartStep(r)
  PROVE  /\ \A q \in Starters \ {r} : start'[q] = start[q]
         /\ \A b \in Builds : b # start[r].id => row'[b] = row[b]
         /\ \A b \in Builds : Queued(b) => Queued(b)'
         /\ disrupted \subseteq disrupted'
         /\ UNCHANGED <<work, server>>
         /\ start[r].at \in StartPlaces
         /\ \A b \in Builds : TemplateGone(b) => TemplateGone(b)'
<1>0. \A b \in Builds : TemplateGone(b) => TemplateGone(b)'
  BY DEF StartStep, Claim, Admit, MarkBuilding, Enqueue, Reject, StartUnchanged, templateVars,
         TemplateGone
<1>1. UNCHANGED <<work, server>> /\ disrupted \subseteq disrupted'
  BY DEF StartStep, Claim, Admit, MarkBuilding, Enqueue, Reject, UpdateBuild, StartUnchanged
<1>2. \A q \in Starters \ {r} : start'[q] = start[q]
  BY DEF StartStep, Claim, Admit, MarkBuilding, Enqueue, Reject, StartGoto, StartEnds, TypeOK
<1>3. start[r].at \in StartPlaces
  BY DEF StartStep, Claim, Admit, MarkBuilding, Enqueue, Reject, StartAt, StartPlaces
<1>4. \A b \in Builds : b # start[r].id => row'[b] = row[b]
  <2>1. \/ UNCHANGED row
        \/ row' = Write(row, start[r].id, "building") \/ row' = Write(row, start[r].id, "error")
    BY DEF StartStep, Claim, Admit, MarkBuilding, Enqueue, Reject, UpdateBuild
  <2>. QED
    BY <2>1 DEF Write, TypeOK
<1>5. \A b \in Builds : Queued(b) => Queued(b)'
  <2> SUFFICES ASSUME NEW b \in Builds, Queued(b) PROVE Queued(b)'
    OBVIOUS
  <2>1. CASE UNCHANGED workQueue
    BY <2>1 DEF Queued
  <2>2. CASE workQueue' # workQueue
    <3>1. Enqueue(r) /\ workQueue' = Append(workQueue, Job(r))
      BY <2>2 DEF StartStep, Claim, Admit, MarkBuilding, Enqueue, Reject
    <3>2. Job(r) \in Jobs /\ workQueue \in Seq(Jobs)
      BY <3>1, StarterIsOnBuild DEF Enqueue, StartPlaces, TypeOK, Job, Jobs
    <3>3. PICK i \in DOMAIN workQueue : workQueue[i].id = b
      BY DEF Queued
    <3>4. i \in DOMAIN workQueue' /\ workQueue'[i].id = b
      BY <3>1, <3>2, <3>3
    <3>. QED
      BY <3>4 DEF Queued
  <2>. QED
    BY <2>1, <2>2
<1>. QED
  BY <1>0, <1>1, <1>2, <1>3, <1>4, <1>5

LEMMA StartCarries ==
  ASSUME CarryInv, NEW r \in Starters, StartStep(r)
  PROVE  BuildingIsCarried' /\ DownIsEmpty'
<1> USE DEF CarryInv
<1>0. TypeOK
  BY DEF FiledInv
<1>1. BuildingIsCarried'
  <2> SUFFICES ASSUME NEW b \in Builds, b \notin disrupted', row'[b] = "building",
                      ~TemplateGone(b)'
               PROVE  Carried(b)'
    BY DEF BuildingIsCarried
  <2>0. ~TemplateGone(b)
    BY <1>0, StartFrame
  <2>1. CASE b = start[r].id
    <3>1. CASE start[r].at = "claim" /\ UNCHANGED row
      <4>1. Carried(b)
        BY <1>0, <2>0, <3>1, StartFrame DEF BuildingIsCarried
      <4>2. start[r].at \notin ClaimedPlaces
        BY <3>1 DEF ClaimedPlaces
      <4>. QED
        BY <1>0, <4>1, <4>2, StartFrame, OtherStarters
    <3>2. CASE start'[r].at \in ClaimedPlaces /\ start'[r].id = b
      BY <3>2 DEF Carried, CarriedByStarter
    <3>3. CASE Queued(b)'
      BY <3>3 DEF Carried
    <3>. QED
      BY <2>0, <2>1, <3>1, <3>2, <3>3, StartOutcome
  <2>2. CASE b # start[r].id
    <3>1. Carried(b)
      BY <1>0, <2>0, <2>2, StartFrame DEF BuildingIsCarried
    <3>. QED
      BY <1>0, <2>2, <3>1, StartFrame, OtherStarters
  <2>. QED
    BY <2>1, <2>2
<1>2. server # "down"
  BY <1>0, StartFrame DEF DownIsEmpty, Idle, StartPlaces
<1>3. DownIsEmpty'
  BY <1>0, <1>2, StartFrame DEF DownIsEmpty
<1>. QED
  BY <1>1, <1>3

LEMMA TakeCarries ==
  ASSUME CarryInv, NEW w \in Workers, Take(w)
  PROVE  BuildingIsCarried' /\ DownIsEmpty'
<1> USE DEF CarryInv
<1>1. /\ work[w] = Idle /\ workQueue # <<>> /\ workQueue' = Tail(workQueue)
      /\ workQueue \in Seq(Jobs)
      /\ work' = [work EXCEPT ![w] = [at |-> "run", id |-> Head(workQueue).id,
                                      of |-> Head(workQueue).of, own |-> FALSE]]
      /\ UNCHANGED <<row, templateRow, filed, disrupted, start, server>>
  BY DEF Take, WorkUnchanged, databaseVars, templateVars, FiledInv, TypeOK
<1>2. /\ work'[w].at \in UndecidedPlaces /\ work'[w].id = Head(workQueue).id
      /\ \A v \in Workers \ {w} : work'[v] = work[v]
  BY <1>1 DEF FiledInv, TypeOK, UndecidedPlaces
<1>3. ASSUME NEW b \in Builds, Queued(b), b # Head(workQueue).id PROVE Queued(b)'
  <2>1. PICK i \in DOMAIN workQueue : workQueue[i].id = b
    BY <1>3 DEF Queued
  <2>2. i # 1 /\ i \in 1 .. Len(workQueue)
    BY <1>1, <1>3, <2>1
  <2>3. i - 1 \in DOMAIN workQueue' /\ workQueue'[i - 1].id = b
    BY <1>1, <2>1, <2>2
  <2>. QED
    BY <2>3 DEF Queued
<1>4. BuildingIsCarried'
  <2> SUFFICES ASSUME NEW b \in Builds, b \notin disrupted', row'[b] = "building",
                      ~TemplateGone(b)'
               PROVE  Carried(b)'
    BY DEF BuildingIsCarried
  <2>0. ~TemplateGone(b)
    BY <1>1 DEF TemplateGone
  <2>1. CASE b = Head(workQueue).id
    BY <1>2, <2>1 DEF Carried, CarriedByWorker
  <2>2. CASE b # Head(workQueue).id
    <3>1. Carried(b)
      BY <1>1, <2>0 DEF BuildingIsCarried
    <3>2. work[w].at \notin UndecidedPlaces
      BY <1>1 DEF Idle, UndecidedPlaces
    <3>. QED
      BY <1>1, <1>2, <1>3, <2>2, <3>1, <3>2, OtherWorkers
  <2>. QED
    BY <2>1, <2>2
<1>5. DownIsEmpty'
  BY <1>1 DEF DownIsEmpty
<1>. QED
  BY <1>4, <1>5

(* A worker that is on a build goes on carrying it until it writes the
   outcome. *)
LEMMA WorkOutcome ==
  ASSUME TypeOK, NEW w \in Workers, WorkStep(w), ~Take(w)
  PROVE  /\ \A v \in Workers \ {w} : work'[v] = work[v]
         /\ \A b \in Builds : b # work[w].id => row'[b] = row[b]
         /\ disrupted \subseteq disrupted'
         /\ UNCHANGED <<workQueue, start, server>>
         /\ \A b \in Builds : TemplateGone(b) => TemplateGone(b)'
         /\ \/ work[w].at \notin UndecidedPlaces /\ UNCHANGED row
            \/ work'[w].at \in UndecidedPlaces /\ work'[w].id = work[w].id
            \/ row'[work[w].id] # "building"
            \/ work[w].id \in disrupted'
<1> USE DEF WorkUnchanged, databaseVars, templateVars
<1>0. \A b \in Builds : TemplateGone(b) => TemplateGone(b)'
  <2>1. UNCHANGED filed
    BY DEF WorkStep, RunContainer, ExecuteSteps, Commit, MarkReady, Publish, MarkError, Blame,
           Cleanup
  <2>2. \A t \in Builds : templateRow[t] = "deleted" => templateRow'[t] = "deleted"
    <3>1. CASE Publish(w) \/ Blame(w)
      BY <3>1 DEF Publish, Blame, UpdateTemplate, TypeOK
    <3>2. CASE ~Publish(w) /\ ~Blame(w)
      BY <3>2 DEF WorkStep, RunContainer, ExecuteSteps, Commit, MarkReady, MarkError, Cleanup
    <3>. QED
      BY <3>1, <3>2
  <2>. QED
    BY <2>1, <2>2 DEF TemplateGone
<1>1. work[w] \in [at: WorkPlaces, id: Builds, of: Builds, own: BOOLEAN] /\ work[w] # Idle
  BY WorkerIsOnBuild
     DEF WorkStep, RunContainer, ExecuteSteps, Commit, MarkReady, Publish, MarkError, Blame,
         Cleanup, WorkPlaces
<1>2. UNCHANGED <<workQueue, start, server>> /\ disrupted \subseteq disrupted'
  BY DEF WorkStep, RunContainer, ExecuteSteps, Commit, MarkReady, Publish, MarkError, Blame,
         Cleanup, UpdateBuild
<1>3. \A v \in Workers \ {w} : work'[v] = work[v]
  BY DEF WorkStep, RunContainer, ExecuteSteps, Commit, MarkReady, Publish, MarkError, Blame,
         Cleanup, WorkGoto, TypeOK
<1>4. \A b \in Builds : b # work[w].id => row'[b] = row[b]
  <2>1. \/ UNCHANGED row
        \/ row' = Write(row, work[w].id, "ready") \/ row' = Write(row, work[w].id, "error")
    BY DEF WorkStep, RunContainer, ExecuteSteps, Commit, MarkReady, Publish, MarkError, Blame,
           Cleanup, UpdateBuild
  <2>. QED
    BY <2>1 DEF Write, TypeOK
<1>5. \/ work[w].at \notin UndecidedPlaces /\ UNCHANGED row
      \/ work'[w].at \in UndecidedPlaces /\ work'[w].id = work[w].id
      \/ row'[work[w].id] # "building"
      \/ work[w].id \in disrupted'
  <2>1. CASE RunContainer(w)
    BY <1>1, <2>1 DEF RunContainer, WorkGoto, TypeOK, UndecidedPlaces
  <2>2. CASE ExecuteSteps(w)
    BY <1>1, <2>2 DEF ExecuteSteps, WorkGoto, TypeOK, UndecidedPlaces
  <2>3. CASE Commit(w)
    BY <1>1, <2>3 DEF Commit, WorkGoto, TypeOK, UndecidedPlaces
  <2>4. CASE MarkReady(w)
    BY <1>1, <2>4 DEF MarkReady, UpdateBuild, Write, TypeOK
  <2>5. CASE MarkError(w)
    BY <1>1, <2>5 DEF MarkError, UpdateBuild, Write, TypeOK
  <2>6. CASE Publish(w) \/ Blame(w) \/ Cleanup(w)
    BY <2>6 DEF Publish, Blame, Cleanup, WorkAt, UndecidedPlaces
  <2>. QED
    BY <2>1, <2>2, <2>3, <2>4, <2>5, <2>6 DEF WorkStep
<1>. QED
  BY <1>0, <1>2, <1>3, <1>4, <1>5

LEMMA WorkCarries ==
  ASSUME CarryInv, NEW w \in Workers, WorkStep(w)
  PROVE  BuildingIsCarried' /\ DownIsEmpty'
<1>1. CASE Take(w)
  BY <1>1, TakeCarries
<1>2. CASE ~Take(w)
  <2> USE DEF CarryInv
  <2>0. TypeOK
    BY DEF FiledInv
  <2>1. \A b \in Builds : Queued(b) => Queued(b)'
    BY <1>2, <2>0, WorkOutcome DEF Queued
  <2>2. BuildingIsCarried'
    <3> SUFFICES ASSUME NEW b \in Builds, b \notin disrupted', row'[b] = "building",
                        ~TemplateGone(b)'
                 PROVE  Carried(b)'
      BY DEF BuildingIsCarried
    <3>0. ~TemplateGone(b)
      BY <1>2, <2>0, WorkOutcome
    <3>1. CASE work[w].id # b \/ (work[w].at \notin UndecidedPlaces /\ UNCHANGED row)
      <4>1. Carried(b)
        BY <1>2, <2>0, <3>0, <3>1, WorkOutcome DEF BuildingIsCarried
      <4>. QED
        BY <1>2, <2>0, <2>1, <3>1, <4>1, WorkOutcome, OtherWorkers
    <3>2. CASE work'[w].at \in UndecidedPlaces /\ work'[w].id = b
      BY <3>2 DEF Carried, CarriedByWorker
    <3>3. \/ work[w].id # b \/ (work[w].at \notin UndecidedPlaces /\ UNCHANGED row)
          \/ work'[w].at \in UndecidedPlaces /\ work'[w].id = b
      <4>1. CASE work[w].id = b
        BY <1>2, <2>0, <4>1, WorkOutcome
      <4>. QED
        BY <4>1
    <3>. QED
      BY <3>1, <3>2, <3>3
  <2>3. DownIsEmpty'
    BY <1>2, <2>0, WorkOutcome DEF DownIsEmpty
  <2>. QED
    BY <2>2, <2>3
<1>. QED
  BY <1>1, <1>2

(* A step that leaves goroutines, queue and workers alone carries on. *)
LEMMA StillCarried ==
  ASSUME NEW b \in Builds, UNCHANGED <<start, workQueue, work>>, Carried(b)
  PROVE  Carried(b)'
BY DEF Carried, CarriedByStarter, CarriedByWorker, Queued

LEMMA CarryStep == CarryInv /\ [Next]_vars => CarryInv'
<1> SUFFICES ASSUME CarryInv, [Next]_vars PROVE CarryInv'
  OBVIOUS
<1> USE DEF CarryInv
<1>0. TypeOK
  BY DEF FiledInv
<1>1. FiledInv'
  BY FiledStep
<1>2. CASE Boot
  <2>. DEFINE job == [id |-> builtBy[Base], of |-> Base]
  <2>1. DownIsEmpty'
    BY <1>2 DEF Boot, DownIsEmpty
  <2>2. ASSUME NEW b \in Builds, b \notin disrupted', row'[b] = "building", ~TemplateGone(b)'
        PROVE  Carried(b)'
    <3>1. CASE workQueue' = <<job>> /\ b = builtBy[Base]
      <4>1. 1 \in DOMAIN workQueue' /\ workQueue'[1].id = b
        BY <3>1
      <4>. QED
        BY <4>1 DEF Carried, Queued
    <3>2. CASE ~(workQueue' = <<job>> /\ b = builtBy[Base])
      <4>1. row[b] = "building" /\ b \notin disrupted
        BY <1>0, <1>2, <2>2, <3>2, BuildsAssumption DEF Boot, TypeOK
      <4>2. ~TemplateGone(b)
        BY <1>2, <2>2 DEF Boot, templateVars, TemplateGone
      <4>3. Carried(b) /\ ~Queued(b)
        BY <1>2, <4>1, <4>2 DEF Boot, DownIsEmpty, BuildingIsCarried, Queued
      <4>. QED
        BY <1>2, <4>3 DEF Boot, Carried, CarriedByStarter, CarriedByWorker
    <3>. QED
      BY <3>1, <3>2
  <2>. QED
    BY <1>1, <2>1, <2>2 DEF BuildingIsCarried
<1>3. CASE Restart
  <2>1. DownIsEmpty'
    BY <1>3 DEF Restart, DownIsEmpty
  <2>2. ASSUME NEW b \in Builds, Carried(b) PROVE b \in disrupted'
    <3>1. Starting(b) \/ Queued(b) \/ Working(b)
      BY <2>2 DEF Carried, CarriedByStarter, CarriedByWorker, Starting, Working, Idle,
                  ClaimedPlaces, UndecidedPlaces
    <3>. QED
      BY <1>3, <3>1 DEF Restart
  <2>3. UNCHANGED <<row, templateRow, filed>> /\ disrupted \subseteq disrupted'
    BY <1>3 DEF Restart, databaseVars, templateVars
  <2>4. BuildingIsCarried'
    BY <2>2, <2>3 DEF BuildingIsCarried, TemplateGone
  <2>. QED
    BY <1>1, <2>1, <2>4
<1>4. ASSUME NEW c \in Builds, CreateTemplate(c) \/ DeleteTemplate(c) PROVE CarryInv'
  <2>1. UNCHANGED <<start, workQueue, work, disrupted, server>>
    BY <1>4 DEF CreateTemplate, DeleteTemplate
  <2>2. \A b \in Builds : row'[b] = "building" => row[b] = "building"
    BY <1>0, <1>4 DEF CreateTemplate, DeleteTemplate, TypeOK
  <2>3. \A b \in Builds : TemplateGone(b) => TemplateGone(b)'
    <3>1. UNCHANGED filed
      BY <1>4 DEF CreateTemplate, DeleteTemplate
    <3>2. \A b, t \in Builds :
            <<b, t>> \in filed /\ templateRow[t] = "deleted" => templateRow'[t] = "deleted"
      <4>1. CASE DeleteTemplate(c)
        BY <1>0, <4>1 DEF DeleteTemplate, TypeOK
      <4>2. CASE CreateTemplate(c)
        BY <1>0, <4>2 DEF CreateTemplate, TypeOK
      <4>. QED
        BY <1>4, <4>1, <4>2
    <3>. QED
      BY <3>1, <3>2 DEF TemplateGone
  <2>4. BuildingIsCarried'
    BY <2>1, <2>2, <2>3, StillCarried DEF BuildingIsCarried
  <2>. QED
    BY <1>1, <2>1, <2>4 DEF DownIsEmpty
<1>5. ASSUME NEW r \in Starters, StartStep(r) PROVE CarryInv'
  BY <1>1, <1>5, StartCarries
<1>6. ASSUME NEW r \in Starters, NEW c \in Builds, NEW t \in Builds, StartBuildV2(r, c, t) PROVE CarryInv'
  <2>1. /\ UNCHANGED <<row, workQueue, work, disrupted, server>>
        /\ start[r] = Idle /\ server = "up"
        /\ \A q \in Starters \ {r} : start'[q] = start[q]
    BY <1>0, <1>6 DEF StartBuildV2, StartUnchanged, TypeOK
  <2>2. start[r].at \notin ClaimedPlaces
    BY <2>1 DEF Idle, ClaimedPlaces
  <2>3. \A b \in Builds : Queued(b) => Queued(b)'
    BY <2>1 DEF Queued
  <2>4. \A b \in Builds : Carried(b) => Carried(b)'
    BY <2>1, <2>2, <2>3, OtherStarters
  <2>5. \A b \in Builds : TemplateGone(b) => TemplateGone(b)'
    BY <1>6 DEF StartBuildV2, StartUnchanged, templateVars, TemplateGone
  <2>6. BuildingIsCarried'
    BY <2>1, <2>4, <2>5 DEF BuildingIsCarried
  <2>. QED
    BY <1>1, <2>1, <2>6 DEF DownIsEmpty
<1>7. ASSUME NEW w \in Workers, WorkStep(w) PROVE CarryInv'
  BY <1>1, <1>7, WorkCarries
<1>8. CASE UNCHANGED vars
  BY <1>1, <1>8, StillCarried
     DEF vars, databaseVars, templateVars, BuildingIsCarried, DownIsEmpty, TemplateGone
<1>. QED
  BY <1>2, <1>3, <1>4, <1>5, <1>6, <1>7, <1>8 DEF Next

LEMMA CarryInit == Init => CarryInv
<1> SUFFICES ASSUME Init PROVE CarryInv
  OBVIOUS
<1>1. \A b \in Builds : row[b] # "building"
  BY DEF Init
<1>. QED
  BY <1>1, FiledInit DEF Init, CarryInv, BuildingIsCarried, DownIsEmpty

(* No build is forgotten: one whose row says building is in somebody's hands,
   however requests, workers and a full queue interleave, unless a template under
   whose path it was started has been deleted. *)
THEOREM NoneForgottenHolds == Spec => []NoneForgotten
<1>1. CarryInv => NoneForgotten
  <2> SUFFICES ASSUME CarryInv, NEW b \in Builds \ disrupted, row[b] = "building"
               PROVE  Starting(b) \/ Queued(b) \/ Working(b) \/ TemplateGone(b)
    BY DEF NoneForgotten
  <2>. QED
    BY DEF CarryInv, BuildingIsCarried, Carried, CarriedByStarter, CarriedByWorker, Starting,
           Working, Idle, ClaimedPlaces, UndecidedPlaces
<1>2. Spec => []CarryInv
  BY CarryInit, CarryStep, PTL DEF Spec
<1>. QED
  BY <1>1, <1>2, PTL

-----------------------------------------------------------------------------
(* Why an outcome stays.  As long as no two requests have been starting a
   build together, at most one goroutine, place in the queue or worker is on
   it, and none of them once the outcome is written, but for the worker that
   wrote it. *)
StarterOn(r, b) == start[r] # Idle /\ start[r].id = b
WorkerOn(w, b) == work[w] # Idle /\ work[w].id = b
TailPlaces == {"publish", "blame", "cleanup"}

Lone(b) ==
  /\ \A q, r \in Starters : StarterOn(q, b) /\ StarterOn(r, b) => q = r
  /\ \A i, j \in DOMAIN workQueue : workQueue[i].id = b /\ workQueue[j].id = b => i = j
  /\ \A v, w \in Workers : WorkerOn(v, b) /\ WorkerOn(w, b) => v = w
  /\ \A r \in Starters : StarterOn(r, b) => ~Queued(b)
  /\ \A r \in Starters, w \in Workers : ~(StarterOn(r, b) /\ WorkerOn(w, b))
  /\ \A w \in Workers : WorkerOn(w, b) => ~Queued(b)

(* A build that waits is at most about to be claimed. *)
Fresh(b) ==
  row[b] \in {"absent", "waiting"} =>
    /\ ~Queued(b)
    /\ \A w \in Workers : ~WorkerOn(w, b)
    /\ \A r \in Starters : StarterOn(r, b) => start[r].at = "claim"

Settled(b) ==
  row[b] \in Final =>
    /\ ~Queued(b)
    /\ \A r \in Starters : ~StarterOn(r, b)
    /\ \A w \in Workers : WorkerOn(w, b) => work[w].at \in TailPlaces

DownIsIdle ==
  server # "up" => /\ workQueue = <<>>
                   /\ \A r \in Starters : start[r] = Idle
                   /\ \A w \in Workers : work[w] = Idle

OutcomeInv == /\ TypeOK
              /\ DownIsIdle
              /\ \A b \in Builds : Fresh(b)
              /\ \A b \in Builds \ raced : Lone(b) /\ Settled(b)

(* What a goroutine's step does to the build it is on. *)
LEMMA StarterEffect ==
  ASSUME TypeOK, NEW r \in Starters, StartStep(r)
  PROVE  /\ start[r] # Idle /\ start[r].id \in Builds
         /\ \A q \in Starters \ {r} : start'[q] = start[q]
         /\ \A b \in Builds : b # start[r].id => row'[b] = row[b]
         /\ UNCHANGED <<work, server, raced>>
         /\ \/ start'[r] = Idle
            \/ /\ start'[r] # Idle /\ start'[r].id = start[r].id
               /\ start[r].at = "claim" => row'[start[r].id] \in {"building", "deleted"}
         /\ \/ UNCHANGED workQueue
            \/ /\ workQueue' = Append(workQueue, Job(r))
               /\ start'[r] = Idle /\ start[r].at # "claim" /\ UNCHANGED row
         /\ \/ UNCHANGED row
            \/ row'[start[r].id] \in {"building", "deleted"}
            \/ start'[r] = Idle /\ UNCHANGED workQueue /\ start[r].at # "claim"
               /\ row'[start[r].id] = "error"
<1> USE DEF StartUnchanged
<1>1. start[r] \in [at: StartPlaces, id: Builds, of: Builds] /\ start[r] # Idle
  BY StarterIsOnBuild
     DEF StartStep, Claim, Admit, MarkBuilding, Enqueue, Reject, StartPlaces
<1>2. start'[r] = Idle \/ (start'[r] # Idle /\ start'[r].id = start[r].id)
  BY <1>1 DEF StartStep, Claim, Admit, MarkBuilding, Enqueue, Reject, StartGoto, StartEnds,
              TypeOK, Idle, StartAt, StartPlaces
<1>3. UNCHANGED <<work, server, raced>>
  BY DEF StartStep, Claim, Admit, MarkBuilding, Enqueue, Reject
<1>4. CASE Claim(r)
  <2>1. \/ row'[start[r].id] \in {"building", "deleted"} /\ start'[r] # Idle
        \/ UNCHANGED row /\ start'[r] = Idle
    BY <1>1, <1>4 DEF Claim, StartGoto, StartEnds, Write, TypeOK, Idle
  <2>. QED
    BY <1>1, <1>2, <1>3, <1>4, <2>1, StartFrame DEF Claim
<1>5. CASE Admit(r) \/ MarkBuilding(r)
  <2>1. UNCHANGED row \/ row'[start[r].id] \in {"building", "deleted"}
    BY <1>1, <1>5 DEF Admit, MarkBuilding, Write, TypeOK
  <2>2. start[r].at # "claim" /\ UNCHANGED workQueue
    BY <1>5 DEF Admit, MarkBuilding, StartAt
  <2>. QED
    BY <1>1, <1>2, <1>3, <2>1, <2>2, StartFrame
<1>6. CASE Enqueue(r)
  <2>1. UNCHANGED row /\ start[r].at # "claim"
    BY <1>6 DEF Enqueue, StartAt
  <2>2. \/ UNCHANGED workQueue
        \/ workQueue' = Append(workQueue, Job(r)) /\ start'[r] = Idle
    BY <1>6 DEF Enqueue, StartEnds, TypeOK
  <2>. QED
    BY <1>1, <1>2, <1>3, <2>1, <2>2, StartFrame
<1>7. CASE Reject(r)
  <2>1. start[r].at # "claim" /\ UNCHANGED workQueue /\ start'[r] = Idle
    BY <1>7 DEF Reject, StartAt, StartEnds, TypeOK
  <2>2. UNCHANGED row \/ row'[start[r].id] \in {"deleted", "error"}
    BY <1>1, <1>7 DEF Reject, UpdateBuild, Write, TypeOK
  <2>. QED
    BY <1>1, <1>2, <1>3, <2>1, <2>2, StartFrame
<1>. QED
  BY <1>4, <1>5, <1>6, <1>7 DEF StartStep

(* What a worker's step does to the build it is on. *)
LEMMA WorkerEffect ==
  ASSUME TypeOK, NEW w \in Workers, WorkStep(w), ~Take(w)
  PROVE  /\ work[w] # Idle /\ work[w].id \in Builds
         /\ \A v \in Workers \ {w} : work'[v] = work[v]
         /\ \A b \in Builds : b # work[w].id => row'[b] = row[b]
         /\ UNCHANGED <<workQueue, start, server, raced>>
         /\ \/ work'[w] = Idle
            \/ /\ work'[w] # Idle /\ work'[w].id = work[w].id
               /\ work[w].at \in TailPlaces => work'[w].at \in TailPlaces
         /\ \/ UNCHANGED row
            \/ /\ row'[work[w].id] \in Final \cup {"deleted"}
               /\ work'[w].at \in TailPlaces /\ work[w].at \notin TailPlaces
<1> USE DEF WorkUnchanged, databaseVars
<1>1. work[w] \in [at: WorkPlaces, id: Builds, of: Builds, own: BOOLEAN] /\ work[w] # Idle
  BY WorkerIsOnBuild
     DEF WorkStep, RunContainer, ExecuteSteps, Commit, MarkReady, Publish, MarkError, Blame,
         Cleanup, WorkPlaces
<1>2. UNCHANGED <<workQueue, start, server, raced>>
  BY DEF WorkStep, RunContainer, ExecuteSteps, Commit, MarkReady, Publish, MarkError, Blame,
         Cleanup
<1>3. \/ work'[w] = Idle
      \/ /\ work'[w] # Idle /\ work'[w].id = work[w].id
         /\ work[w].at \in TailPlaces => work'[w].at \in TailPlaces
  <2>1. CASE RunContainer(w) \/ ExecuteSteps(w) \/ Commit(w)
    BY <1>1, <2>1 DEF RunContainer, ExecuteSteps, Commit, WorkGoto, WorkAt, TailPlaces, TypeOK, Idle
  <2>2. CASE MarkReady(w) \/ MarkError(w) \/ Publish(w)
    BY <1>1, <2>2 DEF MarkReady, MarkError, Publish, WorkGoto, TailPlaces, TypeOK, Idle
  <2>3. CASE Blame(w) \/ Cleanup(w)
    BY <1>1, <2>3 DEF Blame, Cleanup, WorkGoto, TailPlaces, TypeOK, Idle
  <2>. QED
    BY <2>1, <2>2, <2>3 DEF WorkStep
<1>4. \/ UNCHANGED row
      \/ /\ row'[work[w].id] \in Final \cup {"deleted"}
         /\ work'[w].at \in TailPlaces /\ work[w].at \notin TailPlaces
  <2>1. CASE MarkReady(w)
    BY <1>1, <2>1 DEF MarkReady, UpdateBuild, Write, WorkGoto, WorkAt, TailPlaces, Final, TypeOK
  <2>2. CASE MarkError(w)
    BY <1>1, <2>2 DEF MarkError, UpdateBuild, Write, WorkGoto, WorkAt, TailPlaces, Final, TypeOK
  <2>3. CASE ~MarkReady(w) /\ ~MarkError(w)
    BY <2>3 DEF WorkStep, RunContainer, ExecuteSteps, Commit, Publish, Blame, Cleanup
  <2>. QED
    BY <2>1, <2>2, <2>3
<1>. QED
  BY <1>1, <1>2, <1>3, <1>4, WorkOutcome

LEMMA StarterSettles ==
  ASSUME OutcomeInv, TypeOK', NEW r \in Starters, StartStep(r)
  PROVE  OutcomeInv'
<1> USE DEF OutcomeInv, StarterOn, WorkerOn
<1>0. \A q \in Starters, b \in Builds : StarterOn(q, b)' => StarterOn(q, b)
  BY StarterEffect
<1>1. workQueue \in Seq(Jobs)
  BY DEF TypeOK
<1>2. DownIsIdle'
  BY StarterEffect DEF DownIsIdle
<1>3. ASSUME NEW b \in Builds, UNCHANGED workQueue \/ b # start[r].id
      PROVE  /\ Queued(b)' => Queued(b)
             /\ (\A i, j \in DOMAIN workQueue : workQueue[i].id = b /\ workQueue[j].id = b => i = j)
                => \A i, j \in DOMAIN workQueue' : workQueue'[i].id = b /\ workQueue'[j].id = b => i = j
  <2>1. CASE UNCHANGED workQueue
    BY <2>1 DEF Queued
  <2>2. CASE workQueue' = Append(workQueue, Job(r)) /\ b # start[r].id
    <3>0. Job(r).id # b
      BY <2>2 DEF Job
    <3>1. \A i \in DOMAIN workQueue' : workQueue'[i].id = b => i \in DOMAIN workQueue /\ workQueue[i].id = b
      BY <1>1, <2>2, <3>0, StarterEffect DEF Job, Jobs
    <3>. QED
      BY <3>1 DEF Queued
  <2>. QED
    BY <1>3, <2>1, <2>2, StarterEffect
<1>4. ASSUME NEW b \in Builds PROVE Fresh(b)'
  <2>1. CASE b # start[r].id
    BY <1>0, <1>3, <2>1, StarterEffect DEF Fresh
  <2>2. CASE b = start[r].id
    <3>1. SUFFICES ASSUME row'[b] \in {"absent", "waiting"} PROVE Fresh(b)'
      BY DEF Fresh
    <3>2. UNCHANGED row
      BY <2>2, <3>1, StarterEffect
    <3>3. StarterOn(r, b)
      BY <2>2, StarterEffect
    <3>4. start[r].at = "claim" /\ row[b] \in {"absent", "waiting"}
      BY <3>1, <3>2, <3>3 DEF Fresh
    <3>5. start'[r] = Idle /\ UNCHANGED workQueue
      BY <2>2, <3>1, <3>4, StarterEffect
    <3>6. ~Queued(b)' /\ \A v \in Workers : ~WorkerOn(v, b)'
      BY <1>3, <3>4, <3>5, StarterEffect DEF Fresh
    <3>7. \A q \in Starters : StarterOn(q, b)' => start'[q].at = "claim"
      BY <3>4, <3>5, StarterEffect DEF Fresh
    <3>. QED
      BY <3>6, <3>7 DEF Fresh
  <2>. QED
    BY <2>1, <2>2
<1>5. ASSUME NEW b \in Builds, b \notin raced' PROVE Lone(b)' /\ Settled(b)'
  <2>0. Lone(b) /\ Settled(b) /\ UNCHANGED <<work, raced>>
    BY <1>5, StarterEffect
  <2>1. CASE b # start[r].id
    <3>1. Lone(b)'
      BY <1>0, <1>3, <2>0, <2>1 DEF Lone
    <3>2. Settled(b)'
      BY <1>0, <1>3, <2>0, <2>1, StarterEffect DEF Settled
    <3>. QED
      BY <3>1, <3>2
  <2>2. CASE b = start[r].id
    <3>1. /\ StarterOn(r, b) /\ ~Queued(b)
          /\ \A q \in Starters \ {r} : ~StarterOn(q, b)
          /\ \A v \in Workers : ~WorkerOn(v, b)
          /\ row[b] \notin Final
      BY <2>0, <2>2, StarterEffect DEF Lone, Settled
    <3>2. /\ \A q \in Starters \ {r} : ~StarterOn(q, b)'
          /\ \A v \in Workers : ~WorkerOn(v, b)'
      BY <1>0, <2>0, <3>1
    <3>3. CASE UNCHANGED workQueue
      <4>1. ~Queued(b)'
        BY <1>3, <3>1, <3>3
      <4>2. Lone(b)'
        BY <3>2, <4>1 DEF Lone, Queued
      <4>3. row'[b] \in Final => start'[r] = Idle
        BY <2>2, <3>1, StarterEffect DEF Final
      <4>4. Settled(b)'
        BY <3>2, <4>1, <4>3 DEF Settled
      <4>. QED
        BY <4>2, <4>4
    <3>4. CASE workQueue' = Append(workQueue, Job(r)) /\ start'[r] = Idle /\ UNCHANGED row
      <4>1. \A i \in DOMAIN workQueue' : workQueue'[i].id = b => i = Len(workQueue) + 1
        BY <1>1, <3>1, <3>4 DEF Queued
      <4>2. \A q \in Starters : ~StarterOn(q, b)'
        BY <3>2, <3>4
      <4>3. Lone(b)'
        BY <3>2, <4>1, <4>2 DEF Lone
      <4>4. Settled(b)'
        BY <3>1, <3>4 DEF Settled
      <4>. QED
        BY <4>3, <4>4
    <3>. QED
      BY <2>2, <3>3, <3>4, StarterEffect
  <2>. QED
    BY <2>1, <2>2
<1>. QED
  BY <1>2, <1>4, <1>5

LEMMA TakeSettles ==
  ASSUME OutcomeInv, TypeOK', NEW w \in Workers, Take(w)
  PROVE  OutcomeInv'
<1> USE DEF OutcomeInv, StarterOn, WorkerOn
<1>. DEFINE h == Head(workQueue).id
<1>1. /\ work[w] = Idle /\ workQueue # <<>> /\ workQueue' = Tail(workQueue)
      /\ workQueue \in Seq(Jobs)
      /\ work' = [work EXCEPT ![w] = [at |-> "run", id |-> h, of |-> Head(workQueue).of, own |-> FALSE]]
      /\ UNCHANGED <<row, start, server, raced>>
  BY DEF Take, WorkUnchanged, databaseVars, TypeOK
<1>2. /\ work'[w] # Idle /\ work'[w].id = h /\ h \in Builds
      /\ \A v \in Workers \ {w} : work'[v] = work[v]
  BY <1>1 DEF TypeOK, Idle
<1>3. Queued(h)
  <2>1. 1 \in DOMAIN workQueue /\ workQueue[1].id = h
    BY <1>1
  <2>. QED
    BY <2>1 DEF Queued
<1>4. \A i \in DOMAIN workQueue' : i + 1 \in DOMAIN workQueue /\ workQueue'[i] = workQueue[i + 1]
  BY <1>1
<1>5. \A b \in Builds : Queued(b)' => Queued(b)
  BY <1>4 DEF Queued
<1>6. DownIsIdle'
  BY <1>1 DEF DownIsIdle
<1>7. ASSUME NEW b \in Builds PROVE Fresh(b)'
  BY <1>1, <1>2, <1>3, <1>5 DEF Fresh
<1>8. ASSUME NEW b \in Builds, b \notin raced' PROVE Lone(b)' /\ Settled(b)'
  <2>0. Lone(b) /\ Settled(b)
    BY <1>1, <1>8
  <2>1. \A i, j \in DOMAIN workQueue' : workQueue'[i].id = b /\ workQueue'[j].id = b => i = j
    <3> SUFFICES ASSUME NEW i \in DOMAIN workQueue', NEW j \in DOMAIN workQueue',
                        workQueue'[i].id = b, workQueue'[j].id = b
                 PROVE  i = j
      OBVIOUS
    <3>1. i + 1 = j + 1
      BY <1>4, <2>0 DEF Lone
    <3>2. i \in Nat /\ j \in Nat
      BY <1>1
    <3>. QED
      BY <3>1, <3>2
  <2>2. CASE b # h
    BY <1>1, <1>2, <1>5, <2>0, <2>1, <2>2 DEF Lone, Settled
  <2>3. CASE b = h
    <3>1. /\ \A r \in Starters : ~StarterOn(r, b)'
          /\ \A v \in Workers \ {w} : ~WorkerOn(v, b)'
          /\ row'[b] \notin Final
      BY <1>1, <1>2, <1>3, <2>0, <2>3 DEF Lone, Settled
    <3>2. ~Queued(b)'
      <4> SUFFICES ASSUME NEW i \in DOMAIN workQueue', workQueue'[i].id = b PROVE FALSE
        BY DEF Queued
      <4>1. i + 1 \in DOMAIN workQueue /\ workQueue[i + 1].id = b /\ 1 \in DOMAIN workQueue
            /\ workQueue[1].id = b /\ i \in Nat /\ i # 0
        BY <1>1, <1>4, <2>3
      <4>2. i + 1 = 1
        BY <2>0, <4>1 DEF Lone
      <4>. QED
        BY <4>1, <4>2
    <3>. QED
      BY <2>1, <3>1, <3>2 DEF Lone, Settled
  <2>. QED
    BY <2>2, <2>3
<1>. QED
  BY <1>6, <1>7, <1>8

LEMMA WorkerSettles ==
  ASSUME OutcomeInv, TypeOK', NEW w \in Workers, WorkStep(w), ~Take(w)
  PROVE  OutcomeInv'
<1> USE DEF OutcomeInv, StarterOn, WorkerOn
<1>0. \A v \in Workers, b \in Builds : WorkerOn(v, b)' => WorkerOn(v, b)
  BY WorkerEffect
<1>1. \A b \in Builds : Queued(b)' <=> Queued(b)
  BY WorkerEffect DEF Queued
<1>2. DownIsIdle'
  BY WorkerEffect DEF DownIsIdle
<1>3. ASSUME NEW b \in Builds PROVE Fresh(b)'
  <2>1. row'[b] \in {"absent", "waiting"} => row[b] \in {"absent", "waiting"}
    BY WorkerEffect DEF Final
  <2>. QED
    BY <1>0, <1>1, <2>1, WorkerEffect DEF Fresh
<1>4. ASSUME NEW b \in Builds, b \notin raced' PROVE Lone(b)' /\ Settled(b)'
  <2>0. Lone(b) /\ Settled(b) /\ UNCHANGED <<start, workQueue, raced>>
    BY <1>4, WorkerEffect
  <2>1. Lone(b)'
    BY <1>0, <1>1, <2>0 DEF Lone
  <2>2. Settled(b)'
    <3>1. CASE b # work[w].id
      BY <1>0, <1>1, <2>0, <3>1, WorkerEffect DEF Settled
    <3>2. CASE b = work[w].id /\ row'[b] = row[b]
      BY <1>0, <1>1, <2>0, <3>2, WorkerEffect DEF Settled
    <3>3. CASE b = work[w].id /\ row'[b] # row[b]
      <4>1. WorkerOn(w, b) /\ work'[w].at \in TailPlaces
        BY <3>3, WorkerEffect
      <4>2. /\ ~Queued(b)' /\ \A r \in Starters : ~StarterOn(r, b)'
            /\ \A v \in Workers \ {w} : ~WorkerOn(v, b)'
        BY <1>0, <1>1, <2>0, <4>1 DEF Lone
      <4>. QED
        BY <4>1, <4>2 DEF Settled
    <3>. QED
      BY <3>1, <3>2, <3>3
  <2>. QED
    BY <2>1, <2>2
<1>. QED
  BY <1>2, <1>3, <1>4

(* A second request for a build that is being started is what raced records. *)
LEMMA RequestSettles ==
  ASSUME OutcomeInv, TypeOK', NEW r \in Starters, NEW c \in Builds, NEW t \in Builds, StartBuildV2(r, c, t)
  PROVE  OutcomeInv'
<1> USE DEF OutcomeInv, StarterOn, WorkerOn
<1>1. /\ server = "up" /\ start[r] = Idle /\ row[c] = "waiting"
      /\ raced' = IF Starting(c) THEN raced \cup {c} ELSE raced
      /\ UNCHANGED <<row, workQueue, work, server>>
      /\ \A q \in Starters \ {r} : start'[q] = start[q]
      /\ start'[r] # Idle /\ start'[r].id = c /\ start'[r].at = "claim"
  BY DEF StartBuildV2, StartUnchanged, TypeOK, Idle
<1>2. \A b \in Builds : Queued(b)' <=> Queued(b)
  BY <1>1 DEF Queued
<1>3. ASSUME NEW b \in Builds PROVE Fresh(b)'
  BY <1>1, <1>2 DEF Fresh
<1>4. ASSUME NEW b \in Builds, b \notin raced' PROVE Lone(b)' /\ Settled(b)'
  <2>0. Lone(b) /\ Settled(b) /\ b \notin raced
    BY <1>1, <1>4
  <2>1. CASE b # c
    BY <1>1, <1>2, <2>0, <2>1 DEF Lone, Settled
  <2>2. CASE b = c
    <3>1. \A q \in Starters : ~StarterOn(q, b)
      BY <1>1, <1>4, <2>2 DEF Starting
    <3>2. ~Queued(b) /\ \A v \in Workers : ~WorkerOn(v, b)
      BY <1>1, <2>2 DEF Fresh
    <3>. QED
      BY <1>1, <1>2, <2>0, <2>2, <3>1, <3>2 DEF Lone, Settled, Final
  <2>. QED
    BY <2>1, <2>2
<1>5. DownIsIdle'
  BY <1>1 DEF DownIsIdle
<1>. QED
  BY <1>3, <1>4, <1>5

LEMMA OutcomeStep == OutcomeInv /\ [Next]_vars => OutcomeInv'
<1> SUFFICES ASSUME OutcomeInv, [Next]_vars PROVE OutcomeInv'
  OBVIOUS
<1> USE DEF OutcomeInv
<1>0. TypeOK'
  BY TypeStep
<1>1. CASE Boot
  <2>1. workQueue = <<>> /\ (\A r \in Starters : start[r] = Idle) /\ \A w \in Workers : work[w] = Idle
    BY <1>1 DEF Boot, DownIsIdle
  <2>2. UNCHANGED <<start, work, raced>>
    BY <1>1 DEF Boot
  <2>3. \A b \in Builds : /\ \A r \in Starters : ~StarterOn(r, b)'
                          /\ \A w \in Workers : ~WorkerOn(w, b)'
    BY <2>1, <2>2 DEF StarterOn, WorkerOn
  <2>4. CASE /\ server' = "up" /\ workQueue' = <<[id |-> builtBy[Base], of |-> Base]>>
             /\ row' = [row EXCEPT ![builtBy[Base]] = "building"]
    <3>1. \A b \in Builds : Queued(b)' => b = builtBy[Base]
      BY <2>4 DEF Queued
    <3>2. /\ row'[builtBy[Base]] = "building"
          /\ \A b \in Builds \ {builtBy[Base]} : row'[b] = row[b]
      BY <2>4, BuildsAssumption DEF TypeOK
    <3>3. \A i, j \in DOMAIN workQueue' : i = j
      BY <2>4
    <3>. QED
      BY <1>0, <2>3, <2>4, <3>1, <3>2, <3>3 DEF DownIsIdle, Fresh, Lone, Settled, Final
  <2>5. CASE UNCHANGED <<row, workQueue>>
    <3>1. \A b \in Builds : ~Queued(b)'
      BY <2>1, <2>5 DEF Queued
    <3>. QED
      BY <1>0, <2>1, <2>2, <2>3, <2>5, <3>1 DEF DownIsIdle, Fresh, Lone, Settled
  <2>. QED
    BY <1>1, <2>4, <2>5 DEF Boot
<1>2. CASE Restart
  <2>1. workQueue' = <<>> /\ (\A r \in Starters : start'[r] = Idle) /\ \A w \in Workers : work'[w] = Idle
    BY <1>2 DEF Restart
  <2>2. \A b \in Builds : ~Queued(b)'
    BY <2>1 DEF Queued
  <2>. QED
    BY <1>0, <2>1, <2>2 DEF DownIsIdle, Fresh, Lone, Settled, StarterOn, WorkerOn
<1>3. ASSUME NEW c \in Builds, CreateTemplate(c) \/ DeleteTemplate(c) PROVE OutcomeInv'
  <2>1. UNCHANGED <<start, workQueue, work, server, raced>>
    BY <1>3 DEF CreateTemplate, DeleteTemplate
  <2>2. \A b \in Builds : /\ row'[b] \in {"absent", "waiting"} => row[b] \in {"absent", "waiting"}
                          /\ row'[b] \in Final => row[b] \in Final
    BY <1>3 DEF CreateTemplate, DeleteTemplate, TypeOK, Final
  <2>3. \A b \in Builds : Queued(b)' <=> Queued(b)
    BY <2>1 DEF Queued
  <2>4. \A b \in Builds : Fresh(b)'
    BY <2>1, <2>2, <2>3 DEF Fresh, StarterOn, WorkerOn
  <2>5. \A b \in Builds \ raced' : Lone(b)' /\ Settled(b)'
    BY <2>1, <2>2, <2>3 DEF Lone, Settled, StarterOn, WorkerOn
  <2>. QED
    BY <1>0, <2>1, <2>4, <2>5 DEF DownIsIdle
<1>4. CASE UNCHANGED vars
  BY <1>0, <1>4 DEF vars, databaseVars, DownIsIdle, Fresh, Lone, Settled, StarterOn, WorkerOn, Queued
<1>. QED
  BY <1>0, <1>1, <1>2, <1>3, <1>4, StarterSettles, TakeSettles, WorkerSettles, RequestSettles DEF Next

LEMMA OutcomeInit == Init => OutcomeInv
<1> SUFFICES ASSUME Init PROVE OutcomeInv
  OBVIOUS
<1>1. \A b \in Builds : ~Queued(b)
  BY DEF Init, Queued
<1>. QED
  BY <1>1, TypeInit
     DEF Init, OutcomeInv, DownIsIdle, Fresh, Lone, Settled, StarterOn, WorkerOn

(* The step of OutcomeStays, by name. *)
OutcomesStay ==
  \A b \in Builds \ raced : row[b] \in Final => row'[b] \in {row[b], "deleted"}

LEMMA OutcomeKept == OutcomeInv /\ [Next]_vars => OutcomesStay
<1> SUFFICES ASSUME OutcomeInv, [Next]_vars, NEW b \in Builds \ raced, row[b] \in Final
             PROVE  row'[b] \in {row[b], "deleted"}
  BY DEF OutcomesStay
<1>0. TypeOK /\ Settled(b)
  BY DEF OutcomeInv
<1>1. CASE Boot
  BY <1>0, <1>1, BuildsAssumption DEF Boot, TypeOK, Final
<1>2. ASSUME NEW c \in Builds, CreateTemplate(c) \/ DeleteTemplate(c)
      PROVE  row'[b] \in {row[b], "deleted"}
  BY <1>0, <1>2 DEF CreateTemplate, DeleteTemplate, TypeOK, Final
<1>3. ASSUME NEW r \in Starters, StartStep(r) PROVE row'[b] \in {row[b], "deleted"}
  BY <1>0, <1>3, StarterEffect DEF Settled, StarterOn
<1>4. ASSUME NEW w \in Workers, WorkStep(w), ~Take(w) PROVE row'[b] \in {row[b], "deleted"}
  BY <1>0, <1>4, WorkerEffect DEF Settled, WorkerOn
<1>5. ASSUME NEW w \in Workers, Take(w) PROVE row'[b] \in {row[b], "deleted"}
  BY <1>5 DEF Take, databaseVars
<1>6. ASSUME NEW r \in Starters, NEW c \in Builds, NEW t \in Builds, StartBuildV2(r, c, t)
      PROVE  row'[b] \in {row[b], "deleted"}
  BY <1>6 DEF StartBuildV2
<1>7. CASE Restart \/ UNCHANGED vars
  BY <1>7 DEF Restart, vars, databaseVars
<1>. QED
  BY <1>1, <1>2, <1>3, <1>4, <1>5, <1>6, <1>7 DEF Next

(* The outcome of a build stays as it was written, unless two requests had
   started it together. *)
THEOREM OutcomesHold == Spec => OutcomeStays
<1>1. OutcomeInv /\ [Next]_vars => [OutcomesStay]_vars
  BY OutcomeKept
<1>2. [][OutcomesStay]_vars => OutcomeStays
  BY PTL DEF OutcomeStays, OutcomesStay
<1>. QED
  BY <1>1, <1>2, OutcomeInit, OutcomeStep, PTL DEF Spec
=============================================================================
