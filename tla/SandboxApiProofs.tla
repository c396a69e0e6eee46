--------------------------- MODULE SandboxApiProofs ---------------------------
(***************************************************************************)
(* Theorems about the sandbox handlers, for any number of requests and     *)
(* sandboxes, any nodes and any number of restarts of the API server.      *)
(***************************************************************************)
EXTENDS SandboxApi, TLAPS

Named(id) == record[id] # "none" \/ id \in failedStops

Unheard(op, id) == <<op, id>> \in unheard

\* What makes Traceable inductive: what is alive, or about to be, is named by a
\* row or by a failed stop; what runs is alive, was, or its creation went unheard;
\* a row that is about to go has nothing else behind it.
UnbornRunsNothing ==
  \A id \in Ids : life[id] = "unborn" => container[id] = "none" \/ Unheard("create", id)
LivingIsNamed == \A id \in Ids : life[id] \in S!Alive => Named(id)
RunningIsKnown ==
  \A id \in Ids : container[id] # "none" =>
    life[id] \in S!Alive \/ Unheard("create", id) \/ (id \in forgotten /\ Named(id))
StartIsNamed ==
  \A r \in Requests : At(r, "schedule") /\ life[request[r].id] = "unborn" => Named(request[r].id)
ForgottenIsGone ==
  \A r \in Requests : At(r, "forget") \/ At(r, "cleanup") =>
    \/ request[r].id \in failedStops
    \/ /\ life[request[r].id] = "gone"
       /\ container[request[r].id] = "none" \/ Unheard("create", request[r].id)

TraceInv ==
  UnbornRunsNothing /\ LivingIsNamed /\ RunningIsKnown /\ StartIsNamed /\ ForgottenIsGone

\* What makes PausedIsFrozen inductive: a sandbox that is not disturbed has one
\* request at a time, and each place of that request says what the row and the
\* container can be; a start that is still on its way finds no row, or one whose
\* creation is about to remove it.
Thawed(id) == Unheard("resume", id) \/ id \in unfrozen

OneAtATime ==
  \A r, q \in Requests :
    request[r] # Idle /\ request[q] # Idle /\ request[r].id = request[q].id
      /\ request[r].id \notin disturbed => r = q
WorksOnRunning ==
  \A r \in Requests :
    (At(r, "schedule") \/ At(r, "freeze") \/ At(r, "markPaused")) /\ request[r].id \notin disturbed
      => record[request[r].id] = "running"
MarkedPausedIsFrozen ==
  \A r \in Requests : At(r, "markPaused") /\ request[r].id \notin disturbed =>
    container[request[r].id] # "running" \/ Thawed(request[r].id)
ListedPausedIsFrozen ==
  \A id \in Ids \ disturbed :
    record[id] = "paused" /\ container[id] = "running" =>
      Thawed(id) \/ \E r \in Requests : At(r, "markRunning") /\ request[r].id = id
LateStartsAreOver ==
  \A id \in Ids : <<"create", id>> \in late =>
    /\ life[id] # "unborn"
    /\ id \in disturbed \/ record[id] = "none" \/ /\ record[id] = "running"
                                                   /\ \E r \in Requests : At(r, "cleanup")
                                                                         /\ request[r].id = id

FrozenInv == /\ OneAtATime /\ WorksOnRunning /\ LateStartsAreOver
             /\ MarkedPausedIsFrozen /\ ListedPausedIsFrozen

-----------------------------------------------------------------------------
(* A handler that is not idle has a place and a sandbox. *)
LEMMA BusyShape ==
  ASSUME TypeOK, NEW r \in Requests
  PROVE  /\ request[r] # Idle => request[r] \in InProgress
         /\ request[r] # Idle => request[r].id \in Ids /\ request[r].at \in Places
         /\ \A at \in Places : At(r, at) => request[r] # Idle
  BY DEF TypeOK, InProgress, Places, Idle, At

(* What a command does to the container of its sandbox, and what is remembered
   of it. *)
LEMMA ExecutedEffect ==
  ASSUME TypeOK, NEW op \in Ops, NEW id \in Ids, Executed(op, id)
  PROVE  /\ container' \in [Ids -> {"none"} \cup S!Alive]
         /\ \A i \in Ids \ {id} : container'[i] = container[i]
         /\ op = "create" => container'[id] = "running"
         /\ op = "stop" => container'[id] = "none"
         /\ op = "pause" => container[id] # "none" /\ container'[id] = "paused"
         /\ op = "resume" => container[id] # "none" /\ container'[id] = "running"
  BY DEF Executed, Doable, Target, Ops, TypeOK, S!Alive

LEMMA SucceedsEffect ==
  ASSUME TypeOK, NEW op \in Ops, NEW id \in Ids, Succeeds(op, id)
  PROVE  /\ container' \in [Ids -> {"none"} \cup S!Alive]
         /\ UNCHANGED <<late, unheard>>
         /\ unfrozen \subseteq unfrozen' /\ unfrozen' \subseteq Ids
         /\ \A i \in Ids \ {id} : container'[i] = container[i]
         /\ op = "create" => container'[id] = "running"
         /\ op = "stop" => container'[id] = "none"
         /\ op = "pause" => \/ container[id] # "none" /\ container'[id] = "paused"
                            \/ container'[id] = container[id] /\ id \in unfrozen'
         /\ op = "resume" => \/ container[id] # "none" /\ container'[id] = "running"
                             \/ container'[id] = container[id] /\ id \in unfrozen'
<1>1. CASE Ignored(op, id)
  BY <1>1 DEF Succeeds, Ignored, TypeOK
<1>2. CASE ~Ignored(op, id)
  <2>1. Executed(op, id) /\ UNCHANGED <<late, unheard, unfrozen>>
    BY <1>2 DEF Succeeds
  <2>. QED
    BY <2>1, ExecutedEffect DEF TypeOK
<1>. QED
  BY <1>1, <1>2

LEMMA UnheardEffect ==
  ASSUME TypeOK, NEW op \in Ops, NEW id \in Ids, GoesUnheard(op, id)
  PROVE  /\ container' \in [Ids -> {"none"} \cup S!Alive]
         /\ late \subseteq late' /\ late' \subseteq late \cup {<<op, id>>}
         /\ unheard' = unheard \cup {<<op, id>>}
         /\ late' \subseteq unheard' /\ unheard' \subseteq Ops \X Ids
         /\ unfrozen' = unfrozen
         /\ \A i \in Ids \ {id} : container'[i] = container[i]
         /\ op = "stop" => container'[id] \in {"none", container[id]}
         /\ op = "pause" => \/ container[id] # "none" /\ container'[id] = "paused"
                            \/ container'[id] = container[id]
         /\ op = "resume" => \/ container[id] # "none" /\ container'[id] = "running"
                             \/ container'[id] = container[id]
<1>1. /\ late \subseteq late' /\ late' \subseteq late \cup {<<op, id>>}
      /\ unheard' = unheard \cup {<<op, id>>}
      /\ unfrozen' = unfrozen
  BY DEF GoesUnheard
<1>2. late' \subseteq unheard' /\ unheard' \subseteq Ops \X Ids
  BY <1>1 DEF TypeOK
<1>3. Executed(op, id) \/ container' = container
  BY DEF GoesUnheard
<1>. QED
  BY <1>1, <1>2, <1>3, ExecutedEffect DEF TypeOK

(* No container comes out of nothing but by a creation, and none is set running
   but by a creation or a resume; nothing that went unheard is forgotten. *)
NothingAppears ==
  \A i \in Ids : container'[i] # "none" => container[i] # "none" \/ Unheard("create", i)'
NothingThaws ==
  \A i \in Ids : container'[i] = "running" => container[i] = "running" \/ Thawed(i)'
NothingUnsaid == unheard \subseteq unheard' /\ unfrozen \subseteq unfrozen'

Errs(op, id) == UNCHANGED nodeVars \/ GoesUnheard(op, id)

LEMMA ErrsEffect ==
  ASSUME TypeOK, NEW op \in Ops, NEW id \in Ids, Errs(op, id)
  PROVE  /\ container' \in [Ids -> {"none"} \cup S!Alive]
         /\ late' \subseteq unheard' /\ unheard' \subseteq Ops \X Ids /\ unfrozen' \subseteq Ids
         /\ late' \subseteq late \cup {<<op, id>>}
         /\ NothingUnsaid /\ NothingAppears
         /\ op # "create" => NothingThaws
         /\ \A i \in Ids \ {id} : container'[i] = container[i]
<1>1. CASE UNCHANGED nodeVars
  BY <1>1 DEF nodeVars, TypeOK, NothingAppears, NothingThaws, NothingUnsaid
<1>2. CASE GoesUnheard(op, id)
  <2>1. NothingUnsaid
    BY <1>2, UnheardEffect DEF NothingUnsaid
  <2>2. NothingAppears
    BY <1>2, UnheardEffect DEF NothingAppears, Unheard, Ops
  <2>3. op # "create" => NothingThaws
    BY <1>2, UnheardEffect DEF NothingThaws, Thawed, Unheard, Ops
  <2>. QED
    BY <1>2, <2>1, <2>2, <2>3, UnheardEffect DEF TypeOK
<1>. QED
  BY <1>1, <1>2 DEF Errs

(* What an operation of the scheduler does. *)
LEMMA SchedulerEffect ==
  ASSUME TypeOK, NEW id \in Ids
  PROVE  /\ S!End(id) => /\ life' = [life EXCEPT ![id] = "gone"]
                         /\ place' \in [Ids -> Nodes \cup {NoNode}]
         /\ S!Freeze(id) => /\ life[id] = "running"
                            /\ life' = [life EXCEPT ![id] = "paused"]
                            /\ place' = place
         /\ S!Thaw(id) => /\ life[id] = "paused"
                          /\ life' = [life EXCEPT ![id] = "running"]
                          /\ place' = place
         /\ S!Refuse(id) => /\ life[id] = "unborn"
                            /\ life' = [life EXCEPT ![id] = "gone"]
                            /\ place' = place
         /\ \A n \in Nodes : S!Start(id, n) =>
              /\ life[id] = "unborn"
              /\ life' = [life EXCEPT ![id] = "running"]
              /\ place' \in [Ids -> Nodes \cup {NoNode}]
  BY DEF TypeOK, S!End, S!Freeze, S!Thaw, S!Refuse, S!Start

(* The expiration of a sandbox, whose outcome may go unheard. *)
LEMMA ExpireEffect ==
  ASSUME TypeOK, NEW id \in Ids, Expire(id)
  PROVE  /\ \/ life' = life
            \/ life[id] = "running" /\ life' = [life EXCEPT ![id] = "paused"]
            \/ life' = [life EXCEPT ![id] = "gone"] /\ container'[id] = "none"
         /\ place' \in [Ids -> Nodes \cup {NoNode}]
         /\ container' \in [Ids -> {"none"} \cup S!Alive]
         /\ late' \subseteq unheard' /\ unheard' \subseteq Ops \X Ids /\ unfrozen' \subseteq Ids
         /\ <<"create", id>> \in late' => <<"create", id>> \in late
         /\ \A i \in Ids \ {id}, op \in Ops : <<op, i>> \in late' => <<op, i>> \in late
         /\ NothingUnsaid /\ NothingAppears /\ NothingThaws
<1>1. CASE S!Freeze(id) /\ Succeeds("pause", id)
  <2>1. "pause" \in Ops
    BY DEF Ops
  <2>2. NothingUnsaid /\ NothingAppears /\ NothingThaws
    BY <1>1, <2>1, SucceedsEffect DEF NothingUnsaid, NothingAppears, NothingThaws
  <2>. QED
    BY <1>1, <2>1, <2>2, SucceedsEffect, SchedulerEffect DEF TypeOK
<1>2. CASE S!End(id) /\ Succeeds("stop", id)
  <2>1. "stop" \in Ops
    BY DEF Ops
  <2>2. NothingUnsaid /\ NothingAppears /\ NothingThaws
    BY <1>2, <2>1, SucceedsEffect DEF NothingUnsaid, NothingAppears, NothingThaws
  <2>. QED
    BY <1>2, <2>1, <2>2, SucceedsEffect, SchedulerEffect DEF TypeOK
<1>3. CASE (GoesUnheard("pause", id) \/ GoesUnheard("stop", id)) /\ UNCHANGED schedulerVars
  <2>1. PICK op \in {"pause", "stop"} : GoesUnheard(op, id)
    BY <1>3
  <2>2. op \in Ops /\ op # "create" /\ Errs(op, id)
    BY <2>1 DEF Ops, Errs
  <2>. QED
    BY <1>3, <2>2, ErrsEffect DEF TypeOK, schedulerVars
<1>. QED
  BY <1>1, <1>2, <1>3 DEF Expire

-----------------------------------------------------------------------------
LEMMA ArriveType ==
  ASSUME TypeOK, NEW r \in Requests, NEW id \in Ids, Arrive(r, id)
  PROVE  TypeOK'
<1>1. request' \in [Requests -> {Idle} \cup InProgress] /\ disturbed' \subseteq Ids
  BY DEF Arrive, CreateSandbox, DeleteSandbox, PauseSandbox, ResumeSandbox, ConnectSandbox,
         Begin, TypeOK, InProgress, Places
<1>2. record' \in [Ids -> {"none"} \cup S!Alive]
  BY DEF Arrive, CreateSandbox, DeleteSandbox, PauseSandbox, ResumeSandbox, ConnectSandbox,
         SetRecord, TypeOK, S!Alive
<1>3. UNCHANGED <<schedulerVars, nodeVars, restarts, failedStops, forgotten>>
  BY DEF Arrive, CreateSandbox, DeleteSandbox, PauseSandbox, ResumeSandbox, ConnectSandbox, Begin
<1>. QED
  BY <1>1, <1>2, <1>3 DEF TypeOK, schedulerVars, nodeVars

(* The calls of the handlers, by what the scheduler and the node make of them. *)
LEMMA CallShape ==
  ASSUME NEW r \in Requests, NEW id, id = request[r].id
  PROVE  /\ ScheduleCall(r) =>
              \/ (\E n \in Nodes : S!Start(id, n)) /\ Succeeds("create", id) /\ Answer(r)
              \/ S!Refuse(id) /\ Errs("create", id) /\ Goto(r, "cleanup")
         /\ StopCall(r) =>
              /\ Goto(r, "forget")
              /\ \/ S!End(id) /\ Succeeds("stop", id) /\ failedStops' = failedStops
                 \/ /\ Errs("stop", id)
                    /\ failedStops' = failedStops \cup {id}
                    /\ UNCHANGED schedulerVars
         /\ FreezeCall(r) =>
              \/ S!Freeze(id) /\ Succeeds("pause", id) /\ Goto(r, "markPaused")
              \/ Errs("pause", id) /\ UNCHANGED schedulerVars /\ Answer(r)
         /\ ThawCall(r) =>
              \/ S!Thaw(id) /\ Succeeds("resume", id) /\ Goto(r, "markRunning")
              \/ Errs("resume", id) /\ UNCHANGED schedulerVars /\ Answer(r)
<1>. USE DEF Errs, Fails
<1>1. ScheduleCall(r) =>
        \/ (\E n \in Nodes : S!Start(id, n)) /\ Succeeds("create", id) /\ Answer(r)
        \/ S!Refuse(id) /\ Errs("create", id) /\ Goto(r, "cleanup")
  BY DEF ScheduleCall
<1>2. StopCall(r) =>
        /\ Goto(r, "forget")
        /\ \/ S!End(id) /\ Succeeds("stop", id) /\ failedStops' = failedStops
           \/ /\ Errs("stop", id)
              /\ failedStops' = failedStops \cup {id}
              /\ UNCHANGED schedulerVars
  BY DEF StopCall
<1>3. FreezeCall(r) =>
        \/ S!Freeze(id) /\ Succeeds("pause", id) /\ Goto(r, "markPaused")
        \/ Errs("pause", id) /\ UNCHANGED schedulerVars /\ Answer(r)
  BY DEF FreezeCall
<1>4. ThawCall(r) =>
        \/ S!Thaw(id) /\ Succeeds("resume", id) /\ Goto(r, "markRunning")
        \/ Errs("resume", id) /\ UNCHANGED schedulerVars /\ Answer(r)
  BY DEF ThawCall
<1>. QED
  BY <1>1, <1>2, <1>3, <1>4

(* What becomes of the request. *)
LEMMA MovesOn ==
  ASSUME NEW r \in Requests, Proceed(r)
  PROVE  /\ disturbed' = disturbed
         /\ \/ request' = [request EXCEPT ![r] = Idle]
            \/ \E at \in {"cleanup", "forget", "markPaused", "markRunning"} :
                 request' = [request EXCEPT ![r].at = at]
  BY CallShape DEF Proceed, Forget, Mark, Goto, Answer

(* What the steps of a handler at work do to the scheduler and the nodes. *)
LEMMA ProceedNodes ==
  ASSUME TypeOK, NEW r \in Requests, Proceed(r)
  PROVE  /\ container' \in [Ids -> {"none"} \cup S!Alive]
         /\ late' \subseteq unheard' /\ unheard' \subseteq Ops \X Ids /\ unfrozen' \subseteq Ids
         /\ life' \in [Ids -> S!Lives] /\ place' \in [Ids -> Nodes \cup {NoNode}]
<1> DEFINE id == request[r].id
<1>0. id \in Ids
  BY BusyShape
     DEF Proceed, ScheduleCall, StopCall, Forget, FreezeCall, ThawCall, Mark, Places
<1>1. ASSUME UNCHANGED nodeVars
      PROVE  /\ container' \in [Ids -> {"none"} \cup S!Alive]
             /\ late' \subseteq unheard' /\ unheard' \subseteq Ops \X Ids /\ unfrozen' \subseteq Ids
  BY <1>1 DEF nodeVars, TypeOK
<1>2. ASSUME NEW op \in Ops, Succeeds(op, id)
      PROVE  /\ container' \in [Ids -> {"none"} \cup S!Alive]
             /\ late' \subseteq unheard' /\ unheard' \subseteq Ops \X Ids /\ unfrozen' \subseteq Ids
  BY <1>0, <1>2, SucceedsEffect DEF TypeOK
<1>3. ASSUME NEW op \in Ops, Errs(op, id)
      PROVE  /\ container' \in [Ids -> {"none"} \cup S!Alive]
             /\ late' \subseteq unheard' /\ unheard' \subseteq Ops \X Ids /\ unfrozen' \subseteq Ids
  BY <1>0, <1>3, ErrsEffect DEF TypeOK
<1>4. \/ UNCHANGED nodeVars
      \/ \E op \in Ops : Succeeds(op, id)
      \/ \E op \in Ops : Errs(op, id)
  BY CallShape DEF Proceed, Forget, Mark, Ops
<1>5. life' \in [Ids -> S!Lives] /\ place' \in [Ids -> Nodes \cup {NoNode}]
  <2>1. CASE UNCHANGED schedulerVars
    BY <2>1 DEF schedulerVars, TypeOK
  <2>2. CASE \/ S!Refuse(id) \/ S!End(id) \/ S!Freeze(id) \/ S!Thaw(id)
             \/ \E n \in Nodes : S!Start(id, n)
    BY <1>0, <2>2, SchedulerEffect DEF TypeOK, S!Lives, S!Alive
  <2>. QED
    BY <2>1, <2>2 DEF Proceed, ScheduleCall, StopCall, Forget, FreezeCall, ThawCall, Mark
<1>. QED
  BY <1>1, <1>2, <1>3, <1>4, <1>5 DEF TypeOK, nodeVars

(* The steps of a handler at work move it on or end it. *)
LEMMA ProceedType ==
  ASSUME TypeOK, NEW r \in Requests, Proceed(r)
  PROVE  TypeOK'
<1> DEFINE id == request[r].id
<1>1. request[r] \in InProgress /\ id \in Ids
  BY BusyShape
     DEF Proceed, ScheduleCall, StopCall, Forget, FreezeCall, ThawCall, Mark, At, Places, TypeOK,
         InProgress, Idle
<1>2. request' \in [Requests -> {Idle} \cup InProgress] /\ disturbed' = disturbed
  BY <1>1, MovesOn DEF TypeOK, InProgress, Places
<1>3. UNCHANGED <<restarts, forgotten>>
  BY DEF Proceed, ScheduleCall, StopCall, Forget, FreezeCall, ThawCall, Mark
<1>4. record' \in [Ids -> {"none"} \cup S!Alive] /\ failedStops' \subseteq Ids
  BY <1>1 DEF Proceed, ScheduleCall, StopCall, Forget, FreezeCall, ThawCall, Mark,
              SetRecord, UpdateSandboxState, TypeOK, S!Alive
<1>. QED
  BY <1>2, <1>3, <1>4, ProceedNodes DEF TypeOK

(* The checker, a late command and the death of a guest leave rows and handlers
   alone. *)
Apart == \/ \E id \in Ids : Expire(id) \/ GuestDies(id)
         \/ \E op \in Ops, id \in Ids : LateCommand(op, id)

LEMMA LateEffect ==
  ASSUME TypeOK, NEW op \in Ops, NEW id \in Ids, LateCommand(op, id)
  PROVE  /\ container' \in [Ids -> {"none"} \cup S!Alive]
         /\ late' \subseteq late /\ <<op, id>> \in unheard
         /\ UNCHANGED <<unheard, unfrozen>>
         /\ NothingAppears
         /\ op # "create" => NothingThaws
         /\ \A i \in Ids \ {id} : container'[i] = container[i]
<1>1. late' \subseteq late /\ <<op, id>> \in unheard /\ UNCHANGED <<unheard, unfrozen>>
  BY DEF LateCommand, TypeOK
<1>2. CASE container' = container
  BY <1>1, <1>2 DEF TypeOK, NothingAppears, NothingThaws
<1>3. CASE Executed(op, id)
  <2>1. NothingAppears
    BY <1>1, <1>3, ExecutedEffect DEF NothingAppears, Unheard, Ops
  <2>2. op # "create" => NothingThaws
    BY <1>1, <1>3, ExecutedEffect DEF NothingThaws, Thawed, Unheard, Ops
  <2>. QED
    BY <1>1, <1>3, <2>1, <2>2, ExecutedEffect
<1>. QED
  BY <1>2, <1>3 DEF LateCommand

LEMMA ApartEffect ==
  ASSUME TypeOK, Apart
  PROVE  /\ UNCHANGED <<record, request, disturbed, restarts, failedStops, forgotten>>
         /\ place' \in [Ids -> Nodes \cup {NoNode}]
         /\ container' \in [Ids -> {"none"} \cup S!Alive]
         /\ late' \subseteq unheard' /\ unheard' \subseteq Ops \X Ids /\ unfrozen' \subseteq Ids
         /\ \A i \in Ids : <<"create", i>> \in late' => <<"create", i>> \in late
         /\ NothingUnsaid /\ NothingAppears
         /\ \/ life' = life
            \/ \E id \in Ids : life[id] = "running" /\ life' = [life EXCEPT ![id] = "paused"]
            \/ \E id \in Ids : life' = [life EXCEPT ![id] = "gone"] /\ container'[id] = "none"
<1>1. UNCHANGED <<record, request, disturbed, restarts, failedStops, forgotten>>
  BY DEF Apart, Expire, GuestDies, LateCommand, requestVars
<1>2. CASE \E id \in Ids : Expire(id)
  <2>1. PICK id \in Ids : Expire(id)
    BY <1>2
  <2>2. \A i \in Ids : <<"create", i>> \in late' => <<"create", i>> \in late
    BY <2>1, ExpireEffect DEF Ops
  <2>. QED
    BY <1>1, <2>1, <2>2, ExpireEffect
<1>3. CASE \E id \in Ids : GuestDies(id)
  BY <1>1, <1>3 DEF GuestDies, schedulerVars, TypeOK, NothingUnsaid, NothingAppears
<1>4. CASE \E op \in Ops, id \in Ids : LateCommand(op, id)
  <2>1. PICK op \in Ops, id \in Ids : LateCommand(op, id)
    BY <1>4
  <2>2. life' = life /\ place' = place
    BY <2>1 DEF LateCommand, schedulerVars
  <2>3. late' \subseteq late /\ UNCHANGED <<unheard, unfrozen>> /\ NothingAppears
        /\ container' \in [Ids -> {"none"} \cup S!Alive]
    BY <2>1, LateEffect
  <2>. QED
    BY <1>1, <2>2, <2>3 DEF TypeOK, NothingUnsaid
<1>. QED
  BY <1>2, <1>3, <1>4 DEF Apart

LEMMA ApartType ==
  ASSUME TypeOK, Apart
  PROVE  TypeOK'
<1>1. life' \in [Ids -> S!Lives]
  BY ApartEffect DEF TypeOK, S!Lives, S!Alive
<1>. QED
  BY <1>1, ApartEffect DEF TypeOK

LEMMA RestartType ==
  ASSUME TypeOK, Restart
  PROVE  TypeOK'
<1>1. restarts' \in 0 .. MaxRestarts
  BY RestartsAssumption DEF Restart, TypeOK
<1>2. life' \in [Ids -> S!Lives] /\ place' \in [Ids -> Nodes \cup {NoNode}]
  BY DEF Restart, S!Lives
<1>3. request' \in [Requests -> {Idle} \cup InProgress]
  BY DEF Restart
<1>4. /\ disturbed' \subseteq Ids /\ forgotten' \subseteq Ids
      /\ UNCHANGED <<container, late, unheard, unfrozen, record, failedStops>>
  BY DEF Restart, TypeOK, nodeVars
<1>. QED
  BY <1>1, <1>2, <1>3, <1>4 DEF TypeOK

LEMMA TypeInit == Init => TypeOK
  BY RestartsAssumption DEF Init, S!Init, TypeOK, S!Lives

LEMMA NextIs ==
  ASSUME Next
  PROVE  \/ \E r \in Requests : Proceed(r)
         \/ \E r \in Requests, id \in Ids : Arrive(r, id)
         \/ Apart
         \/ Restart
  BY DEF Next, Apart

LEMMA TypeStep == TypeOK /\ [Next]_vars => TypeOK'
<1> SUFFICES ASSUME TypeOK, [Next]_vars PROVE TypeOK'
  OBVIOUS
<1>1. CASE UNCHANGED vars
  BY <1>1 DEF TypeOK, vars, schedulerVars, nodeVars, requestVars
<1>2. CASE Restart
  BY <1>2, RestartType
<1>. QED
  BY <1>1, <1>2, NextIs, ArriveType, ProceedType, ApartType

(* Every variable keeps its type. *)
THEOREM TypeCorrect == Spec => []TypeOK
  BY TypeInit, TypeStep, PTL DEF Spec

-----------------------------------------------------------------------------
(* A row that is gone is written again for an identifier that was never used, by
   its creation, and for no other: an update finds no row. *)
RowsStayDeleted ==
  \A id \in Ids : record[id] = "none" =>
    record'[id] = "none" \/ (Fresh(id) /\ record'[id] = "running")

LEMMA CreateWritesItsOwnRow ==
  ASSUME TypeOK, NEW r \in Requests, NEW id \in Ids, Arrive(r, id)
  PROVE  RowsStayDeleted
  BY DEF Arrive, CreateSandbox, DeleteSandbox, PauseSandbox, ResumeSandbox, ConnectSandbox,
         SetRecord, TypeOK, RowsStayDeleted

LEMMA ProceedWritesNoMissingRow ==
  ASSUME TypeOK, NEW r \in Requests, Proceed(r)
  PROVE  RowsStayDeleted
  BY DEF Proceed, ScheduleCall, StopCall, Forget, FreezeCall, ThawCall, Mark,
         SetRecord, UpdateSandboxState, TypeOK, RowsStayDeleted

LEMMA NoRowComesBack ==
  ASSUME TypeOK, Next
  PROVE  RowsStayDeleted
<1>1. CASE Restart \/ Apart
  BY <1>1, ApartEffect DEF Restart, RowsStayDeleted
<1>. QED
  BY <1>1, NextIs, CreateWritesItsOwnRow, ProceedWritesNoMissingRow

(* An identifier does not become fresh again.  One whose sandbox never started,
   and that is in use, belongs to a creation that is about to start it. *)
Creating(r, id) == At(r, "schedule") /\ request[r].id = id
UnbornIsCreated ==
  \A id \in Ids : life[id] = "unborn" /\ ~Fresh(id) => \E r \in Requests : Creating(r, id)

(* Nothing brings a sandbox to the state before its birth; and its creation stays
   at work on it until it has started or refused it. *)
LEMMA UnbornStep ==
  ASSUME TypeOK, Next, NEW id \in Ids, life'[id] = "unborn"
  PROVE  /\ life[id] = "unborn"
         /\ ~Fresh(id) => \A r \in Requests : Creating(r, id) => Creating(r, id)'
<1>1. ASSUME NEW q \in Requests, NEW x \in Ids, Arrive(q, x)
      PROVE  life' = life /\ \A r \in Requests : Creating(r, id) => Creating(r, id)'
  BY <1>1, BusyShape
     DEF Arrive, CreateSandbox, DeleteSandbox, PauseSandbox, ResumeSandbox, ConnectSandbox,
         Begin, schedulerVars, Creating, At, TypeOK, Idle, Places
<1>2. ASSUME NEW q \in Requests, ScheduleCall(q)
      PROVE  life[id] = "unborn" /\ request[q].id # id
  BY <1>2, BusyShape
     DEF ScheduleCall, S!Start, S!Refuse, TypeOK, Places
<1>3. ASSUME NEW q \in Requests,
             StopCall(q) \/ Forget(q) \/ FreezeCall(q) \/ ThawCall(q) \/ Mark(q)
      PROVE  life[id] = "unborn" /\ ~At(q, "schedule")
  BY <1>3, BusyShape
     DEF StopCall, Forget, FreezeCall, ThawCall, Mark, At, S!End, S!Freeze, S!Thaw, schedulerVars,
         TypeOK, Places
<1>4. ASSUME NEW q \in Requests, Proceed(q)
      PROVE  \A r \in Requests \ {q} : request'[r] = request[r]
  BY <1>4 DEF Proceed, ScheduleCall, StopCall, Forget, FreezeCall, ThawCall, Mark, Goto, Answer, TypeOK
<1>5. ASSUME NEW q \in Requests, Proceed(q)
      PROVE  life[id] = "unborn" /\ \A r \in Requests : Creating(r, id) => Creating(r, id)'
  BY <1>2, <1>3, <1>4, <1>5 DEF Proceed, Creating, At
<1>6. ASSUME Apart
      PROVE  life[id] = "unborn" /\ \A r \in Requests : Creating(r, id) => Creating(r, id)'
  <2>1. request' = request /\ life[id] = "unborn"
    BY <1>6, ApartEffect DEF TypeOK
  <2>. QED
    BY <2>1 DEF Creating, At
<1>7. CASE Restart
  BY <1>7 DEF Restart, Fresh
<1>. QED
  BY <1>1, <1>5, <1>6, <1>7, NextIs

LEMMA CreatedStep ==
  ASSUME TypeOK, TypeOK', UnbornIsCreated, Next, NEW id \in Ids
  PROVE  /\ life'[id] = "unborn" /\ ~Fresh(id)' => \E r \in Requests : Creating(r, id)'
         /\ ~Fresh(id) => ~Fresh(id)'
<1>1. ASSUME ~Fresh(id), life'[id] = "unborn"
      PROVE  \E r \in Requests : Creating(r, id)'
  BY <1>1, UnbornStep DEF UnbornIsCreated
<1>2. ASSUME NEW r \in Requests, Creating(r, id)' PROVE ~Fresh(id)'
  BY <1>2, BusyShape DEF Creating, Fresh, Busy, At, Idle
<1>3. ~Fresh(id) => ~Fresh(id)'
  BY <1>1, <1>2 DEF Fresh
<1>4. ASSUME Fresh(id), ~Fresh(id)', life'[id] = "unborn"
      PROVE  \E r \in Requests : Creating(r, id)'
  <2>1. CASE Apart
    <3>1. UNCHANGED <<record, request>> /\ life[id] = "unborn"
      BY <1>4, <2>1, ApartEffect DEF TypeOK
    <3>. QED
      BY <1>4, <3>1 DEF Fresh, Busy
  <2>2. CASE Restart
    BY <1>4, <2>2 DEF Restart, Fresh, Busy, Idle
  <2>3. ASSUME NEW q \in Requests, Proceed(q) PROVE FALSE
    <3>1. request[q] # Idle /\ request[q].id # id
      BY <1>4, <2>3, BusyShape
         DEF Proceed, ScheduleCall, StopCall, Forget, FreezeCall, ThawCall, Mark, Places, Fresh, Busy
    <3>2. /\ \A r \in Requests \ {q} : request'[r] = request[r]
          /\ request'[q] = Idle \/ request'[q].id = request[q].id
      BY <2>3, <3>1, BusyShape
         DEF Proceed, ScheduleCall, StopCall, Forget, FreezeCall, ThawCall, Mark, Goto, Answer,
             TypeOK, InProgress
    <3>3. record'[id] = record[id]
      BY <2>3, <3>1, BusyShape
         DEF Proceed, ScheduleCall, StopCall, Forget, FreezeCall, ThawCall, Mark,
             SetRecord, UpdateSandboxState, TypeOK
    <3>. QED
      BY <1>4, <3>1, <3>2, <3>3 DEF Fresh, Busy
  <2>4. ASSUME NEW q \in Requests, NEW x \in Ids, Arrive(q, x)
        PROVE  Creating(q, id)'
    BY <1>4, <2>4, BusyShape
       DEF Arrive, CreateSandbox, DeleteSandbox, PauseSandbox, ResumeSandbox, ConnectSandbox,
           Begin, SetRecord, Fresh, Busy, Creating, At, TypeOK
  <2>. QED
    BY <2>1, <2>2, <2>3, <2>4, NextIs
<1>. QED
  BY <1>1, <1>3, <1>4

LEMMA RecordStep ==
  TypeOK /\ UnbornIsCreated /\ [Next]_vars => UnbornIsCreated' /\ [L!Next]_RecordLife
<1>. SUFFICES ASSUME TypeOK, UnbornIsCreated, Next PROVE UnbornIsCreated' /\ L!Next
  BY DEF vars, schedulerVars, requestVars, UnbornIsCreated, RecordLife, Fresh, Busy, Creating, At
<1>1. TypeOK'
  BY TypeStep
<1>2. UnbornIsCreated'
  BY <1>1, CreatedStep DEF UnbornIsCreated
<1>3. RecordLife' \in [Ids -> L!Lives]
  BY <1>1 DEF TypeOK, RecordLife, L!Lives, L!Alive, S!Alive
<1>4. ASSUME NEW id \in Ids
      PROVE  L!Begins(id) \/ L!Freezes(id) \/ L!Thaws(id) \/ L!Ends(id) \/ L!Stays(id)
  <2>1. /\ RecordLife[id] = IF record[id] # "none" THEN record[id]
                            ELSE IF Fresh(id) THEN "unborn" ELSE "gone"
        /\ RecordLife'[id] = IF record'[id] # "none" THEN record'[id]
                             ELSE IF Fresh(id)' THEN "unborn" ELSE "gone"
    BY DEF RecordLife
  <2>2. /\ record[id] \in {"none", "running", "paused"}
        /\ record'[id] \in {"none", "running", "paused"}
    BY <1>1 DEF TypeOK, S!Alive
  <2>3. /\ ~Fresh(id) => ~Fresh(id)'
        /\ record[id] # "none" => ~Fresh(id)
    BY <1>1, CreatedStep DEF Fresh
  <2>4. record[id] = "none" => record'[id] = "none" \/ (Fresh(id) /\ record'[id] = "running")
    BY NoRowComesBack DEF RowsStayDeleted
  <2>. HIDE DEF RecordLife, Fresh
  <2>. QED
    BY <2>1, <2>2, <2>3, <2>4 DEF L!Begins, L!Freezes, L!Thaws, L!Ends, L!Stays
<1>. QED
  BY <1>2, <1>3, <1>4 DEF L!Next

LEMMA RecordInit == Init => UnbornIsCreated /\ L!Init
  BY DEF Init, S!Init, UnbornIsCreated, L!Init, RecordLife, Fresh, Busy

(* RecordsLiveOnce: a sandbox is listed once in its life; after its row was
   deleted it does not come back to the listings, whatever handlers were at work
   on it and whenever the server was started anew. *)
THEOREM RecordsHold == Spec => RecordsLiveOnce
  BY TypeInit, TypeStep, RecordInit, RecordStep, PTL DEF Spec, RecordsLiveOnce, L!Spec

-----------------------------------------------------------------------------
LEMMA TraceInit == Init => TraceInv
  BY DEF Init, S!Init, S!Alive, TraceInv, UnbornRunsNothing, LivingIsNamed, RunningIsKnown,
         StartIsNamed, ForgottenIsGone, At, Idle

(* A new request changes neither the scheduler nor the containers; a creation
   writes the row of an identifier that was never used. *)
LEMMA ArriveTraceable ==
  ASSUME TypeOK, TraceInv, NEW r \in Requests, NEW id \in Ids, Arrive(r, id)
  PROVE  TraceInv'
<1>1. UNCHANGED <<life, container, unheard, failedStops, forgotten>>
  BY DEF Arrive, CreateSandbox, DeleteSandbox, PauseSandbox, ResumeSandbox, ConnectSandbox,
         Begin, schedulerVars, nodeVars
<1>2. \A i \in Ids : Named(i) => Named(i)'
  BY DEF Arrive, CreateSandbox, DeleteSandbox, PauseSandbox, ResumeSandbox, ConnectSandbox,
         Begin, SetRecord, TypeOK, Named
<1>3. UnbornRunsNothing' /\ LivingIsNamed' /\ RunningIsKnown'
  BY <1>1, <1>2 DEF TraceInv, UnbornRunsNothing, LivingIsNamed, RunningIsKnown, Named, Unheard
<1>4. PICK at \in Places :
        /\ request' = [request EXCEPT ![r] = [at |-> at, id |-> id]]
        /\ at \notin {"forget", "cleanup"}
        /\ at = "schedule" => Named(id)'
  BY DEF Arrive, CreateSandbox, DeleteSandbox, PauseSandbox, ResumeSandbox, ConnectSandbox,
         Begin, SetRecord, TypeOK, Named, Places
<1>5. \A q \in Requests \ {r} : request'[q] = request[q]
  BY <1>4 DEF TypeOK
<1>6. request'[r] = [at |-> at, id |-> id]
  BY <1>4 DEF TypeOK
<1>7. StartIsNamed'
  BY <1>1, <1>2, <1>4, <1>5, <1>6, BusyShape DEF StartIsNamed, TraceInv, At, Places
<1>8. ForgottenIsGone'
  BY <1>1, <1>4, <1>5, <1>6 DEF ForgottenIsGone, TraceInv, At, Unheard
<1>. QED
  BY <1>3, <1>7, <1>8 DEF TraceInv

(* The creation starts the sandbox, whose row is there, or gives it up. *)
LEMMA ScheduleTraceable ==
  ASSUME TypeOK, TraceInv, NEW r \in Requests, ScheduleCall(r)
  PROVE  TraceInv'
<1> DEFINE id == request[r].id
<1>0. "create" \in Ops
  BY DEF Ops
<1>1. id \in Ids /\ request[r] \in InProgress /\ At(r, "schedule") /\ life[id] = "unborn" /\ Named(id)
  BY BusyShape DEF ScheduleCall, S!Start, S!Refuse, TraceInv, StartIsNamed, Places
<1>2. UNCHANGED <<record, failedStops, forgotten>>
  BY DEF ScheduleCall
<1>3. CASE (\E n \in Nodes : S!Start(id, n)) /\ Succeeds("create", id) /\ Answer(r)
  <2>1. /\ life' = [life EXCEPT ![id] = "running"]
        /\ unheard' = unheard
        /\ \A i \in Ids \ {id} : container'[i] = container[i]
        /\ request' = [request EXCEPT ![r] = Idle]
    BY <1>0, <1>1, <1>3, SchedulerEffect, SucceedsEffect DEF Answer
  <2>2. UnbornRunsNothing' /\ LivingIsNamed' /\ RunningIsKnown'
    BY <1>1, <1>2, <2>1
       DEF TraceInv, UnbornRunsNothing, LivingIsNamed, RunningIsKnown, Named, TypeOK, S!Alive, Unheard
  <2>3. StartIsNamed'
    BY <1>1, <1>2, <2>1, BusyShape
       DEF TraceInv, StartIsNamed, Named, TypeOK, At, Idle, Places
  <2>4. ForgottenIsGone'
    BY <1>1, <1>2, <2>1, BusyShape DEF TraceInv, ForgottenIsGone, TypeOK, At, Idle, Places, Unheard
  <2>. QED
    BY <2>2, <2>3, <2>4 DEF TraceInv
<1>4. CASE S!Refuse(id) /\ Errs("create", id) /\ Goto(r, "cleanup")
  <2>1. /\ life' = [life EXCEPT ![id] = "gone"]
        /\ NothingUnsaid /\ NothingAppears
        /\ request' = [request EXCEPT ![r].at = "cleanup"]
    BY <1>0, <1>1, <1>4, SchedulerEffect, ErrsEffect DEF Goto
  <2>2. UnbornRunsNothing' /\ LivingIsNamed' /\ RunningIsKnown'
    BY <1>1, <1>2, <2>1
       DEF TraceInv, UnbornRunsNothing, LivingIsNamed, RunningIsKnown, Named, TypeOK, S!Alive, Unheard,
           NothingUnsaid, NothingAppears
  <2>3. StartIsNamed'
    BY <1>1, <1>2, <2>1, BusyShape
       DEF TraceInv, StartIsNamed, Named, TypeOK, At, Places, InProgress
  <2>4. ForgottenIsGone'
    BY <1>1, <1>2, <2>1, BusyShape
       DEF TraceInv, ForgottenIsGone, UnbornRunsNothing, TypeOK, At, Places, InProgress, Unheard,
           NothingUnsaid, NothingAppears
  <2>. QED
    BY <2>2, <2>3, <2>4 DEF TraceInv
<1>. QED
  BY <1>3, <1>4, CallShape

(* A stop that succeeds leaves nothing running; one that fails is noted. *)
LEMMA StopTraceable ==
  ASSUME TypeOK, TraceInv, NEW r \in Requests, StopCall(r)
  PROVE  TraceInv'
<1> DEFINE id == request[r].id
<1>0. "stop" \in Ops
  BY DEF Ops
<1>1. id \in Ids /\ request[r] \in InProgress
  BY BusyShape DEF StopCall, Places
<1>2. request' = [request EXCEPT ![r].at = "forget"] /\ UNCHANGED <<record, forgotten>>
  BY DEF StopCall, Goto
<1>3. CASE S!End(id) /\ Succeeds("stop", id) /\ UNCHANGED failedStops
  <2>1. /\ life' = [life EXCEPT ![id] = "gone"]
        /\ unheard' = unheard
        /\ container'[id] = "none"
        /\ \A i \in Ids \ {id} : container'[i] = container[i]
    BY <1>0, <1>1, <1>3, SchedulerEffect, SucceedsEffect
  <2>. QED
    BY <1>1, <1>2, <1>3, <2>1, BusyShape
       DEF TraceInv, UnbornRunsNothing, LivingIsNamed, RunningIsKnown, StartIsNamed, ForgottenIsGone,
           Named, TypeOK, S!Alive, Unheard, At, Places, InProgress
<1>4. CASE /\ Errs("stop", id)
           /\ failedStops' = failedStops \cup {id}
           /\ UNCHANGED schedulerVars
  <2>1. life' = life /\ NothingUnsaid /\ NothingAppears
    BY <1>0, <1>1, <1>4, ErrsEffect DEF schedulerVars
  <2>. QED
    BY <1>1, <1>2, <1>4, <2>1, BusyShape
       DEF TraceInv, UnbornRunsNothing, LivingIsNamed, RunningIsKnown, StartIsNamed, ForgottenIsGone,
           Named, TypeOK, S!Alive, Unheard, At, Places, InProgress, NothingUnsaid, NothingAppears
<1>. QED
  BY <1>3, <1>4, CallShape

(* The row goes: there is nothing else behind it, or its stop has failed. *)
LEMMA ForgetTraceable ==
  ASSUME TypeOK, TraceInv, NEW r \in Requests, Forget(r)
  PROVE  TraceInv'
<1> DEFINE id == request[r].id
<1>0. id \in Ids
  BY BusyShape DEF Forget, Places
<1>1. \/ id \in failedStops
      \/ life[id] = "gone" /\ (container[id] = "none" \/ Unheard("create", id))
  BY DEF Forget, TraceInv, ForgottenIsGone
<1>2. /\ request' = [request EXCEPT ![r] = Idle]
      /\ record' = [record EXCEPT ![id] = "none"]
      /\ UNCHANGED <<life, container, unheard, failedStops, forgotten>>
  BY DEF Forget, Answer, SetRecord, schedulerVars, nodeVars
<1>3. UnbornRunsNothing' /\ LivingIsNamed' /\ RunningIsKnown'
  BY <1>0, <1>1, <1>2
     DEF TraceInv, UnbornRunsNothing, LivingIsNamed, RunningIsKnown, Named, TypeOK, S!Alive, Unheard
<1>4. StartIsNamed'
  BY <1>0, <1>1, <1>2, BusyShape DEF TraceInv, StartIsNamed, Named, TypeOK, At, Idle, Places
<1>5. ForgottenIsGone'
  BY <1>0, <1>1, <1>2, BusyShape DEF TraceInv, ForgottenIsGone, TypeOK, At, Idle, Places, Unheard
<1>. QED
  BY <1>3, <1>4, <1>5 DEF TraceInv

(* A pause or a resume, whatever comes of it, changes a sandbox that is alive and
   brings no container about. *)
LEMMA FreezeTraceable ==
  ASSUME TypeOK, TraceInv, NEW r \in Requests, FreezeCall(r) \/ ThawCall(r)
  PROVE  TraceInv'
<1> DEFINE id == request[r].id
<1>1. id \in Ids /\ request[r] \in InProgress
  BY BusyShape DEF FreezeCall, ThawCall, Places
<1>2. /\ UNCHANGED <<record, failedStops, forgotten>>
      /\ \/ request' = [request EXCEPT ![r] = Idle]
         \/ \E at \in {"markPaused", "markRunning"} : request' = [request EXCEPT ![r].at = at]
  BY DEF FreezeCall, ThawCall, Goto, Answer
<1>3. \/ \E s \in S!Alive : life[id] \in S!Alive /\ life' = [life EXCEPT ![id] = s]
      \/ life' = life
  BY <1>1, SchedulerEffect DEF FreezeCall, ThawCall, S!Alive, schedulerVars
<1>4. NothingUnsaid /\ NothingAppears
  <2>1. ASSUME NEW op \in {"pause", "resume"}, Succeeds(op, id)
        PROVE  NothingUnsaid /\ NothingAppears
    BY <1>1, <2>1, SucceedsEffect DEF Ops, NothingUnsaid, NothingAppears
  <2>2. ASSUME NEW op \in {"pause", "resume"}, Errs(op, id)
        PROVE  NothingUnsaid /\ NothingAppears
    BY <1>1, <2>2, ErrsEffect DEF Ops
  <2>. QED
    BY <2>1, <2>2, CallShape
<1>5. UnbornRunsNothing' /\ LivingIsNamed' /\ RunningIsKnown'
  BY <1>1, <1>2, <1>3, <1>4
     DEF TraceInv, UnbornRunsNothing, LivingIsNamed, RunningIsKnown, Named, TypeOK, S!Alive, Unheard,
         NothingUnsaid, NothingAppears
<1>6. \A q \in Requests, at \in {"schedule", "forget", "cleanup"} :
        At(q, at)' => At(q, at) /\ request'[q] = request[q]
  BY <1>1, <1>2 DEF TypeOK, At, Idle, InProgress
<1>7. StartIsNamed'
  BY <1>1, <1>2, <1>3, <1>6, BusyShape
     DEF TraceInv, StartIsNamed, Named, TypeOK, Places, S!Alive
<1>8. ForgottenIsGone'
  BY <1>1, <1>2, <1>3, <1>4, <1>6, BusyShape
     DEF TraceInv, ForgottenIsGone, TypeOK, Places, S!Alive, Unheard, NothingUnsaid, NothingAppears
<1>. QED
  BY <1>5, <1>7, <1>8 DEF TraceInv

(* An update changes a row that is there. *)
LEMMA MarkTraceable ==
  ASSUME TypeOK, TraceInv, NEW r \in Requests, Mark(r)
  PROVE  TraceInv'
<1>1. /\ request' = [request EXCEPT ![r] = Idle]
      /\ UNCHANGED <<life, container, unheard, failedStops, forgotten>>
  BY DEF Mark, Answer, schedulerVars, nodeVars
<1>2. \A i \in Ids : Named(i) => Named(i)'
  BY BusyShape DEF Mark, UpdateSandboxState, SetRecord, Named, TypeOK, Places
<1>3. \A q \in Requests, at \in Places :
        At(q, at)' => At(q, at) /\ request'[q] = request[q]
  BY <1>1 DEF TypeOK, At, Idle, Places
<1>4. UnbornRunsNothing' /\ LivingIsNamed' /\ RunningIsKnown'
  BY <1>1, <1>2 DEF TraceInv, UnbornRunsNothing, LivingIsNamed, RunningIsKnown, Named, Unheard
<1>5. StartIsNamed' /\ ForgottenIsGone'
  BY <1>1, <1>2, <1>3, BusyShape DEF TraceInv, StartIsNamed, ForgottenIsGone, Places, Unheard
<1>. QED
  BY <1>4, <1>5 DEF TraceInv

(* The checker, late commands and dying guests leave rows and handlers alone. *)
LEMMA ApartTraceable ==
  ASSUME TypeOK, TraceInv, Apart
  PROVE  TraceInv'
<1>1. UNCHANGED <<record, request, failedStops, forgotten>> /\ NothingUnsaid /\ NothingAppears
  BY ApartEffect
<1>2. \A i \in Ids : /\ life'[i] = "unborn" => life[i] = "unborn"
                     /\ life'[i] \in S!Alive => life[i] \in S!Alive
                     /\ life[i] \in S!Alive /\ life'[i] \notin S!Alive => container'[i] = "none"
                     /\ life[i] = "gone" => life'[i] = "gone"
  BY ApartEffect DEF TypeOK, S!Alive
<1>3. UnbornRunsNothing' /\ LivingIsNamed' /\ RunningIsKnown'
  BY <1>1, <1>2
     DEF TraceInv, UnbornRunsNothing, LivingIsNamed, RunningIsKnown, Named, Unheard,
         NothingUnsaid, NothingAppears
<1>4. StartIsNamed' /\ ForgottenIsGone'
  BY <1>1, <1>2, BusyShape
     DEF TraceInv, StartIsNamed, ForgottenIsGone, Named, At, Places, Unheard,
         NothingUnsaid, NothingAppears
<1>. QED
  BY <1>3, <1>4 DEF TraceInv

(* A restart forgets what was alive, all of which is named. *)
LEMMA RestartTraceable ==
  ASSUME TypeOK, TraceInv, Restart
  PROVE  TraceInv'
<1>1. /\ UNCHANGED <<record, container, unheard, failedStops>>
      /\ forgotten' = forgotten \cup {id \in Ids : life[id] \in S!Alive}
  BY DEF Restart, nodeVars
<1>2. \A i \in Ids : IF Fresh(i) THEN life'[i] = "unborn" ELSE life'[i] = "gone"
  BY DEF Restart
<1>3. UnbornRunsNothing' /\ LivingIsNamed' /\ RunningIsKnown'
  BY <1>1, <1>2
     DEF TraceInv, UnbornRunsNothing, LivingIsNamed, RunningIsKnown, Named, Fresh, S!Alive, S!Lives,
         TypeOK, Unheard
<1>4. StartIsNamed' /\ ForgottenIsGone'
  BY DEF Restart, StartIsNamed, ForgottenIsGone, At, Idle
<1>. QED
  BY <1>3, <1>4 DEF TraceInv

LEMMA TraceStep == TypeOK /\ TraceInv /\ [Next]_vars => TraceInv'
<1> SUFFICES ASSUME TypeOK, TraceInv, [Next]_vars PROVE TraceInv'
  OBVIOUS
<1>1. CASE UNCHANGED vars
  BY <1>1 DEF vars, schedulerVars, nodeVars, requestVars, TraceInv, UnbornRunsNothing,
              LivingIsNamed, RunningIsKnown, StartIsNamed, ForgottenIsGone, Named, At, Unheard
<1>2. CASE \E r \in Requests : Proceed(r)
  BY <1>2, ScheduleTraceable, StopTraceable, ForgetTraceable, FreezeTraceable, MarkTraceable
     DEF Proceed
<1>3. CASE \E r \in Requests, id \in Ids : Arrive(r, id)
  BY <1>3, ArriveTraceable
<1>. QED
  BY <1>1, <1>2, <1>3, NextIs, ApartTraceable, RestartTraceable

(* Traceable: no container is lost sight of, but for a creation whose answer was
   lost, or by a restart and a stop that failed, whatever handlers, checker, late
   commands and restarts do. *)
THEOREM TraceHolds == Spec => []Traceable
<1>1. TraceInv => Traceable
  BY DEF TraceInv, RunningIsKnown, Traceable, Named, Unheard
<1>. QED
  BY <1>1, TypeInit, TypeStep, TraceInit, TraceStep, PTL DEF Spec

-----------------------------------------------------------------------------
LEMMA FrozenInit == Init => FrozenInv
  BY DEF Init, FrozenInv, OneAtATime, WorksOnRunning, MarkedPausedIsFrozen,
         ListedPausedIsFrozen, LateStartsAreOver, At, Idle

(* A request for a sandbox that has one disturbs it. *)
LEMMA ArriveFrozen ==
  ASSUME TypeOK, FrozenInv, NEW r \in Requests, NEW id \in Ids, Arrive(r, id)
  PROVE  FrozenInv'
<1>1. UNCHANGED <<life, container, late, unheard, unfrozen>>
  BY DEF Arrive, CreateSandbox, DeleteSandbox, PauseSandbox, ResumeSandbox, ConnectSandbox,
         Begin, schedulerVars, nodeVars
<1>2. PICK at \in Places :
        /\ request' = [request EXCEPT ![r] = [at |-> at, id |-> id]]
        /\ at \notin {"markPaused", "cleanup"}
        /\ at \in {"schedule", "freeze"} => record'[id] = "running"
  BY DEF Arrive, CreateSandbox, DeleteSandbox, PauseSandbox, ResumeSandbox, ConnectSandbox,
         Begin, SetRecord, TypeOK, Places
<1>3. /\ request[r] = Idle
      /\ disturbed' = IF Busy(id) THEN disturbed \cup {id} ELSE disturbed
  BY DEF Arrive, CreateSandbox, DeleteSandbox, PauseSandbox, ResumeSandbox, ConnectSandbox, Begin
<1>4. \/ record' = record
      \/ record' = [record EXCEPT ![id] = "running"] /\ life[id] = "unborn"
  BY DEF Arrive, CreateSandbox, DeleteSandbox, PauseSandbox, ResumeSandbox, ConnectSandbox,
         SetRecord, Fresh
<1>5. /\ \A q \in Requests \ {r} : request'[q] = request[q]
      /\ request'[r] = [at |-> at, id |-> id]
  BY <1>2 DEF TypeOK
<1>6. OneAtATime'
  BY <1>3, <1>5 DEF FrozenInv, OneAtATime, Busy
<1>7. WorksOnRunning'
  BY <1>2, <1>3, <1>4, <1>5, BusyShape DEF FrozenInv, WorksOnRunning, At, TypeOK, Places
<1>8. MarkedPausedIsFrozen'
  BY <1>1, <1>2, <1>3, <1>5
     DEF FrozenInv, MarkedPausedIsFrozen, At, Thawed, Unheard
<1>9. ListedPausedIsFrozen'
  BY <1>1, <1>3, <1>4, <1>5
     DEF FrozenInv, ListedPausedIsFrozen, At, TypeOK, Idle, Thawed, Unheard
<1>10. LateStartsAreOver'
  BY <1>1, <1>3, <1>4, <1>5 DEF FrozenInv, LateStartsAreOver, At, TypeOK, Idle
<1>. QED
  BY <1>6, <1>7, <1>8, <1>9, <1>10 DEF FrozenInv

(* A handler that moves on or ends does not add to the requests on a sandbox. *)
LEMMA ProceedOneAtATime ==
  ASSUME TypeOK, OneAtATime, NEW r \in Requests, Proceed(r)
  PROVE  OneAtATime'
<1>1. request[r] \in InProgress /\ request[r] # Idle
  BY BusyShape
     DEF Proceed, ScheduleCall, StopCall, Forget, FreezeCall, ThawCall, Mark, At, Places, Idle
<1>2. /\ disturbed' = disturbed
      /\ \A q \in Requests : request'[q] # Idle => request[q] # Idle /\ request'[q].id = request[q].id
  BY <1>1, MovesOn DEF TypeOK, InProgress
<1>. QED
  BY <1>2 DEF OneAtATime

(* The creation of a sandbox that is not disturbed starts one listed as running,
   now or later. *)
LEMMA ScheduleFrozen ==
  ASSUME TypeOK, FrozenInv, NEW r \in Requests, ScheduleCall(r)
  PROVE  FrozenInv'
<1> DEFINE id == request[r].id
<1>0. id \in Ids /\ request[r] # Idle /\ At(r, "schedule") /\ "create" \in Ops
  BY BusyShape DEF ScheduleCall, Places, Ops
<1>1. OneAtATime' /\ UNCHANGED <<record, disturbed>>
  BY ProceedOneAtATime DEF FrozenInv, Proceed, ScheduleCall, Answer, Goto
<1>2. \A i \in Ids \ {id} : container'[i] = container[i]
  BY <1>0, CallShape, SucceedsEffect, ErrsEffect
<1>3. NothingUnsaid
  BY <1>0, CallShape, SucceedsEffect, ErrsEffect DEF NothingUnsaid
<1>4. \A q \in Requests, at \in {"schedule", "freeze", "markPaused"} :
        At(q, at)' => At(q, at) /\ request'[q] = request[q] /\ q # r
  BY <1>0, CallShape DEF Answer, Goto, TypeOK, At, Idle, InProgress
<1>5. \A q \in Requests : At(q, "markRunning") \/ At(q, "cleanup") => request'[q] = request[q]
  BY <1>0, CallShape DEF Answer, Goto, TypeOK, At
<1>6. WorksOnRunning'
  BY <1>1, <1>4 DEF FrozenInv, WorksOnRunning
<1>7. MarkedPausedIsFrozen'
  BY <1>0, <1>1, <1>2, <1>3, <1>4, BusyShape
     DEF FrozenInv, MarkedPausedIsFrozen, OneAtATime, TypeOK, Places, Thawed, Unheard, NothingUnsaid
<1>8. ListedPausedIsFrozen'
  BY <1>0, <1>1, <1>2, <1>3, <1>5
     DEF FrozenInv, ListedPausedIsFrozen, WorksOnRunning, TypeOK, At, Thawed, Unheard, NothingUnsaid
<1>9. LateStartsAreOver'
  <2>1. \A i \in Ids : life'[i] = "unborn" => life[i] = "unborn"
    BY <1>0, CallShape, SchedulerEffect DEF TypeOK
  <2>2. \/ late' = late
        \/ /\ late' \subseteq late \cup {<<"create", id>>}
           /\ life'[id] = "gone"
           /\ request'[r] = [request[r] EXCEPT !.at = "cleanup"]
    <3>1. CASE Succeeds("create", id)
      BY <1>0, <3>1, SucceedsEffect
    <3>2. CASE S!Refuse(id) /\ Errs("create", id) /\ Goto(r, "cleanup")
      BY <1>0, <3>2, SchedulerEffect, ErrsEffect DEF Goto, TypeOK
    <3>. QED
      BY <3>1, <3>2, CallShape
  <2>3. CASE late' = late
    BY <1>1, <1>5, <2>1, <2>3 DEF FrozenInv, LateStartsAreOver, At
  <2>4. CASE /\ late' \subseteq late \cup {<<"create", id>>}
             /\ life'[id] = "gone"
             /\ request'[r] = [request[r] EXCEPT !.at = "cleanup"]
    <3>1. At(r, "cleanup")' /\ request'[r].id = id
      BY <1>0, <2>4, BusyShape DEF At, InProgress
    <3>2. id \in disturbed \/ record[id] = "running"
      BY <1>0 DEF FrozenInv, WorksOnRunning
    <3>3. ASSUME NEW i \in Ids, <<"create", i>> \in late', i # id
          PROVE  <<"create", i>> \in late
      BY <2>4, <3>3
    <3>4. LateStartsAreOver
      BY DEF FrozenInv
    <3>5. ASSUME NEW i \in Ids, <<"create", i>> \in late', i # id
          PROVE  /\ life'[i] # "unborn"
                 /\ i \in disturbed' \/ record'[i] = "none"
                    \/ /\ record'[i] = "running"
                       /\ \E q \in Requests : At(q, "cleanup")' /\ request'[q].id = i
      BY <1>1, <1>5, <2>1, <3>3, <3>4, <3>5 DEF LateStartsAreOver, At
    <3>6. life'[id] # "unborn" /\ (id \in disturbed' \/ record'[id] = "running")
      BY <1>1, <2>4, <3>2
    <3>. HIDE DEF id
    <3>. QED
      BY <3>1, <3>5, <3>6 DEF LateStartsAreOver
  <2>. QED
    BY <2>2, <2>3, <2>4
<1>. QED
  BY <1>1, <1>6, <1>7, <1>8, <1>9 DEF FrozenInv

(* A stop or a clean-up sets nothing running and marks nothing paused. *)
LEMMA StopFrozen ==
  ASSUME TypeOK, FrozenInv, NEW r \in Requests, StopCall(r) \/ Forget(r)
  PROVE  FrozenInv'
<1> DEFINE id == request[r].id
<1>0. id \in Ids /\ request[r] # Idle /\ ~At(r, "markRunning") /\ "stop" \in Ops
  BY BusyShape DEF StopCall, Forget, Places, At, Ops
<1>1. OneAtATime' /\ disturbed' = disturbed
  BY ProceedOneAtATime DEF FrozenInv, Proceed, StopCall, Forget, Answer, Goto
<1>2. NothingThaws /\ NothingUnsaid
  <2>1. CASE UNCHANGED nodeVars
    BY <2>1 DEF nodeVars, NothingThaws, NothingUnsaid
  <2>2. CASE Succeeds("stop", id)
    BY <1>0, <2>2, SucceedsEffect DEF NothingThaws, NothingUnsaid
  <2>3. CASE Errs("stop", id)
    BY <1>0, <2>3, ErrsEffect
  <2>. QED
    BY <2>1, <2>2, <2>3, CallShape DEF Forget
<1>3. record' \in {record, [record EXCEPT ![id] = "none"]}
  BY DEF StopCall, Forget, SetRecord
<1>4. \A q \in Requests, at \in {"schedule", "freeze", "markPaused"} :
        At(q, at)' => At(q, at) /\ request'[q] = request[q] /\ q # r
  BY <1>0 DEF StopCall, Forget, Answer, Goto, TypeOK, At, Idle, InProgress
<1>5. \A q \in Requests : At(q, "markRunning") => request'[q] = request[q]
  BY <1>0 DEF StopCall, Forget, Answer, Goto, TypeOK, At
<1>6. WorksOnRunning'
  BY <1>0, <1>1, <1>3, <1>4, BusyShape DEF FrozenInv, WorksOnRunning, OneAtATime, TypeOK, Places
<1>7. MarkedPausedIsFrozen'
  BY <1>0, <1>1, <1>2, <1>4, BusyShape
     DEF FrozenInv, MarkedPausedIsFrozen, Places, NothingThaws, NothingUnsaid, Thawed, Unheard
<1>8. ListedPausedIsFrozen'
  BY <1>0, <1>1, <1>2, <1>3, <1>5
     DEF FrozenInv, ListedPausedIsFrozen, TypeOK, At, NothingThaws, NothingUnsaid, Thawed, Unheard
<1>9. LateStartsAreOver'
  <2>1. \A i \in Ids : /\ life'[i] = "unborn" => life[i] = "unborn"
                       /\ <<"create", i>> \in late' => <<"create", i>> \in late
    <3>1. CASE Forget(r)
      BY <3>1 DEF Forget, schedulerVars, nodeVars
    <3>2. CASE S!End(id) /\ Succeeds("stop", id)
      BY <1>0, <3>2, SchedulerEffect, SucceedsEffect DEF TypeOK
    <3>3. CASE Errs("stop", id) /\ UNCHANGED schedulerVars
      BY <1>0, <3>3, ErrsEffect DEF schedulerVars
    <3>. QED
      BY <3>1, <3>2, <3>3, CallShape
  <2>2. \A q \in Requests : At(q, "cleanup") => \/ request'[q] = request[q]
                                                \/ q = r /\ record'[id] = "none"
    BY <1>0 DEF StopCall, Forget, SetRecord, Answer, Goto, TypeOK, At
  <2>3. \A i \in Ids : record'[i] \in {record[i], "none"}
    BY <1>3 DEF TypeOK
  <2>. QED
    BY <1>1, <2>1, <2>2, <2>3 DEF FrozenInv, LateStartsAreOver, At
<1>. QED
  BY <1>1, <1>6, <1>7, <1>8, <1>9 DEF FrozenInv

(* A pause or a resume leaves late starts where they were. *)
LEMMA FreezeLeavesStarts ==
  ASSUME TypeOK, LateStartsAreOver, NEW r \in Requests, FreezeCall(r) \/ ThawCall(r)
  PROVE  LateStartsAreOver'
<1> DEFINE id == request[r].id
<1>0. id \in Ids /\ "pause" \in Ops /\ "resume" \in Ops
  BY BusyShape DEF FreezeCall, ThawCall, Places, Ops
<1>1. \A i \in Ids : /\ life'[i] = "unborn" => life[i] = "unborn"
                     /\ <<"create", i>> \in late' => <<"create", i>> \in late
  <2>1. CASE S!Freeze(id) /\ Succeeds("pause", id)
    BY <1>0, <2>1, SchedulerEffect, SucceedsEffect DEF TypeOK
  <2>2. CASE S!Thaw(id) /\ Succeeds("resume", id)
    BY <1>0, <2>2, SchedulerEffect, SucceedsEffect DEF TypeOK
  <2>3. CASE (Errs("pause", id) \/ Errs("resume", id)) /\ UNCHANGED schedulerVars
    BY <1>0, <2>3, ErrsEffect DEF schedulerVars
  <2>. QED
    BY <2>1, <2>2, <2>3, CallShape
<1>2. \A q \in Requests : At(q, "cleanup") => request'[q] = request[q]
  BY DEF FreezeCall, ThawCall, Answer, Goto, TypeOK, At
<1>3. UNCHANGED <<record, disturbed>>
  BY DEF FreezeCall, ThawCall, Answer, Goto
<1>. QED
  BY <1>1, <1>2, <1>3 DEF LateStartsAreOver, At

(* The row is marked paused after the sandbox is; nothing but this handler could
   set it running again. *)
LEMMA FreezeFrozen ==
  ASSUME TypeOK, FrozenInv, NEW r \in Requests, FreezeCall(r)
  PROVE  FrozenInv'
<1> DEFINE id == request[r].id
<1>0. id \in Ids /\ request[r] # Idle /\ At(r, "freeze") /\ "pause" \in Ops
  BY BusyShape DEF FreezeCall, Places, Ops
<1>1. OneAtATime' /\ UNCHANGED <<record, disturbed>>
  BY ProceedOneAtATime DEF FrozenInv, Proceed, FreezeCall, Answer, Goto
<1>2. NothingThaws /\ NothingUnsaid
  BY <1>0, CallShape, SucceedsEffect, ErrsEffect DEF NothingThaws, NothingUnsaid, Thawed
<1>3. (container'[id] # "running" \/ id \in unfrozen') \/ request'[r] = Idle
  BY <1>0, CallShape, SucceedsEffect DEF Answer, TypeOK
<1>4. \A q \in Requests : q # r => request'[q] = request[q]
  BY DEF FreezeCall, Answer, Goto, TypeOK
<1>5. request'[r] = Idle \/ (At(r, "markPaused")' /\ request'[r].id = id)
  BY <1>0, BusyShape DEF FreezeCall, Answer, Goto, TypeOK, At, InProgress
<1>6. WorksOnRunning'
  BY <1>0, <1>1, <1>4, <1>5 DEF FrozenInv, WorksOnRunning, At, Idle
<1>7. MarkedPausedIsFrozen'
  BY <1>0, <1>1, <1>2, <1>3, <1>4, <1>5, BusyShape
     DEF FrozenInv, MarkedPausedIsFrozen, Places, At, Idle, NothingThaws, NothingUnsaid, Thawed, Unheard
<1>8. ListedPausedIsFrozen'
  BY <1>0, <1>1, <1>2, <1>4
     DEF FrozenInv, ListedPausedIsFrozen, At, NothingThaws, NothingUnsaid, Thawed, Unheard
<1>. QED
  BY <1>1, <1>6, <1>7, <1>8, FreezeLeavesStarts DEF FrozenInv

(* While a sandbox that the handler has resumed is still listed as paused, the
   handler is about to mark it, or did not hear of it. *)
LEMMA ThawFrozen ==
  ASSUME TypeOK, FrozenInv, NEW r \in Requests, ThawCall(r)
  PROVE  FrozenInv'
<1> DEFINE id == request[r].id
<1>0. id \in Ids /\ request[r] # Idle /\ At(r, "thaw") /\ "resume" \in Ops
  BY BusyShape DEF ThawCall, Places, Ops
<1>1. OneAtATime' /\ UNCHANGED <<record, disturbed>>
  BY ProceedOneAtATime DEF FrozenInv, Proceed, ThawCall, Answer, Goto
<1>2. /\ NothingUnsaid
      /\ \A i \in Ids \ {id} : container'[i] = container[i]
      /\ NothingThaws \/ (At(r, "markRunning")' /\ request'[r].id = id)
  <2>1. CASE Succeeds("resume", id) /\ Goto(r, "markRunning")
    <3>1. At(r, "markRunning")' /\ request'[r].id = id
      BY <1>0, <2>1, BusyShape DEF Goto, TypeOK, At, InProgress
    <3>. QED
      BY <1>0, <2>1, <3>1, SucceedsEffect DEF NothingUnsaid
  <2>2. CASE Errs("resume", id)
    BY <1>0, <2>2, ErrsEffect
  <2>. QED
    BY <2>1, <2>2, CallShape
<1>3. \A q \in Requests : q # r => request'[q] = request[q]
  BY DEF ThawCall, Answer, Goto, TypeOK
<1>4. request'[r] = Idle \/ At(r, "markRunning")'
  BY <1>0, BusyShape DEF ThawCall, Answer, Goto, TypeOK, At, InProgress
<1>5. WorksOnRunning'
  BY <1>1, <1>3, <1>4 DEF FrozenInv, WorksOnRunning, At, Idle
<1>6. MarkedPausedIsFrozen'
  BY <1>0, <1>1, <1>2, <1>3, <1>4, BusyShape
     DEF FrozenInv, MarkedPausedIsFrozen, OneAtATime, Places, At, Idle, Thawed, Unheard, NothingUnsaid
<1>7. ListedPausedIsFrozen'
  BY <1>0, <1>1, <1>2, <1>3
     DEF FrozenInv, ListedPausedIsFrozen, At, Thawed, Unheard, NothingUnsaid, NothingThaws
<1>. QED
  BY <1>1, <1>5, <1>6, <1>7, FreezeLeavesStarts DEF FrozenInv

(* What is marked paused is frozen; what is marked running is not listed as
   paused any more. *)
LEMMA MarkFrozen ==
  ASSUME TypeOK, FrozenInv, NEW r \in Requests, Mark(r)
  PROVE  FrozenInv'
<1> DEFINE id == request[r].id
<1>0. id \in Ids /\ request[r] # Idle /\ (At(r, "markPaused") \/ At(r, "markRunning"))
  BY BusyShape DEF Mark, Places
<1>1. OneAtATime' /\ UNCHANGED <<life, container, late, unheard, unfrozen, disturbed>>
  BY ProceedOneAtATime DEF FrozenInv, Proceed, Mark, Answer, schedulerVars, nodeVars
<1>2. \A i \in Ids : i # id => record'[i] = record[i]
  BY <1>0 DEF Mark, UpdateSandboxState, SetRecord, TypeOK
<1>3. /\ At(r, "markPaused") \/ record'[id] # "paused"
      /\ record[id] = "none" => record'[id] = "none"
  BY <1>0 DEF Mark, UpdateSandboxState, SetRecord, TypeOK
<1>4. request'[r] = Idle /\ \A q \in Requests : q # r => request'[q] = request[q]
  BY DEF Mark, Answer, TypeOK
<1>5. WorksOnRunning'
  BY <1>0, <1>1, <1>2, <1>4, BusyShape DEF FrozenInv, WorksOnRunning, OneAtATime, Places, At, Idle
<1>6. MarkedPausedIsFrozen'
  BY <1>1, <1>4 DEF FrozenInv, MarkedPausedIsFrozen, At, Idle, Thawed, Unheard
<1>7. ListedPausedIsFrozen'
  BY <1>0, <1>1, <1>2, <1>3, <1>4
     DEF FrozenInv, ListedPausedIsFrozen, MarkedPausedIsFrozen, At, Idle, Thawed, Unheard
<1>8. LateStartsAreOver'
  <2>1. ASSUME <<"create", id>> \in late, id \notin disturbed
        PROVE  record[id] = "none"
    <3>1. ASSUME NEW q \in Requests, At(q, "cleanup"), request[q].id = id
          PROVE  FALSE
      BY <1>0, <2>1, <3>1, BusyShape DEF FrozenInv, OneAtATime, At, Places
    <3>. QED
      BY <1>0, <2>1, <3>1 DEF FrozenInv, LateStartsAreOver
  <2>2. \A q \in Requests : At(q, "cleanup") => q # r
    BY <1>0 DEF At
  <2>. QED
    BY <1>0, <1>1, <1>2, <1>3, <1>4, <2>1, <2>2 DEF FrozenInv, LateStartsAreOver, At
<1>. QED
  BY <1>1, <1>5, <1>6, <1>7, <1>8 DEF FrozenInv

(* A start that comes late finds no row that says paused, and no handler that is
   about to write it. *)
LEMMA LateFrozen ==
  ASSUME TypeOK, FrozenInv, NEW op \in Ops, NEW id \in Ids, LateCommand(op, id)
  PROVE  MarkedPausedIsFrozen' /\ ListedPausedIsFrozen'
<1>1. UNCHANGED <<record, request, disturbed, unheard, unfrozen>>
      /\ \A i \in Ids \ {id} : container'[i] = container[i]
  BY LateEffect DEF LateCommand, requestVars
<1>2. CASE op # "create"
  <2>1. NothingThaws
    BY <1>2, LateEffect
  <2>. QED
    BY <1>1, <2>1, BusyShape
       DEF FrozenInv, MarkedPausedIsFrozen, ListedPausedIsFrozen, NothingThaws, Thawed, Unheard,
           At, Places
<1>3. CASE op = "create"
  <2>1. <<"create", id>> \in late
    BY <1>3 DEF LateCommand
  <2>2. id \in disturbed \/ record[id] # "paused"
    BY <2>1 DEF FrozenInv, LateStartsAreOver
  <2>3. ASSUME NEW r \in Requests, At(r, "markPaused"), request[r].id = id, id \notin disturbed
        PROVE  FALSE
    <3>1. record[id] = "running"
      BY <2>3 DEF FrozenInv, WorksOnRunning
    <3>2. PICK q \in Requests : At(q, "cleanup") /\ request[q].id = id
      BY <2>1, <2>3, <3>1 DEF FrozenInv, LateStartsAreOver
    <3>. QED
      BY <2>3, <3>2, BusyShape DEF FrozenInv, OneAtATime, At, Places
  <2>. QED
    BY <1>1, <2>2, <2>3, BusyShape
       DEF FrozenInv, MarkedPausedIsFrozen, ListedPausedIsFrozen, Thawed, Unheard, At, Places
<1>. QED
  BY <1>2, <1>3

LEMMA ApartFrozen ==
  ASSUME TypeOK, FrozenInv, Apart
  PROVE  FrozenInv'
<1>1. UNCHANGED <<record, request, disturbed>> /\ NothingUnsaid
  BY ApartEffect
<1>2. OneAtATime' /\ WorksOnRunning'
  BY <1>1 DEF FrozenInv, OneAtATime, WorksOnRunning, At
<1>3. LateStartsAreOver'
  <2>1. \A i \in Ids : /\ life'[i] = "unborn" => life[i] = "unborn"
                       /\ <<"create", i>> \in late' => <<"create", i>> \in late
    BY ApartEffect DEF TypeOK
  <2>. QED
    BY <1>1, <2>1 DEF FrozenInv, LateStartsAreOver, At
<1>4. MarkedPausedIsFrozen' /\ ListedPausedIsFrozen'
  <2>1. CASE \E id \in Ids : Expire(id) \/ GuestDies(id)
    <3>1. NothingThaws
      BY <2>1, ExpireEffect DEF GuestDies, TypeOK, NothingThaws
    <3>. QED
      BY <1>1, <3>1, BusyShape
         DEF FrozenInv, MarkedPausedIsFrozen, ListedPausedIsFrozen, NothingThaws, NothingUnsaid,
             Thawed, Unheard, At, Places
  <2>. QED
    BY <2>1, LateFrozen DEF Apart
<1>. QED
  BY <1>2, <1>3, <1>4 DEF FrozenInv

(* A restart cuts the requests short, which disturbs their sandboxes. *)
LEMMA RestartFrozen ==
  ASSUME TypeOK, FrozenInv, Restart
  PROVE  FrozenInv'
<1>1. /\ \A r \in Requests : request'[r] = Idle
      /\ UNCHANGED <<record, container, late, unheard, unfrozen>>
      /\ disturbed' = disturbed \cup {id \in Ids : Busy(id)}
      /\ \A id \in Ids : life'[id] = "unborn" => life[id] = "unborn"
  BY DEF Restart, nodeVars, Fresh
<1>2. OneAtATime' /\ WorksOnRunning' /\ MarkedPausedIsFrozen'
  BY <1>1 DEF OneAtATime, WorksOnRunning, MarkedPausedIsFrozen, At, Idle
<1>3. ListedPausedIsFrozen'
  BY <1>1 DEF FrozenInv, ListedPausedIsFrozen, Busy, At, Idle, Thawed, Unheard
<1>4. LateStartsAreOver'
  BY <1>1 DEF FrozenInv, LateStartsAreOver, Busy, At, Idle
<1>. QED
  BY <1>2, <1>3, <1>4 DEF FrozenInv

LEMMA FrozenStep == TypeOK /\ FrozenInv /\ [Next]_vars => FrozenInv'
<1> SUFFICES ASSUME TypeOK, FrozenInv, [Next]_vars PROVE FrozenInv'
  OBVIOUS
<1>1. CASE UNCHANGED vars
  BY <1>1 DEF vars, schedulerVars, nodeVars, requestVars, FrozenInv, OneAtATime, WorksOnRunning,
              MarkedPausedIsFrozen, ListedPausedIsFrozen, LateStartsAreOver, At, Thawed, Unheard
<1>2. CASE \E r \in Requests : Proceed(r)
  BY <1>2, ScheduleFrozen, StopFrozen, FreezeFrozen, ThawFrozen, MarkFrozen DEF Proceed
<1>3. CASE \E r \in Requests, id \in Ids : Arrive(r, id)
  BY <1>3, ArriveFrozen
<1>. QED
  BY <1>1, <1>2, <1>3, NextIs, ApartFrozen, RestartFrozen

(* PausedIsFrozen: a sandbox whose requests came one after the other and that is
   listed as paused is not running, whatever the checker, late commands or restarts
   did; but for a resume that went unheard and a runtime that does not pause. *)
THEOREM FrozenHolds == Spec => []PausedIsFrozen
<1>1. FrozenInv => PausedIsFrozen
  BY DEF FrozenInv, ListedPausedIsFrozen, PausedIsFrozen, Busy, At, Idle, Thawed, Unheard
<1>. QED
  BY <1>1, TypeInit, TypeStep, FrozenInit, FrozenStep, PTL DEF Spec
=============================================================================
