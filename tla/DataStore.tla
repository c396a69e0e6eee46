------------------------------ MODULE DataStore ------------------------------
(***************************************************************************)
(* The requests of the API (internal/api: sandbox.go, template.go, over    *)
(* store.go) and the outcomes of builds, over one of the three databases   *)
(* that the server can be started with (internal/db/config.go).  A request *)
(* is several operations on the database, in between those of the others.  *)
(* Requests to a database over the network can fail, before or after they  *)
(* have taken effect; the server can stop, and memory goes with it.        *)
(***************************************************************************)
EXTENDS Tables

CONSTANTS
  Calls,     \* requests that can be in progress together
  MaxFaults,   \* bound: requests to the database that fail, and restarts of the server
  MaxRequests  \* bound: requests of the clients

VARIABLES
  backend,  \* the database in use
  call,     \* the handlers in progress
  told,     \* what the clients were told about a creation
  dropped,  \* history: those whose deletion was asked for
  born,     \* history: the template of each sandbox whose row was ever inserted
  missed,   \* history: templates of which a count was lost, or two counted at once
  hit,      \* history: identifiers a fault of the database or a restart hit
  faults, requests

ASSUME BoundsAssumption == MaxFaults \in Nat /\ MaxRequests \in Nat

Memory == INSTANCE MemoryStore
Postgres == INSTANCE PostgresStore
Supabase == INSTANCE SupabaseStore

historyVars == <<dropped, born, missed, hit>>
vars == <<db, backend, call, told, historyVars, faults, requests>>

-----------------------------------------------------------------------------
Backends == {"memory", "postgres", "supabase"}
Ids == Sandboxes \cup Templates
Names == Templates \cup Aliases
AnyName == CHOOSE n \in Names : TRUE

(* An operation of the database in use: on Supabase, its first request. *)
Of(memory, postgres, supabase) ==
  CASE backend = "memory" -> memory [] backend = "postgres" -> postgres [] OTHER -> supabase

Places == {"lookup", "lookupAlias", "insert", "count", "write", "schedule", "undo", "delete", "find",
           "mark", "extend", "template", "build", "deleteTemplate", "publish", "finish", "finishTemplate"}
Idle == [at |-> "idle"]
InProgress == [at : Places, id : Ids, name : Names, template : Templates, set : {"running", "paused", "later"},
               read : Nat]

At(c, at) == call[c].at = at
Working(id) == \E c \in Calls : call[c] # Idle /\ call[c].id = id

Goto(c, at) == call' = [call EXCEPT ![c].at = at, ![c].read = 0]
Return(c) == call' = [call EXCEPT ![c] = Idle]
Tell(c, what) == Return(c) /\ told' = [told EXCEPT ![call[c].id] = what]

(* What becomes of a request to the database.  Over the network it may fail
   unheard, or be heard and its answer lost. *)
Sound(result) == [result |-> result, sound |-> TRUE]
Outcomes(result) ==
  {Sound(result)} \cup
  (IF backend = "memory" \/ faults = MaxFaults THEN {}
   ELSE {[result |-> r, sound |-> FALSE] : r \in {Failed, [result EXCEPT !.ok = FALSE]}})

Take(c, outcome) ==
  /\ db' = outcome.result.db
  /\ faults' = IF outcome.sound THEN faults ELSE faults + 1
  /\ hit' = IF outcome.sound THEN hit ELSE hit \cup {call[c].id}

(* A read that fails. *)
ReadFails(c) ==
  /\ \E o \in Outcomes(Nothing) : ~o.sound /\ Take(c, o)
  /\ UNCHANGED <<dropped, born, missed>>

-----------------------------------------------------------------------------
Named(name) ==
  Of(Memory!GetTemplate(name), Postgres!GetTemplate(name), Supabase!GetTemplate(name))

Chosen(c, t) ==
  call' = [call EXCEPT ![c].at = "insert", ![c].template = t, ![c].name = AnyName]

(* POST /sandboxes: the template that goes by the name, by identifier or alias. *)
GetTemplate(c) ==
  /\ At(c, "lookup")
  /\ LET found == Named(call[c].name)
     IN  \/ /\ \/ \E t \in found : Chosen(c, t)
               \/ found = {} /\ backend = "supabase" /\ Goto(c, "lookupAlias")
               \/ found = {} /\ backend # "supabase" /\ Return(c)
            /\ UNCHANGED <<db, historyVars, faults>>
         \/ ReadFails(c) /\ Return(c)
  /\ UNCHANGED <<backend, told>>

GetTemplateByAlias(c) ==
  /\ At(c, "lookupAlias")
  /\ LET found == Supabase!GetTemplateByAlias(call[c].name)
     IN  \/ /\ \/ \E t \in found : Chosen(c, t)
               \/ found = {} /\ Return(c)
            /\ UNCHANGED <<db, historyVars, faults>>
         \/ ReadFails(c) /\ Return(c)
  /\ UNCHANGED <<backend, told>>

InsertSandboxGoesOn(c) ==  \* mutant: the spawn is counted before the error is looked at
  /\ At(c, "insert")
  /\ LET id == call[c].id
         row == NewSandbox(call[c].template)
     IN  \E o \in Outcomes(Of(Memory!CreateSandbox(id, row), Postgres!CreateSandbox(id, row),
                              Supabase!CreateSandbox(id, row))) :
           /\ Take(c, o)
           /\ Goto(c, "count")
           /\ IF o.result.ok THEN born' = Insert(born, id, row.template) ELSE UNCHANGED born
  /\ UNCHANGED <<backend, told, missed, dropped>>
(* store.CreateSandbox: the row, and only after it the count. *)
InsertSandbox(c) ==
  /\ At(c, "insert")
  /\ LET id == call[c].id
         row == NewSandbox(call[c].template)
     IN  \E o \in Outcomes(Of(Memory!CreateSandbox(id, row), Postgres!CreateSandbox(id, row),
                              Supabase!CreateSandbox(id, row))) :
           /\ Take(c, o)
           /\ IF o.result.ok THEN Goto(c, "count") /\ UNCHANGED told ELSE Tell(c, "refused")
           /\ IF id \in DOMAIN o.result.db.sandboxes THEN born' = Insert(born, id, row.template)
                                                     ELSE UNCHANGED born
           /\ missed' = IF o.sound THEN missed ELSE missed \cup {row.template}
  /\ UNCHANGED <<backend, dropped>>

(* The count is read and written by Supabase's store, else one statement; its
   errors are ignored. *)
CountSpawn(c) ==
  /\ At(c, "count") /\ backend # "supabase"
  /\ LET t == call[c].template
     IN  \E o \in Outcomes(Of(Memory!IncrementTemplateSpawnCount(t),
                              Postgres!IncrementTemplateSpawnCount(t), Nothing)) :
           /\ Take(c, o)
           /\ missed' = IF o.sound THEN missed ELSE missed \cup {t}
  /\ Goto(c, "schedule")
  /\ UNCHANGED <<backend, told, dropped, born>>

ReadSpawnCount(c) ==
  /\ At(c, "count") /\ backend = "supabase"
  /\ LET t == call[c].template
     IN  \/ /\ t \in Supabase!GetTemplate(t)
            /\ call' = [call EXCEPT ![c].at = "write", ![c].read = db.templates[t].spawns]
            /\ missed' = IF \E d \in Calls : At(d, "write") /\ call[d].template = t
                         THEN missed \cup {t} ELSE missed
            /\ UNCHANGED <<db, hit, faults>>
         \/ t \notin Supabase!GetTemplate(t) /\ Goto(c, "schedule") /\ UNCHANGED <<db, missed, hit, faults>>
         \/ /\ \E o \in Outcomes(Nothing) : ~o.sound /\ Take(c, o)
            /\ missed' = missed \cup {t} /\ Goto(c, "schedule")
  /\ UNCHANGED <<backend, told, dropped, born>>

WriteSpawnCount(c) ==
  /\ At(c, "write")
  /\ LET t == call[c].template
     IN  \E o \in Outcomes(Supabase!WriteSpawnCount(t, call[c].read)) :
           /\ Take(c, o)
           /\ missed' = IF o.sound THEN missed ELSE missed \cup {t}
  /\ Goto(c, "schedule")
  /\ UNCHANGED <<backend, told, dropped, born>>

(* The scheduler starts the sandbox, or refuses and the row goes. *)
Schedule(c) ==
  /\ At(c, "schedule")
  /\ Tell(c, "created") \/ (Goto(c, "undo") /\ UNCHANGED told)
  /\ UNCHANGED <<db, backend, historyVars, faults>>

DeleteRow(id) == Of(Memory!DeleteSandbox(id), Postgres!DeleteSandbox(id), Supabase!DeleteSandbox(id))

UndoSandboxForgotten(c) ==  \* mutant: the row of a refused sandbox stays
  /\ At(c, "undo")
  /\ Tell(c, "refused")
  /\ UNCHANGED <<db, backend, historyVars, faults>>
UndoSandbox(c) ==
  /\ At(c, "undo")
  /\ \E o \in Outcomes(DeleteRow(call[c].id)) : Take(c, o)
  /\ Tell(c, "refused")
  /\ UNCHANGED <<backend, dropped, born, missed>>

-----------------------------------------------------------------------------
(* DELETE /sandboxes/{id}, after the scheduler's attempt to stop it. *)
DeleteSandbox(c) ==
  /\ At(c, "delete")
  /\ \E o \in Outcomes(DeleteRow(call[c].id)) : Take(c, o)
  /\ Return(c)
  /\ UNCHANGED <<backend, told, dropped, born, missed>>

Found(id) == Of(Memory!GetSandbox(id), Postgres!GetSandbox(id), Supabase!GetSandbox(id))

(* POST /sandboxes/{id}/pause and /resume: a row in the other state is looked
   for, the scheduler does it or not, and then the row follows.  POST .../timeout
   and .../refreshes move the end of any sandbox that has a row. *)
FindSandbox(c) ==
  /\ At(c, "find")
  /\ LET id == call[c].id
     IN  \/ /\ \/ call[c].set = "later" /\ Found(id) # {} /\ Goto(c, "extend")
               \/ call[c].set # "later" /\ Found(id) # {} /\ db.sandboxes[id].state # call[c].set
                  /\ Goto(c, "mark")
               \/ Return(c)
            /\ UNCHANGED <<db, historyVars, faults>>
         \/ ReadFails(c) /\ Return(c)
  /\ UNCHANGED <<backend, told>>

ChangeSandbox(c, field, value) ==
  LET id == call[c].id
  IN  \E o \in Outcomes(Of(Memory!UpdateSandbox(id, field, value), Postgres!UpdateSandbox(id, field, value),
                           Supabase!UpdateSandbox(id, field, value))) : Take(c, o)

(* A request to resume may also give a timeout. *)
UpdateSandboxState(c) ==
  /\ At(c, "mark")
  /\ ChangeSandbox(c, "state", call[c].set)
  /\ Return(c) \/ (call[c].set = "running" /\ Goto(c, "extend"))
  /\ UNCHANGED <<backend, told, dropped, born, missed>>

(* The answer is 204, whatever the database says. *)
UpdateSandboxTimeout(c) ==
  /\ At(c, "extend")
  /\ ChangeSandbox(c, "endAt", "later")
  /\ IF told[call[c].id] = "created" THEN Tell(c, "extended") ELSE Return(c) /\ UNCHANGED told
  /\ UNCHANGED <<backend, dropped, born, missed>>

-----------------------------------------------------------------------------
(* POST /v3/templates, and the base template that the server seeds. *)
CreateTemplate(c) ==
  /\ At(c, "template")
  /\ LET t == call[c].id
         alias == call[c].name
     IN  \E o \in Outcomes(Of(Memory!CreateTemplate(t, alias), Postgres!CreateTemplate(t, alias),
                              Supabase!CreateTemplate(t, alias))) :
           /\ Take(c, o)
           /\ IF ~o.result.ok THEN Tell(c, "refused")
              ELSE IF backend = "supabase" THEN Goto(c, "build") /\ UNCHANGED told
              ELSE Tell(c, "created")
  /\ UNCHANGED <<backend, dropped, born, missed>>

CreateFirstBuild(c) ==
  /\ At(c, "build")
  /\ \E o \in Outcomes(Supabase!CreateFirstBuild(call[c].id)) :
       Take(c, o) /\ Tell(c, IF o.result.ok THEN "created" ELSE "refused")
  /\ UNCHANGED <<backend, dropped, born, missed>>

DeleteTemplate(c) ==
  /\ At(c, "deleteTemplate")
  /\ LET t == call[c].id
     IN  \E o \in Outcomes(Of(Memory!DeleteTemplate(t), Postgres!DeleteTemplate(t),
                              Supabase!DeleteTemplate(t))) : Take(c, o)
  /\ Return(c)
  /\ UNCHANGED <<backend, told, dropped, born, missed>>

Change(t, field, value) ==
  Of(Memory!UpdateTemplate(t, field, value), Postgres!UpdateTemplate(t, field, value),
     Supabase!UpdateTemplate(t, field, value))

(* PATCH /templates/{id}. *)
UpdateTemplate(c) ==
  /\ At(c, "publish")
  /\ \E o \in Outcomes(Change(call[c].id, "public", TRUE)) : Take(c, o)
  /\ Return(c)
  /\ UNCHANGED <<backend, told, dropped, born, missed>>

(* A build is done: its row, then its template's, whatever the database says. *)
FinishBuild(c) ==
  /\ At(c, "finish")
  /\ LET t == call[c].id
     IN  \E o \in Outcomes(Of(Memory!UpdateBuild(t, "done"), Postgres!UpdateBuild(t, "done"),
                              Supabase!UpdateBuild(t, "done"))) : Take(c, o)
  /\ Goto(c, "finishTemplate")
  /\ UNCHANGED <<backend, told, dropped, born, missed>>

FinishTemplate(c) ==
  /\ At(c, "finishTemplate")
  /\ \E o \in Outcomes(Change(call[c].id, "status", "done")) : Take(c, o)
  /\ Return(c)
  /\ UNCHANGED <<backend, told, dropped, born, missed>>

-----------------------------------------------------------------------------
(* What the listings answer. *)
Listed(states) ==
  Of(Memory!ListSandboxes(states), Postgres!ListSandboxes(states), Supabase!ListSandboxes(states))
ListedTemplates == Of(Memory!ListTemplates, Postgres!ListTemplates, Supabase!ListTemplates)
ListedBuilds(t) ==
  Of(Memory!ListBuildsForTemplate(t), Postgres!ListBuildsForTemplate(t),
     Supabase!ListBuildsForTemplate(t))
(* GET /templates/{id}/builds/{id}/status looks for the template and the build. *)
BuildStatusKnown(t) ==
  /\ Named(t) # {}
  /\ Of(Memory!GetBuild(t), Postgres!GetBuild(t), Supabase!GetBuild(t)) # {}

(* Identifiers are random: a new row has one that was never in use.  The others
   are those that the client was told or finds in a list. *)
Fresh(id) == told[id] = "nothing" /\ ~Working(id)
Known(id) == told[id] \in {"created", "extended"} \/ id \in Listed({}) \cup ListedTemplates

Asked(at, id) ==
  CASE at = "lookup"   -> id \in Sandboxes /\ Fresh(id)
    [] at = "template" -> id \in Templates /\ Fresh(id)
    [] at \in {"delete", "find"} -> id \in Sandboxes /\ Known(id)
    [] at \in {"deleteTemplate", "publish"} -> id \in Templates /\ Known(id)
    [] at = "finish" -> id \in Templates /\ told[id] = "created" /\ id \in DOMAIN db.builds

Receive(c, at, id, name, set) ==
  /\ call[c] = Idle /\ requests < MaxRequests
  /\ Asked(at, id)
  /\ requests' = requests + 1
  /\ call' = [call EXCEPT ![c] = [at |-> at, id |-> id, name |-> name, set |-> set, read |-> 0,
                                  template |-> CHOOSE t \in Templates : TRUE]]
  /\ dropped' = IF at \in {"delete", "deleteTemplate"} THEN dropped \cup {id} ELSE dropped
  /\ UNCHANGED <<db, backend, told, born, missed, hit, faults>>

Request(c, id) ==
  \/ \E n \in Names : Receive(c, "lookup", id, n, "running")
  \/ \E a \in Aliases : Receive(c, "template", id, a, "running")
  \/ \E at \in {"delete", "deleteTemplate", "publish", "finish"} : Receive(c, at, id, AnyName, "running")
  \/ \E s \in {"running", "paused", "later"} : Receive(c, "find", id, AnyName, s)

(* The server ends and is started again.  It goes on in memory, with nothing,
   when its database does not answer at that moment; in this model for good. *)
Restart ==
  /\ faults < MaxFaults /\ faults' = faults + 1
  /\ call' = [c \in Calls |-> Idle]
  /\ hit' = {id \in Ids : id \in hit \/ Working(id)}
  /\ missed' = missed \cup {call[c].template : c \in {d \in Calls : call[d].at \in {"count", "write"}}}
  /\ backend' \in {backend, "memory"}
  /\ db' = IF backend' = "memory" THEN Empty ELSE db
  /\ told' = [id \in Ids |->
               IF (backend' = "memory" /\ told[id] # "nothing") \/ (Working(id) /\ told[id] = "nothing")
               THEN "forgotten" ELSE told[id]]
  /\ UNCHANGED <<dropped, born, requests>>

Init ==
  /\ backend \in Backends
  /\ db = Empty
  /\ call = [c \in Calls |-> Idle]
  /\ told = [id \in Ids |-> "nothing"]
  /\ dropped = {} /\ born = <<>> /\ missed = {} /\ hit = {}
  /\ faults = 0 /\ requests = 0

Handle(c) ==
  \/ GetTemplate(c) \/ GetTemplateByAlias(c) \/ InsertSandbox(c) \/ CountSpawn(c)
  \/ ReadSpawnCount(c) \/ WriteSpawnCount(c) \/ Schedule(c) \/ UndoSandbox(c)
  \/ DeleteSandbox(c) \/ FindSandbox(c) \/ UpdateSandboxState(c) \/ UpdateSandboxTimeout(c)
  \/ CreateTemplate(c) \/ CreateFirstBuild(c) \/ DeleteTemplate(c) \/ UpdateTemplate(c)
  \/ FinishBuild(c) \/ FinishTemplate(c)

Next ==
  \/ \E c \in Calls : Handle(c) /\ UNCHANGED requests
  \/ \E c \in Calls, id \in Ids : Request(c, id)
  \/ Restart

Spec == Init /\ [][Next]_vars

-----------------------------------------------------------------------------
(* Type invariant.  Outside memory every build and every sandbox has its
   template, for all deletions: the references of the schema. *)
TypeOK ==
  /\ TablesTypeOK
  /\ backend \in Backends
  /\ backend # "memory" =>
       /\ DOMAIN db.builds \subseteq DOMAIN db.templates
       /\ \A id \in DOMAIN db.sandboxes : db.sandboxes[id].template \in DOMAIN db.templates
  /\ \A c \in Calls : call[c] \in InProgress \cup {Idle}
  /\ told \in [Ids -> {"nothing", "created", "extended", "refused", "forgotten"}]
  /\ dropped \subseteq Ids /\ hit \subseteq Ids /\ missed \subseteq Templates
  /\ DOMAIN born \subseteq Sandboxes /\ Range(born) \subseteq Templates
  /\ faults \in 0 .. MaxFaults /\ requests \in 0 .. MaxRequests

(* A template's spawn count is never more than the sandboxes that were made of
   it, and is that number once their requests are done, unless the count was
   cut off or, on Supabase, two requests counted at once (CreateSandbox,
   IncrementTemplateSpawnCount). *)
SpawnsCounted ==
  \A t \in DOMAIN db.templates :
    LET spawned == Cardinality({id \in DOMAIN born : born[id] = t})
        counting == \E c \in Calls : call[c].at \in {"count", "write"} /\ call[c].template = t
    IN  /\ db.templates[t].spawns <= spawned
        /\ ~counting /\ t \notin missed => db.templates[t].spawns = spawned

(* What the clients were told is so.  A sandbox that was created is listed, and
   a template that was created has its build, until someone asks for their
   deletion; a creation that was refused has left no row, and an end that was
   moved stays so whatever else is written to the row, unless a request to the
   database failed (CreateSandbox, CreateTemplate, UpdateSandbox). *)
AnswersHold ==
  \A id \in Ids :
    /\ told[id] \in {"created", "extended"} /\ id \notin dropped =>
         IF id \in Sandboxes THEN id \in Listed({"running", "paused"}) \cap Listed({})
         ELSE id \in ListedTemplates /\ ListedBuilds(id) # {} /\ BuildStatusKnown(id)
    /\ told[id] = "extended" /\ id \in DOMAIN db.sandboxes \ hit => db.sandboxes[id].endAt = "later"
    /\ told[id] = "refused" /\ id \notin hit =>
         id \notin DOMAIN db.sandboxes \cup DOMAIN db.templates \cup DOMAIN db.builds

(* The life of a sandbox as the database in use shows it. *)
RowLife == [id \in Sandboxes |-> IF id \in DOMAIN db.sandboxes THEN db.sandboxes[id].state
                                 ELSE IF id \in DOMAIN born THEN "gone" ELSE "unborn"]

L == INSTANCE Lifecycle WITH Ids <- Sandboxes, life <- RowLife

(* What SandboxApi takes for granted of the database: a row is inserted once,
   and no update or undo that is still at work, no lost answer and no restart
   brings a deleted one back (UpdateSandbox, DeleteSandbox of the three). *)
RowsLiveOnce == L!Spec
=============================================================================
