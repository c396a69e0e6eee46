----------------------------- MODULE MemoryStore -----------------------------
(***************************************************************************)
(* The store that keeps its rows in the maps of the process (memory.go).   *)
(* Each operation runs under the store's lock and nothing ties one map to  *)
(* another.                                                                *)
(***************************************************************************)
EXTENDS Tables

CreateSandbox(id, row) == Done([db EXCEPT !.sandboxes = Insert(@, id, row)])

GetSandbox(id) == {id} \cap DOMAIN db.sandboxes

UpdateSandboxOrInsert(id, field, value) ==  \* mutant: the row is written whether or not it is there
  LET row == IF id \in DOMAIN db.sandboxes THEN db.sandboxes[id] ELSE NewSandbox(CHOOSE t \in Templates : TRUE)
  IN  Done([db EXCEPT !.sandboxes = Insert(@, id, [row EXCEPT ![field] = value])])
UpdateSandbox(id, field, value) ==
  IF id \in DOMAIN db.sandboxes THEN Done([db EXCEPT !.sandboxes[id][field] = value]) ELSE Failed

DeleteSandbox(id) ==
  IF id \in DOMAIN db.sandboxes THEN Done([db EXCEPT !.sandboxes = Without(@, {id})]) ELSE Failed

(* An empty filter lists all; so do the other two stores. *)
ListSandboxes(states) ==
  {id \in DOMAIN db.sandboxes : states = {} \/ db.sandboxes[id].state \in states}

-----------------------------------------------------------------------------
(* The template and its first build. *)
CreateTemplate(t, alias) ==
  Done([db EXCEPT !.templates = Insert(@, t, NewTemplate(alias)), !.builds = Insert(@, t, "waiting")])

(* By identifier, else any that has the alias: Go iterates maps in any order. *)
GetTemplate(name) == IF ById(name) # {} THEN ById(name) ELSE ByAlias(name)

ListTemplates == DOMAIN db.templates

UpdateTemplate(t, field, value) ==
  IF t \in DOMAIN db.templates THEN Done([db EXCEPT !.templates[t][field] = value]) ELSE Failed

DeleteTemplate(t) ==
  IF t \in DOMAIN db.templates THEN Done([db EXCEPT !.templates = Without(@, {t})]) ELSE Failed

IncrementTemplateSpawnCount(t) ==
  IF t \in DOMAIN db.templates THEN Done([db EXCEPT !.templates[t].spawns = @ + 1]) ELSE Nothing

GetBuild(t) == {t} \cap DOMAIN db.builds

UpdateBuild(t, status) ==
  IF t \in DOMAIN db.builds THEN Done([db EXCEPT !.builds[t] = status]) ELSE Failed

ListBuildsForTemplate(t) == {t} \cap DOMAIN db.builds
=============================================================================
