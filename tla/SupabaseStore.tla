---------------------------- MODULE SupabaseStore ----------------------------
(***************************************************************************)
(* The store over Supabase (supabase.go): the same schema behind a REST    *)
(* interface.  An operation is one HTTP request or several, and a request  *)
(* that changes or deletes the rows that match succeeds when none does.    *)
(***************************************************************************)
EXTENDS Tables

Post(table, key, row) == Done([db EXCEPT ![table] = Insert(@, key, row)])
Patch(table, key, row) == IF key \in DOMAIN db[table] THEN Post(table, key, row) ELSE Nothing

CreateSandbox(id, row) ==
  IF row.template \in DOMAIN db.templates /\ id \notin DOMAIN db.sandboxes
  THEN Post("sandboxes", id, row)
  ELSE Failed

GetSandbox(id) == {id} \cap DOMAIN db.sandboxes

UpdateSandbox(id, field, value) == 
  Patch("sandboxes", id, [db.sandboxes[id] EXCEPT ![field] = value])

DeleteSandbox(id) == Done([db EXCEPT !.sandboxes = Without(@, {id})])

ListSandboxes(states) ==
  IF states = {} THEN DOMAIN db.sandboxes
  ELSE {id \in DOMAIN db.sandboxes : db.sandboxes[id].state \in states}

-----------------------------------------------------------------------------
(* CreateTemplate is two requests, and leaves the first in place when the
   second fails. *)
CreateTemplate(t, alias) ==
  IF t \notin DOMAIN db.templates THEN Post("templates", t, NewTemplate(alias)) ELSE Failed
CreateFirstBuild(t) ==
  IF t \in DOMAIN db.templates /\ t \notin DOMAIN db.builds THEN Post("builds", t, "waiting") ELSE Failed

(* GetTemplate, by identifier and, in a second request, by alias. *)
GetTemplate(name) == ById(name)
GetTemplateByAlias(name) == ByAlias(name)

ListTemplates == DOMAIN db.templates

UpdateTemplate(t, field, value) ==
  Patch("templates", t, [db.templates[t] EXCEPT ![field] = value])

DeleteTemplate(t) ==
  IF \A id \in DOMAIN db.sandboxes : db.sandboxes[id].template # t
  THEN Done([db EXCEPT !.templates = Without(@, {t}), !.builds = Without(@, {t})])
  ELSE Failed

(* IncrementTemplateSpawnCount reads the count and writes the next one. *)
WriteSpawnCount(t, read) == Patch("templates", t, [db.templates[t] EXCEPT !.spawns = read + 1])

GetBuild(t) == {t} \cap DOMAIN db.builds

UpdateBuild(t, status) == Patch("builds", t, status)

ListBuildsForTemplate(t) == {t} \cap DOMAIN db.builds
=============================================================================
