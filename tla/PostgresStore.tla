---------------------------- MODULE PostgresStore ----------------------------
(***************************************************************************)
(* The store over a PostgreSQL database (postgres.go), with the keys and   *)
(* references of its schema (001_initial_schema.sql).  Each operation is   *)
(* one statement, or one transaction, and all but the update of a build    *)
(* and the spawn count report that they met no row.                        *)
(***************************************************************************)
EXTENDS Tables

(* sandboxes.template_id REFERENCES templates. *)
CreateSandbox(id, row) ==
  IF row.template \in DOMAIN db.templates /\ id \notin DOMAIN db.sandboxes
  THEN Done([db EXCEPT !.sandboxes = Insert(@, id, row)])
  ELSE Failed

GetSandbox(id) == {id} \cap DOMAIN db.sandboxes

UpdateSandbox(id, field, value) ==
  IF id \in DOMAIN db.sandboxes THEN Done([db EXCEPT !.sandboxes[id][field] = value]) ELSE Failed

DeleteSandbox(id) ==
  IF id \in DOMAIN db.sandboxes THEN Done([db EXCEPT !.sandboxes = Without(@, {id})]) ELSE Failed

ListSandboxes(states) ==
  {id \in DOMAIN db.sandboxes : states # {} => db.sandboxes[id].state \in states}

-----------------------------------------------------------------------------
(* Both rows or neither. *)
CreateTemplate(t, alias) ==
  IF t \notin DOMAIN db.templates
  THEN Done([db EXCEPT !.templates = Insert(@, t, NewTemplate(alias)), !.builds = Insert(@, t, "waiting")])
  ELSE Failed

(* Any row that matches, by identifier or by alias. *)
GetTemplate(name) == ById(name) \cup ByAlias(name)

ListTemplates == DOMAIN db.templates

UpdateTemplate(t, field, value) ==
  IF t \in DOMAIN db.templates THEN Done([db EXCEPT !.templates[t][field] = value]) ELSE Failed

DeleteTemplateAnyway(t) ==  \* mutant: sandboxes without a reference to their template
  IF t \in DOMAIN db.templates
  THEN Done([db EXCEPT !.templates = Without(@, {t}), !.builds = Without(@, {t})])
  ELSE Failed
(* Refused while a sandbox refers to the template; its builds go with it. *)
DeleteTemplate(t) ==
  IF t \in DOMAIN db.templates /\ \A id \in DOMAIN db.sandboxes : db.sandboxes[id].template # t
  THEN Done([db EXCEPT !.templates = Without(@, {t}), !.builds = Without(@, {t})])
  ELSE Failed

IncrementTemplateSpawnCount(t) ==
  IF t \in DOMAIN db.templates THEN Done([db EXCEPT !.templates[t].spawns = @ + 1]) ELSE Nothing

GetBuild(t) == {t} \cap DOMAIN db.builds

UpdateBuild(t, status) ==
  IF t \in DOMAIN db.builds THEN Done([db EXCEPT !.builds[t] = status]) ELSE Nothing

ListBuildsForTemplate(t) == {t} \cap DOMAIN db.builds
=============================================================================
