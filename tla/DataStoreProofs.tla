-------------------------- MODULE DataStoreProofs --------------------------
(***************************************************************************)
(* Theorems about the requests over each of the three databases, for any   *)
(* sets of sandboxes, templates, aliases and requests, and any number of   *)
(* faults: the tables' references, what the clients were told, the counts. *)
(***************************************************************************)
EXTENDS DataStore, FiniteSetTheorems, TLAPS

-----------------------------------------------------------------------------
(* Tables.  A database's contents and, outside memory, its references.       *)
Well(d) ==
  /\ d = [sandboxes |-> d.sandboxes, templates |-> d.templates, builds |-> d.builds]
  /\ DOMAIN d.sandboxes \subseteq Sandboxes /\ d.sandboxes \in [DOMAIN d.sandboxes -> SandboxRow]
  /\ DOMAIN d.templates \subseteq Templates /\ d.templates \in [DOMAIN d.templates -> TemplateRow]
  /\ DOMAIN d.builds \subseteq Templates /\ d.builds \in [DOMAIN d.builds -> BuildRow]

Referring(d) ==
  /\ DOMAIN d.builds \subseteq DOMAIN d.templates
  /\ \A id \in DOMAIN d.sandboxes : d.sandboxes[id].template \in DOMAIN d.templates

(* What an operation may make of one table. *)
WithSandbox(d, id, row) == [d EXCEPT !.sandboxes = Insert(@, id, row)]
WithoutSandbox(d, id) == [d EXCEPT !.sandboxes = Without(@, {id})]
WithTemplate(d, t, row) == [d EXCEPT !.templates = Insert(@, t, row)]
WithBuild(d, t, row) == [d EXCEPT !.builds = Insert(@, t, row)]
WithBoth(d, t, row, build) ==
  [d EXCEPT !.templates = Insert(@, t, row), !.builds = Insert(@, t, build)]
WithoutTemplate(d, t) == [d EXCEPT !.templates = Without(@, {t})]
WithoutBoth(d, t) == [d EXCEPT !.templates = Without(@, {t}), !.builds = Without(@, {t})]

(* A table after an insertion, and after a deletion. *)
LEMMA InsertRow ==
  ASSUME NEW table, NEW key, NEW row
  PROVE  /\ DOMAIN Insert(table, key, row) = DOMAIN table \cup {key}
         /\ Insert(table, key, row)[key] = row
         /\ \A k \in DOMAIN table \ {key} : Insert(table, key, row)[k] = table[k]
  BY DEF Insert

LEMMA WithoutRows ==
  ASSUME NEW table, NEW keys
  PROVE  /\ DOMAIN Without(table, keys) = DOMAIN table \ keys
         /\ \A k \in DOMAIN table \ keys : Without(table, keys)[k] = table[k]
  BY DEF Without, Restrict

LEMMA InsertTyped ==
  ASSUME NEW S, NEW R, NEW table, table \in [DOMAIN table -> R], DOMAIN table \subseteq S,
         NEW key \in S, NEW row \in R
  PROVE  /\ DOMAIN Insert(table, key, row) \subseteq S
         /\ Insert(table, key, row) \in [DOMAIN Insert(table, key, row) -> R]
  BY DEF Insert

LEMMA WithoutTyped ==
  ASSUME NEW S, NEW R, NEW table, table \in [DOMAIN table -> R], DOMAIN table \subseteq S, NEW keys
  PROVE  /\ DOMAIN Without(table, keys) \subseteq S
         /\ Without(table, keys) \in [DOMAIN Without(table, keys) -> R]
  BY DEF Without, Restrict

LEMMA EmptyTables ==
  /\ Well(Empty) /\ Referring(Empty)
  /\ DOMAIN Empty.sandboxes = {} /\ DOMAIN Empty.templates = {} /\ DOMAIN Empty.builds = {}
  BY DEF Empty, Well, Referring

(* Each of the tables after an edit of one. *)
LEMMA EditedSandboxes ==
  ASSUME NEW d, Well(d), NEW table
  PROVE  LET e == [d EXCEPT !.sandboxes = table]
         IN  /\ e = [sandboxes |-> table, templates |-> d.templates, builds |-> d.builds]
             /\ e.sandboxes = table /\ e.templates = d.templates /\ e.builds = d.builds
  BY DEF Well

LEMMA EditedTemplates ==
  ASSUME NEW d, Well(d), NEW table
  PROVE  LET e == [d EXCEPT !.templates = table]
         IN  /\ e = [sandboxes |-> d.sandboxes, templates |-> table, builds |-> d.builds]
             /\ e.sandboxes = d.sandboxes /\ e.templates = table /\ e.builds = d.builds
  BY DEF Well

LEMMA EditedBuilds ==
  ASSUME NEW d, Well(d), NEW table
  PROVE  LET e == [d EXCEPT !.builds = table]
         IN  /\ e = [sandboxes |-> d.sandboxes, templates |-> d.templates, builds |-> table]
             /\ e.sandboxes = d.sandboxes /\ e.templates = d.templates /\ e.builds = table
  BY DEF Well

LEMMA EditedBoth ==
  ASSUME NEW d, Well(d), NEW table, NEW builds
  PROVE  [d EXCEPT !.templates = table, !.builds = builds]
           = [sandboxes |-> d.sandboxes, templates |-> table, builds |-> builds]
  <1> DEFINE half == [sandboxes |-> d.sandboxes, templates |-> table, builds |-> d.builds]
  <1>1. [d EXCEPT !.templates = table] = half
    BY EditedTemplates
  <1>2. [half EXCEPT !.builds = builds] = [sandboxes |-> d.sandboxes, templates |-> table, builds |-> builds]
    OBVIOUS
  <1> QED
    BY <1>1, <1>2

LEMMA SandboxInserted ==
  ASSUME NEW d, Well(d), NEW id \in Sandboxes, NEW row \in SandboxRow
  PROVE  LET e == WithSandbox(d, id, row)
         IN  /\ Well(e)
             /\ DOMAIN e.sandboxes = DOMAIN d.sandboxes \cup {id}
             /\ e.sandboxes[id] = row
             /\ \A k \in DOMAIN d.sandboxes \ {id} : e.sandboxes[k] = d.sandboxes[k]
             /\ e.templates = d.templates /\ e.builds = d.builds
             /\ Referring(d) /\ row.template \in DOMAIN d.templates => Referring(e)
  <1> DEFINE table == Insert(d.sandboxes, id, row)
  <1> DEFINE e == WithSandbox(d, id, row)
  <1>1. e = [d EXCEPT !.sandboxes = table]
    BY DEF WithSandbox
  <1>2. /\ DOMAIN table = DOMAIN d.sandboxes \cup {id} /\ table[id] = row
        /\ \A k \in DOMAIN d.sandboxes \ {id} : table[k] = d.sandboxes[k]
    BY InsertRow DEF Insert
  <1>3. DOMAIN table \subseteq Sandboxes /\ table \in [DOMAIN table -> SandboxRow]
    BY InsertTyped DEF Well
  <1> HIDE DEF table, e
  <1>4. /\ e = [sandboxes |-> table, templates |-> d.templates, builds |-> d.builds]
        /\ e.sandboxes = table /\ e.templates = d.templates /\ e.builds = d.builds
    BY <1>1, EditedSandboxes
  <1>5. Well(e)
    BY <1>3, <1>4 DEF Well
  <1>6. Referring(d) /\ row.template \in DOMAIN d.templates => Referring(e)
    BY <1>2, <1>4 DEF Referring
  <1> QED
    BY <1>2, <1>4, <1>5, <1>6 DEF e

LEMMA SandboxRemoved ==
  ASSUME NEW d, Well(d), NEW id
  PROVE  LET e == WithoutSandbox(d, id)
         IN  /\ Well(e)
             /\ DOMAIN e.sandboxes = DOMAIN d.sandboxes \ {id}
             /\ \A k \in DOMAIN d.sandboxes \ {id} : e.sandboxes[k] = d.sandboxes[k]
             /\ e.templates = d.templates /\ e.builds = d.builds
             /\ Referring(d) => Referring(e)
  <1> DEFINE table == Without(d.sandboxes, {id})
  <1> DEFINE e == WithoutSandbox(d, id)
  <1>1. e = [d EXCEPT !.sandboxes = table]
    BY DEF WithoutSandbox
  <1>2. /\ DOMAIN table = DOMAIN d.sandboxes \ {id}
        /\ \A k \in DOMAIN d.sandboxes \ {id} : table[k] = d.sandboxes[k]
    BY WithoutRows
  <1>3. DOMAIN table \subseteq Sandboxes /\ table \in [DOMAIN table -> SandboxRow]
    BY WithoutTyped DEF Well
  <1> HIDE DEF table, e
  <1>4. /\ e = [sandboxes |-> table, templates |-> d.templates, builds |-> d.builds]
        /\ e.sandboxes = table /\ e.templates = d.templates /\ e.builds = d.builds
    BY <1>1, EditedSandboxes
  <1>5. Well(e)
    BY <1>3, <1>4 DEF Well
  <1>6. Referring(d) => Referring(e)
    BY <1>2, <1>4 DEF Referring
  <1> QED
    BY <1>2, <1>4, <1>5, <1>6 DEF e

LEMMA TemplateInserted ==
  ASSUME NEW d, Well(d), NEW t \in Templates, NEW row \in TemplateRow
  PROVE  LET e == WithTemplate(d, t, row)
         IN  /\ Well(e)
             /\ DOMAIN e.templates = DOMAIN d.templates \cup {t}
             /\ e.templates[t] = row
             /\ \A k \in DOMAIN d.templates \ {t} : e.templates[k] = d.templates[k]
             /\ e.sandboxes = d.sandboxes /\ e.builds = d.builds
             /\ Referring(d) => Referring(e)
  <1> DEFINE table == Insert(d.templates, t, row)
  <1> DEFINE e == WithTemplate(d, t, row)
  <1>1. e = [d EXCEPT !.templates = table]
    BY DEF WithTemplate
  <1>2. /\ DOMAIN table = DOMAIN d.templates \cup {t} /\ table[t] = row
        /\ \A k \in DOMAIN d.templates \ {t} : table[k] = d.templates[k]
    BY InsertRow DEF Insert
  <1>3. DOMAIN table \subseteq Templates /\ table \in [DOMAIN table -> TemplateRow]
    BY InsertTyped DEF Well
  <1> HIDE DEF table, e
  <1>4. /\ e = [sandboxes |-> d.sandboxes, templates |-> table, builds |-> d.builds]
        /\ e.sandboxes = d.sandboxes /\ e.templates = table /\ e.builds = d.builds
    BY <1>1, EditedTemplates
  <1>5. Well(e)
    BY <1>3, <1>4 DEF Well
  <1>6. Referring(d) => Referring(e)
    BY <1>2, <1>4 DEF Referring
  <1> QED
    BY <1>2, <1>4, <1>5, <1>6 DEF e

LEMMA BuildInserted ==
  ASSUME NEW d, Well(d), NEW t \in Templates, NEW row \in BuildRow
  PROVE  LET e == WithBuild(d, t, row)
         IN  /\ Well(e)
             /\ DOMAIN e.builds = DOMAIN d.builds \cup {t}
             /\ e.sandboxes = d.sandboxes /\ e.templates = d.templates
             /\ Referring(d) /\ t \in DOMAIN d.templates => Referring(e)
  <1> DEFINE table == Insert(d.builds, t, row)
  <1> DEFINE e == WithBuild(d, t, row)
  <1>1. e = [d EXCEPT !.builds = table]
    BY DEF WithBuild
  <1>2. DOMAIN table = DOMAIN d.builds \cup {t}
    BY InsertRow DEF Insert
  <1>3. DOMAIN table \subseteq Templates /\ table \in [DOMAIN table -> BuildRow]
    BY InsertTyped DEF Well
  <1> HIDE DEF table, e
  <1>4. /\ e = [sandboxes |-> d.sandboxes, templates |-> d.templates, builds |-> table]
        /\ e.sandboxes = d.sandboxes /\ e.templates = d.templates /\ e.builds = table
    BY <1>1, EditedBuilds
  <1>5. Well(e)
    BY <1>3, <1>4 DEF Well
  <1>6. Referring(d) /\ t \in DOMAIN d.templates => Referring(e)
    BY <1>2, <1>4 DEF Referring
  <1> QED
    BY <1>2, <1>4, <1>5, <1>6 DEF e

LEMMA BothInserted ==
  ASSUME NEW d, Well(d), NEW t \in Templates, NEW row \in TemplateRow, NEW build \in BuildRow
  PROVE  LET e == WithBoth(d, t, row, build)
         IN  /\ Well(e)
             /\ DOMAIN e.templates = DOMAIN d.templates \cup {t}
             /\ DOMAIN e.builds = DOMAIN d.builds \cup {t}
             /\ e.templates[t] = row
             /\ \A k \in DOMAIN d.templates \ {t} : e.templates[k] = d.templates[k]
             /\ e.sandboxes = d.sandboxes
             /\ Referring(d) => Referring(e)
  <1> DEFINE table == Insert(d.templates, t, row)
  <1> DEFINE builds == Insert(d.builds, t, build)
  <1> DEFINE e == WithBoth(d, t, row, build)
  <1>1. e = [d EXCEPT !.templates = table, !.builds = builds]
    BY DEF WithBoth
  <1>2. /\ DOMAIN table = DOMAIN d.templates \cup {t} /\ table[t] = row
        /\ \A k \in DOMAIN d.templates \ {t} : table[k] = d.templates[k]
        /\ DOMAIN builds = DOMAIN d.builds \cup {t}
    BY InsertRow DEF Insert
  <1>3. /\ DOMAIN table \subseteq Templates /\ table \in [DOMAIN table -> TemplateRow]
        /\ DOMAIN builds \subseteq Templates /\ builds \in [DOMAIN builds -> BuildRow]
    BY InsertTyped DEF Well
  <1> HIDE DEF table, builds, e
  <1>4. /\ e = [sandboxes |-> d.sandboxes, templates |-> table, builds |-> builds]
        /\ e.sandboxes = d.sandboxes /\ e.templates = table /\ e.builds = builds
    <2>1. [d EXCEPT !.templates = table, !.builds = builds]
            = [sandboxes |-> d.sandboxes, templates |-> table, builds |-> builds]
      BY EditedBoth
    <2> QED
      BY <1>1, <2>1
  <1>5. Well(e)
    BY <1>3, <1>4 DEF Well
  <1>6. Referring(d) => Referring(e)
    BY <1>2, <1>4 DEF Referring
  <1> QED
    BY <1>2, <1>4, <1>5, <1>6 DEF e

LEMMA TemplateRemoved ==
  ASSUME NEW d, Well(d), NEW t
  PROVE  LET e == WithoutTemplate(d, t)
         IN  /\ Well(e)
             /\ DOMAIN e.templates = DOMAIN d.templates \ {t}
             /\ \A k \in DOMAIN d.templates \ {t} : e.templates[k] = d.templates[k]
             /\ e.sandboxes = d.sandboxes /\ e.builds = d.builds
  <1> DEFINE table == Without(d.templates, {t})
  <1> DEFINE e == WithoutTemplate(d, t)
  <1>1. e = [d EXCEPT !.templates = table]
    BY DEF WithoutTemplate
  <1>2. /\ DOMAIN table = DOMAIN d.templates \ {t}
        /\ \A k \in DOMAIN d.templates \ {t} : table[k] = d.templates[k]
    BY WithoutRows
  <1>3. DOMAIN table \subseteq Templates /\ table \in [DOMAIN table -> TemplateRow]
    BY WithoutTyped DEF Well
  <1> HIDE DEF table, e
  <1>4. /\ e = [sandboxes |-> d.sandboxes, templates |-> table, builds |-> d.builds]
        /\ e.sandboxes = d.sandboxes /\ e.templates = table /\ e.builds = d.builds
    BY <1>1, EditedTemplates
  <1>5. Well(e)
    BY <1>3, <1>4 DEF Well
  <1> QED
    BY <1>2, <1>4, <1>5 DEF e

LEMMA BothRemoved ==
  ASSUME NEW d, Well(d), NEW t
  PROVE  LET e == WithoutBoth(d, t)
         IN  /\ Well(e)
             /\ DOMAIN e.templates = DOMAIN d.templates \ {t}
             /\ DOMAIN e.builds = DOMAIN d.builds \ {t}
             /\ \A k \in DOMAIN d.templates \ {t} : e.templates[k] = d.templates[k]
             /\ e.sandboxes = d.sandboxes
             /\ Referring(d) /\ (\A id \in DOMAIN d.sandboxes : d.sandboxes[id].template # t)
                => Referring(e)
  <1> DEFINE table == Without(d.templates, {t})
  <1> DEFINE builds == Without(d.builds, {t})
  <1> DEFINE e == WithoutBoth(d, t)
  <1>1. e = [d EXCEPT !.templates = table, !.builds = builds]
    BY DEF WithoutBoth
  <1>2. /\ DOMAIN table = DOMAIN d.templates \ {t}
        /\ \A k \in DOMAIN d.templates \ {t} : table[k] = d.templates[k]
        /\ DOMAIN builds = DOMAIN d.builds \ {t}
    BY WithoutRows
  <1>3. /\ DOMAIN table \subseteq Templates /\ table \in [DOMAIN table -> TemplateRow]
        /\ DOMAIN builds \subseteq Templates /\ builds \in [DOMAIN builds -> BuildRow]
    BY WithoutTyped DEF Well
  <1> HIDE DEF table, builds, e
  <1>4. /\ e = [sandboxes |-> d.sandboxes, templates |-> table, builds |-> builds]
        /\ e.sandboxes = d.sandboxes /\ e.templates = table /\ e.builds = builds
    <2>1. [d EXCEPT !.templates = table, !.builds = builds]
            = [sandboxes |-> d.sandboxes, templates |-> table, builds |-> builds]
      BY EditedBoth
    <2> QED
      BY <1>1, <2>1
  <1>5. Well(e)
    BY <1>3, <1>4 DEF Well
  <1>6. Referring(d) /\ (\A id \in DOMAIN d.sandboxes : d.sandboxes[id].template # t)
        => Referring(e)
    BY <1>2, <1>4 DEF Referring
  <1> QED
    BY <1>2, <1>4, <1>5, <1>6 DEF e

(* A change of a field is the insertion of the changed row. *)
LEMMA InsertOver ==
  ASSUME NEW table, table = [k \in DOMAIN table |-> table[k]], NEW key \in DOMAIN table, NEW row
  PROVE  [table EXCEPT ![key] = row] = Insert(table, key, row)
  BY DEF Insert

-----------------------------------------------------------------------------
(* Operations.  What each leaves in the tables, on any of the databases. *)
LEMMA SandboxCreated ==
  ASSUME NEW id, NEW row, backend \in Backends
  PROVE  LET r == Of(Memory!CreateSandbox(id, row), Postgres!CreateSandbox(id, row),
                     Supabase!CreateSandbox(id, row))
         IN  \/ /\ r = Done(WithSandbox(db, id, row))
                /\ backend # "memory" => row.template \in DOMAIN db.templates
             \/ /\ r = Failed /\ backend # "memory"
                /\ row.template \notin DOMAIN db.templates \/ id \in DOMAIN db.sandboxes
  BY DEF Of, Backends, WithSandbox, Done, Failed, Insert,
         Memory!CreateSandbox, Memory!Done, Memory!Insert,
         Postgres!CreateSandbox, Postgres!Done, Postgres!Failed, Postgres!Insert,
         Supabase!CreateSandbox, Supabase!Post, Supabase!Done, Supabase!Failed, Supabase!Insert

LEMMA SandboxDeleted ==
  ASSUME NEW id, backend \in Backends
  PROVE  \/ DeleteRow(id) = Done(WithoutSandbox(db, id))
         \/ DeleteRow(id) = Failed /\ id \notin DOMAIN db.sandboxes
  BY DEF DeleteRow, Of, Backends, WithoutSandbox, Done, Failed, Without, Restrict,
         Memory!DeleteSandbox, Memory!Done, Memory!Failed, Memory!Without, Memory!Restrict,
         Postgres!DeleteSandbox, Postgres!Done, Postgres!Failed, Postgres!Without, Postgres!Restrict,
         Supabase!DeleteSandbox, Supabase!Done, Supabase!Without, Supabase!Restrict

LEMMA SandboxUpdated ==
  ASSUME NEW id, NEW field, NEW value, backend \in Backends, Well(db)
  PROVE  LET r == Of(Memory!UpdateSandbox(id, field, value), Postgres!UpdateSandbox(id, field, value),
                     Supabase!UpdateSandbox(id, field, value))
         IN  \/ /\ r = Done(WithSandbox(db, id, [db.sandboxes[id] EXCEPT ![field] = value]))
                /\ id \in DOMAIN db.sandboxes
             \/ r \in {Failed, Nothing} /\ id \notin DOMAIN db.sandboxes
  <1> DEFINE row == [db.sandboxes[id] EXCEPT ![field] = value]
  <1>1. ASSUME id \in DOMAIN db.sandboxes
        PROVE  [db EXCEPT !.sandboxes[id][field] = value] = WithSandbox(db, id, row)
    <2>1. db.sandboxes = [k \in DOMAIN db.sandboxes |-> db.sandboxes[k]]
      BY DEF Well
    <2>2. [db.sandboxes EXCEPT ![id] = row] = Insert(db.sandboxes, id, row)
      <3> HIDE DEF row
      <3> QED
        BY <1>1, <2>1, InsertOver
    <2>3. [db.sandboxes EXCEPT ![id][field] = value] = [db.sandboxes EXCEPT ![id] = row]
      OBVIOUS
    <2> QED
      BY <2>2, <2>3 DEF WithSandbox
  <1>2. \/ /\ Memory!UpdateSandbox(id, field, value) = Done(WithSandbox(db, id, row))
           /\ id \in DOMAIN db.sandboxes
        \/ /\ Memory!UpdateSandbox(id, field, value) = Failed
           /\ id \notin DOMAIN db.sandboxes
    BY <1>1 DEF Memory!UpdateSandbox, Memory!Done, Memory!Failed, Done, Failed
  <1>3. \/ /\ Postgres!UpdateSandbox(id, field, value) = Done(WithSandbox(db, id, row))
           /\ id \in DOMAIN db.sandboxes
        \/ /\ Postgres!UpdateSandbox(id, field, value) = Failed
           /\ id \notin DOMAIN db.sandboxes
    BY <1>1 DEF Postgres!UpdateSandbox, Postgres!Done, Postgres!Failed, Done, Failed
  <1>4. \/ /\ Supabase!UpdateSandbox(id, field, value) = Done(WithSandbox(db, id, row))
           /\ id \in DOMAIN db.sandboxes
        \/ /\ Supabase!UpdateSandbox(id, field, value) = Nothing
           /\ id \notin DOMAIN db.sandboxes
    BY DEF Supabase!UpdateSandbox, Supabase!Patch, Supabase!Post, Supabase!Done, Supabase!Nothing,
           Supabase!Insert, Insert, Done, Nothing, WithSandbox
  <1> HIDE DEF row
  <1> QED
    BY <1>2, <1>3, <1>4 DEF Of, Backends, row

LEMMA TemplateUpdated ==
  ASSUME NEW t, NEW field, NEW value, backend \in Backends, Well(db)
  PROVE  LET r == Change(t, field, value)
         IN  \/ /\ r = Done(WithTemplate(db, t, [db.templates[t] EXCEPT ![field] = value]))
                /\ t \in DOMAIN db.templates
             \/ r \in {Failed, Nothing} /\ t \notin DOMAIN db.templates
  <1> DEFINE row == [db.templates[t] EXCEPT ![field] = value]
  <1>1. ASSUME t \in DOMAIN db.templates
        PROVE  [db EXCEPT !.templates[t][field] = value] = WithTemplate(db, t, row)
    <2>1. db.templates = [k \in DOMAIN db.templates |-> db.templates[k]]
      BY DEF Well
    <2>2. [db.templates EXCEPT ![t] = row] = Insert(db.templates, t, row)
      <3> HIDE DEF row
      <3> QED
        BY <1>1, <2>1, InsertOver
    <2>3. [db.templates EXCEPT ![t][field] = value] = [db.templates EXCEPT ![t] = row]
      OBVIOUS
    <2> QED
      BY <2>2, <2>3 DEF WithTemplate
  <1>2. \/ /\ Memory!UpdateTemplate(t, field, value) = Done(WithTemplate(db, t, row))
           /\ t \in DOMAIN db.templates
        \/ /\ Memory!UpdateTemplate(t, field, value) = Failed
           /\ t \notin DOMAIN db.templates
    BY <1>1 DEF Memory!UpdateTemplate, Memory!Done, Memory!Failed, Done, Failed
  <1>3. \/ /\ Postgres!UpdateTemplate(t, field, value) = Done(WithTemplate(db, t, row))
           /\ t \in DOMAIN db.templates
        \/ /\ Postgres!UpdateTemplate(t, field, value) = Failed
           /\ t \notin DOMAIN db.templates
    BY <1>1 DEF Postgres!UpdateTemplate, Postgres!Done, Postgres!Failed, Done, Failed
  <1>4. \/ /\ Supabase!UpdateTemplate(t, field, value) = Done(WithTemplate(db, t, row))
           /\ t \in DOMAIN db.templates
        \/ /\ Supabase!UpdateTemplate(t, field, value) = Nothing
           /\ t \notin DOMAIN db.templates
    BY DEF Supabase!UpdateTemplate, Supabase!Patch, Supabase!Post, Supabase!Done, Supabase!Nothing,
           Supabase!Insert, Insert, Done, Nothing, WithTemplate
  <1> HIDE DEF row
  <1> QED
    BY <1>2, <1>3, <1>4 DEF Of, Backends, row, Change

LEMMA BuildUpdated ==
  ASSUME NEW t, NEW value, backend \in Backends, Well(db)
  PROVE  LET r == Of(Memory!UpdateBuild(t, value), Postgres!UpdateBuild(t, value),
                     Supabase!UpdateBuild(t, value))
         IN  \/ r = Done(WithBuild(db, t, value)) /\ t \in DOMAIN db.builds
             \/ r \in {Failed, Nothing} /\ t \notin DOMAIN db.builds
  <1>1. ASSUME t \in DOMAIN db.builds
        PROVE  [db EXCEPT !.builds[t] = value] = WithBuild(db, t, value)
    <2>1. db.builds = [k \in DOMAIN db.builds |-> db.builds[k]]
      BY DEF Well
    <2>2. [db.builds EXCEPT ![t] = value] = Insert(db.builds, t, value)
      BY <1>1, <2>1, InsertOver
    <2> QED
      BY <2>2 DEF WithBuild
  <1>2. \/ Memory!UpdateBuild(t, value) = Done(WithBuild(db, t, value)) /\ t \in DOMAIN db.builds
        \/ Memory!UpdateBuild(t, value) = Failed /\ t \notin DOMAIN db.builds
    BY <1>1 DEF Memory!UpdateBuild, Memory!Done, Memory!Failed, Done, Failed
  <1>3. \/ Postgres!UpdateBuild(t, value) = Done(WithBuild(db, t, value)) /\ t \in DOMAIN db.builds
        \/ Postgres!UpdateBuild(t, value) = Nothing /\ t \notin DOMAIN db.builds
    BY <1>1 DEF Postgres!UpdateBuild, Postgres!Done, Postgres!Nothing, Done, Nothing
  <1>4. \/ Supabase!UpdateBuild(t, value) = Done(WithBuild(db, t, value)) /\ t \in DOMAIN db.builds
        \/ Supabase!UpdateBuild(t, value) = Nothing /\ t \notin DOMAIN db.builds
    BY DEF Supabase!UpdateBuild, Supabase!Patch, Supabase!Post, Supabase!Done, Supabase!Nothing,
           Supabase!Insert, Insert, Done, Nothing, WithBuild
  <1> QED
    BY <1>2, <1>3, <1>4 DEF Of, Backends

LEMMA TemplateCreated ==
  ASSUME NEW t, NEW alias, backend \in Backends
  PROVE  LET r == Of(Memory!CreateTemplate(t, alias), Postgres!CreateTemplate(t, alias),
                     Supabase!CreateTemplate(t, alias))
         IN  \/ r = Done(WithBoth(db, t, NewTemplate(alias), "waiting")) /\ backend # "supabase"
             \/ r = Done(WithTemplate(db, t, NewTemplate(alias))) /\ backend = "supabase"
             \/ r = Failed /\ t \in DOMAIN db.templates
  BY DEF Of, Backends, WithBoth, WithTemplate, Done, Failed, Insert, NewTemplate,
         Memory!CreateTemplate, Memory!Done, Memory!Insert, Memory!NewTemplate,
         Postgres!CreateTemplate, Postgres!Done, Postgres!Failed, Postgres!Insert, Postgres!NewTemplate,
         Supabase!CreateTemplate, Supabase!Post, Supabase!Done, Supabase!Failed, Supabase!Insert,
         Supabase!NewTemplate

LEMMA FirstBuildCreated ==
  ASSUME NEW t
  PROVE  \/ /\ Supabase!CreateFirstBuild(t) = Done(WithBuild(db, t, "waiting"))
            /\ t \in DOMAIN db.templates
         \/ /\ Supabase!CreateFirstBuild(t) = Failed
            /\ t \notin DOMAIN db.templates \/ t \in DOMAIN db.builds
  BY DEF WithBuild, Done, Failed, Insert,
         Supabase!CreateFirstBuild, Supabase!Post, Supabase!Done, Supabase!Failed, Supabase!Insert

LEMMA TemplateDeleted ==
  ASSUME NEW t, backend \in Backends
  PROVE  LET r == Of(Memory!DeleteTemplate(t), Postgres!DeleteTemplate(t), Supabase!DeleteTemplate(t))
         IN  \/ r = Done(WithoutTemplate(db, t)) /\ backend = "memory"
             \/ /\ r = Done(WithoutBoth(db, t))
                /\ \A id \in DOMAIN db.sandboxes : db.sandboxes[id].template # t
             \/ r = Failed
  BY DEF Of, Backends, WithoutTemplate, WithoutBoth, Done, Failed, Without, Restrict,
         Memory!DeleteTemplate, Memory!Done, Memory!Failed, Memory!Without, Memory!Restrict,
         Postgres!DeleteTemplate, Postgres!Done, Postgres!Failed, Postgres!Without, Postgres!Restrict,
         Supabase!DeleteTemplate, Supabase!Done, Supabase!Failed, Supabase!Without, Supabase!Restrict

LEMMA SpawnCounted ==
  ASSUME NEW t, backend \in Backends, backend # "supabase", Well(db)
  PROVE  LET r == Of(Memory!IncrementTemplateSpawnCount(t), Postgres!IncrementTemplateSpawnCount(t), Nothing)
             row == db.templates[t]
         IN  \/ /\ r = Done(WithTemplate(db, t, [row EXCEPT !.spawns = row.spawns + 1]))
                /\ t \in DOMAIN db.templates
             \/ r = Nothing /\ t \notin DOMAIN db.templates
  <1> DEFINE row == db.templates[t]
  <1> DEFINE next == [row EXCEPT !.spawns = row.spawns + 1]
  <1>1. ASSUME t \in DOMAIN db.templates
        PROVE  [db EXCEPT !.templates[t].spawns = @ + 1] = WithTemplate(db, t, next)
    <2>1. db.templates = [k \in DOMAIN db.templates |-> db.templates[k]]
      BY DEF Well
    <2>2. [db.templates EXCEPT ![t] = next] = Insert(db.templates, t, next)
      <3> HIDE DEF next
      <3> QED
        BY <1>1, <2>1, InsertOver
    <2>3. [db.templates EXCEPT ![t].spawns = @ + 1] = [db.templates EXCEPT ![t] = next]
      OBVIOUS
    <2> QED
      BY <2>2, <2>3 DEF WithTemplate
  <1>2. \/ /\ Memory!IncrementTemplateSpawnCount(t) = Done(WithTemplate(db, t, next))
           /\ t \in DOMAIN db.templates
        \/ /\ Memory!IncrementTemplateSpawnCount(t) = Nothing
           /\ t \notin DOMAIN db.templates
    BY <1>1 DEF Memory!IncrementTemplateSpawnCount, Memory!Done, Memory!Nothing, Done, Nothing
  <1>3. \/ /\ Postgres!IncrementTemplateSpawnCount(t) = Done(WithTemplate(db, t, next))
           /\ t \in DOMAIN db.templates
        \/ /\ Postgres!IncrementTemplateSpawnCount(t) = Nothing
           /\ t \notin DOMAIN db.templates
    BY <1>1 DEF Postgres!IncrementTemplateSpawnCount, Postgres!Done, Postgres!Nothing, Done, Nothing
  <1> HIDE DEF next
  <1> QED
    BY <1>2, <1>3 DEF Of, Backends, next

LEMMA SpawnWritten ==
  ASSUME NEW t, NEW read
  PROVE  LET r == Supabase!WriteSpawnCount(t, read)
         IN  \/ /\ r = Done(WithTemplate(db, t, [db.templates[t] EXCEPT !.spawns = read + 1]))
                /\ t \in DOMAIN db.templates
             \/ r = Nothing /\ t \notin DOMAIN db.templates
  BY DEF WithTemplate, Done, Nothing, Insert, Supabase!WriteSpawnCount, Supabase!Patch, Supabase!Post,
         Supabase!Done, Supabase!Nothing, Supabase!Insert

(* A request to a database: its result, or a fault before or after. *)
LEMMA Heard ==
  ASSUME NEW d, NEW ok \in BOOLEAN, NEW o \in Outcomes([db |-> d, ok |-> ok])
  PROVE  \/ o.sound = TRUE /\ o.result.db = d /\ o.result.ok = ok
         \/ /\ o.sound = FALSE /\ o.result.db \in {db, d} /\ o.result.ok = FALSE
            /\ backend # "memory" /\ faults # MaxFaults
  BY DEF Outcomes, Sound, Failed

-----------------------------------------------------------------------------
(* Types.  Where a request is says what its identifier names. *)
SandboxPlaces == {"lookup", "lookupAlias", "insert", "count", "write", "schedule", "undo", "delete",
                  "find", "mark", "extend"}
TemplatePlaces == {"template", "build", "deleteTemplate", "publish", "finish", "finishTemplate"}

CallOK(k) ==
  \/ k = Idle
  \/ /\ k \in InProgress
     /\ k.at \in SandboxPlaces => k.id \in Sandboxes
     /\ k.at \in TemplatePlaces => k.id \in Templates
     /\ k.at = "template" => k.name \in Aliases
     /\ k.at = "mark" => k.set # "later"

TypeInv ==
  /\ Well(db) /\ backend \in Backends
  /\ backend # "memory" => Referring(db)
  /\ call = [c \in Calls |-> call[c]]
  /\ \A c \in Calls : CallOK(call[c])
  /\ \A c \in Calls : call[c].at \in {"write", "build"} => backend # "memory"
  /\ told \in [Ids -> {"nothing", "created", "extended", "refused", "forgotten"}]
  /\ dropped \subseteq Ids /\ hit \subseteq Ids /\ missed \subseteq Templates
  /\ DOMAIN born \subseteq Sandboxes /\ born \in [DOMAIN born -> Templates]
  /\ faults \in 0 .. MaxFaults /\ requests \in 0 .. MaxRequests

(* A step of one request moves it alone, to where its identifier may be. *)
Alone(c) == call' = [d \in Calls |-> IF d = c THEN call'[c] ELSE call[d]]

LEMMA InCall ==
  ASSUME TypeInv, NEW c \in Calls, call[c].at \in Places
  PROVE  /\ call[c] \in InProgress /\ CallOK(call[c]) /\ call[c].id \in Ids
         /\ call[c].at \in SandboxPlaces => call[c].id \in Sandboxes
         /\ call[c].at \in TemplatePlaces => call[c].id \in Templates
  <1>1. CallOK(call[c])
    BY DEF TypeInv
  <1>2. call[c] # Idle
    BY DEF Idle, Places
  <1> QED
    BY <1>1, <1>2 DEF CallOK, InProgress, Ids

LEMMA GotoCall ==
  ASSUME TypeInv, NEW c \in Calls, call[c].at \in Places, NEW at \in Places, Goto(c, at)
  PROVE  /\ Alone(c) /\ call'[c] \in InProgress
         /\ call'[c].at = at /\ call'[c].id = call[c].id /\ call'[c].name = call[c].name
         /\ call'[c].template = call[c].template /\ call'[c].set = call[c].set /\ call'[c].read = 0
  <1> DEFINE k == [call[c] EXCEPT !.at = at, !.read = 0]
  <1>1. call[c] \in InProgress
    BY InCall
  <1>2. /\ k \in InProgress /\ k.at = at /\ k.id = call[c].id /\ k.name = call[c].name
        /\ k.template = call[c].template /\ k.set = call[c].set /\ k.read = 0
    BY <1>1 DEF InProgress
  <1>3. call' = [call EXCEPT ![c] = k]
    BY DEF Goto, TypeInv
  <1> HIDE DEF k
  <1> QED
    BY <1>2, <1>3 DEF Alone, TypeInv

LEMMA ReturnCall ==
  ASSUME TypeInv, NEW c \in Calls, Return(c)
  PROVE  Alone(c) /\ call'[c] = Idle
  BY DEF Return, Alone, TypeInv

LEMMA TellCall ==
  ASSUME TypeInv, NEW c \in Calls, call[c].at \in Places, NEW what, Tell(c, what)
  PROVE  /\ Alone(c) /\ call'[c] = Idle
         /\ told' = [id \in Ids |-> IF id = call[c].id THEN what ELSE told[id]]
  BY InCall, ReturnCall DEF Tell, TypeInv

(* A request over the network, and what it leaves. *)
Took(c, o, d, ok) ==
  \/ /\ o.sound = TRUE /\ o.result.ok = ok /\ o.result.db = d
     /\ db' = d /\ faults' = faults /\ hit' = hit
  \/ /\ o.sound = FALSE /\ o.result.ok = FALSE /\ backend # "memory"
     /\ db' \in {db, d} /\ o.result.db = db' /\ hit' = hit \cup {call[c].id}

LEMMA Taking ==
  ASSUME TypeInv, NEW c \in Calls, NEW d, NEW ok \in BOOLEAN, NEW o \in Outcomes([db |-> d, ok |-> ok]),
         Take(c, o)
  PROVE  Took(c, o, d, ok) /\ faults' \in 0 .. MaxFaults
  <1>0. \/ o.sound = TRUE /\ o.result.db = d /\ o.result.ok = ok
        \/ /\ o.sound = FALSE /\ o.result.db \in {db, d} /\ o.result.ok = FALSE
           /\ backend # "memory" /\ faults # MaxFaults
    BY Heard
  <1>1. CASE o.sound = TRUE /\ o.result.db = d /\ o.result.ok = ok
    <2>1. db' = d /\ faults' = faults /\ hit' = hit
      BY <1>1 DEF Take
    <2> QED
      BY <1>1, <2>1 DEF Took, TypeInv
  <1>2. CASE /\ o.sound = FALSE /\ o.result.db \in {db, d} /\ o.result.ok = FALSE
             /\ backend # "memory" /\ faults # MaxFaults
    <2>1. faults + 1 \in 0 .. MaxFaults
      BY <1>2, BoundsAssumption DEF TypeInv
    <2> QED
      BY <1>2, <2>1 DEF Take, Took
  <1> QED
    BY <1>0, <1>1, <1>2

(* What keeps the types: well-typed tables and references, and one request's move. *)
LEMMA TypeStep ==
  ASSUME TypeInv, NEW c \in Calls, Alone(c), CallOK(call'[c]),
         call'[c].at \in {"write", "build"} => backend # "memory",
         backend' = backend, Well(db'), backend # "memory" => Referring(db'),
         told' \in [Ids -> {"nothing", "created", "extended", "refused", "forgotten"}],
         dropped' \subseteq Ids, hit' \subseteq Ids, missed' \subseteq Templates,
         DOMAIN born' \subseteq Sandboxes, born' \in [DOMAIN born' -> Templates],
         faults' \in 0 .. MaxFaults, requests' \in 0 .. MaxRequests
  PROVE  TypeInv'
  <1>1. call' = [d \in Calls |-> call'[d]]
    BY DEF Alone
  <1>2. \A d \in Calls : CallOK(call'[d])
    BY DEF Alone, TypeInv
  <1>3. \A d \in Calls : call'[d].at \in {"write", "build"} => backend' # "memory"
    BY DEF Alone, TypeInv
  <1> QED
    BY <1>1, <1>2, <1>3 DEF TypeInv

-----------------------------------------------------------------------------
(* Answers.  The invariant of one identifier: what the client was told of it,
   the requests that work on it and the rows under it. *)
Creating == {"lookup", "lookupAlias", "insert", "count", "write", "schedule", "undo", "template", "build"}
Deleting == {"delete", "deleteTemplate"}
Counting == {"count", "write", "schedule"}
Making == {"count", "write", "schedule", "undo", "build"}
On(c, places, id) == call[c].at \in places /\ call[c].id = id

Held(id) ==
  /\ \A c \in Calls : On(c, Creating, id) => told[id] = "nothing"
  /\ \A c, d \in Calls : On(c, Creating, id) /\ On(d, Creating, id) => c = d
  /\ \A c \in Calls : On(c, Deleting, id) => id \in dropped
  /\ \A c \in Calls : On(c, Counting, id) =>
                          id \in DOMAIN db.sandboxes \/ id \in dropped
  /\ \A c \in Calls : On(c, {"build"}, id) => id \notin DOMAIN db.builds
  /\ id \in DOMAIN db.sandboxes \cup DOMAIN db.templates \cup DOMAIN db.builds \cup DOMAIN born =>
       \/ told[id] # "nothing"
       \/ \E c \in Calls : On(c, Making, id)
  /\ told[id] \in {"created", "extended"} /\ id \notin dropped =>
       /\ id \in Sandboxes => id \in DOMAIN db.sandboxes
       /\ id \in Templates => id \in DOMAIN db.templates /\ id \in DOMAIN db.builds
  /\ told[id] = "extended" /\ id \in DOMAIN db.sandboxes /\ id \notin hit =>
       db.sandboxes[id].endAt = "later"
  /\ told[id] = "refused" /\ id \notin hit =>
       id \notin DOMAIN db.sandboxes \cup DOMAIN db.templates \cup DOMAIN db.builds

(* A step of a request leaves every other identifier as it was. *)
Touches(c, i) ==
  /\ Alone(c)
  /\ call[c] = Idle \/ call[c].id = i
  /\ call'[c] = Idle \/ call'[c].id = i
  /\ \A id \in Ids \ {i} :
       /\ told'[id] = told[id]
       /\ id \in dropped' <=> id \in dropped
       /\ id \in hit' <=> id \in hit
       /\ id \in DOMAIN db'.sandboxes <=> id \in DOMAIN db.sandboxes
       /\ id \in DOMAIN db.sandboxes => db'.sandboxes[id] = db.sandboxes[id]
       /\ id \in DOMAIN db'.templates <=> id \in DOMAIN db.templates
       /\ id \in DOMAIN db'.builds <=> id \in DOMAIN db.builds
       /\ id \in DOMAIN born' <=> id \in DOMAIN born

LEMMA OthersHeld ==
  ASSUME NEW c \in Calls, NEW i \in Ids, Touches(c, i), NEW id \in Ids, id # i, Held(id)
  PROVE  Held(id)'
  <1>1. \A d \in Calls, places \in SUBSET Places :
          call'[d].at \in places /\ call'[d].id = id <=> call[d].at \in places /\ call[d].id = id
    BY DEF Touches, Alone, Idle, Places
  <1>2. \A d \in Calls :
          /\ call'[d].at \in Creating /\ call'[d].id = id <=> call[d].at \in Creating /\ call[d].id = id
          /\ call'[d].at \in Deleting /\ call'[d].id = id
                <=> call[d].at \in Deleting /\ call[d].id = id
          /\ call'[d].at \in Counting /\ call'[d].id = id
                <=> call[d].at \in Counting /\ call[d].id = id
          /\ call'[d].at \in {"build"} /\ call'[d].id = id
                <=> call[d].at \in {"build"} /\ call[d].id = id
          /\ call'[d].at \in Making /\ call'[d].id = id
                <=> call[d].at \in Making /\ call[d].id = id
    BY <1>1 DEF Creating, Counting, Making, Deleting, Places
  <1> QED
    BY <1>2 DEF Held, On, Touches

(* The requests that work on an identifier, when one of them moves. *)
LEMMA CallsOn ==
  ASSUME NEW c \in Calls, NEW i, Alone(c), call'[c] = Idle \/ call'[c].id = i
  PROVE  \A d \in Calls :
           /\ On(d, Creating, i)' <=> IF d = c THEN call'[c].at \in Creating ELSE On(d, Creating, i)
           /\ On(d, Deleting, i)' <=> IF d = c THEN call'[c].at \in Deleting ELSE On(d, Deleting, i)
           /\ On(d, Counting, i)' <=> IF d = c THEN call'[c].at \in Counting ELSE On(d, Counting, i)
           /\ On(d, Making, i)' <=> IF d = c THEN call'[c].at \in Making ELSE On(d, Making, i)
           /\ On(d, {"build"}, i)' <=> IF d = c THEN call'[c].at = "build" ELSE On(d, {"build"}, i)
  <1> SUFFICES ASSUME NEW d \in Calls
               PROVE
           /\ On(d, Creating, i)' <=> IF d = c THEN call'[c].at \in Creating ELSE On(d, Creating, i)
           /\ On(d, Deleting, i)' <=> IF d = c THEN call'[c].at \in Deleting ELSE On(d, Deleting, i)
           /\ On(d, Counting, i)' <=> IF d = c THEN call'[c].at \in Counting ELSE On(d, Counting, i)
           /\ On(d, Making, i)' <=> IF d = c THEN call'[c].at \in Making ELSE On(d, Making, i)
           /\ On(d, {"build"}, i)' <=> IF d = c THEN call'[c].at = "build" ELSE On(d, {"build"}, i)
    OBVIOUS
  <1>1. CASE d = c
    BY <1>1 DEF On, Idle, Creating, Deleting, Counting, Making
  <1>2. CASE d # c
    BY <1>2 DEF On, Alone
  <1> QED
    BY <1>1, <1>2

(* A step that leaves the keys of the tables: it only moves the request, or a
   fault hits it. *)
LEMMA SameKeysHolds ==
  ASSUME NEW c \in Calls, NEW i \in Ids, call[c].at \in Places, call[c].id = i, Held(i),
         db'.sandboxes = db.sandboxes, DOMAIN db'.templates = DOMAIN db.templates,
         DOMAIN db'.builds = DOMAIN db.builds,
         told' = told, dropped' = dropped, born' = born, hit' \in {hit, hit \cup {i}},
         Alone(c), call'[c] = Idle \/ call'[c].id = i,
         call'[c].at \in Creating => call[c].at \in Creating,
         call'[c].at \notin Deleting, call'[c].at # "build",
         call'[c].at \in Counting => call[c].at \in Counting,
         call[c].at \in Making => call'[c].at \in Making
  PROVE  Touches(c, i) /\ Held(i)'
  <1>1. Touches(c, i)
    BY DEF Touches
  <1>2. \A d \in Calls :
          /\ On(d, Creating, i)' => On(d, Creating, i)
          /\ On(d, Deleting, i)' => On(d, Deleting, i)
          /\ On(d, Counting, i)' => On(d, Counting, i)
          /\ On(d, {"build"}, i)' => On(d, {"build"}, i)
          /\ On(d, Making, i) => On(d, Making, i)'
    BY CallsOn DEF On
  <1>3. Held(i)'
    BY <1>2 DEF Held
  <1> QED
    BY <1>1, <1>3

(* The answer of a creation: no other request creates under its identifier. *)
LEMMA RetiredHolds ==
  ASSUME NEW c \in Calls, NEW i \in Ids, call[c].at \in Creating, call[c].id = i, Held(i),
         Alone(c), call'[c] = Idle, dropped' = dropped, told'[i] # "nothing",
         told'[i] \in {"created", "extended"} /\ i \notin dropped =>
           /\ i \in Sandboxes => i \in DOMAIN db'.sandboxes
           /\ i \in Templates => i \in DOMAIN db'.templates /\ i \in DOMAIN db'.builds,
         told'[i] # "extended",
         told'[i] = "refused" /\ i \notin hit' =>
           i \notin DOMAIN db'.sandboxes \cup DOMAIN db'.templates \cup DOMAIN db'.builds
  PROVE  Held(i)'
  <1>1. On(c, Creating, i)
    BY DEF On
  <1>2. \A d \in Calls : ~On(d, Creating, i)' /\ (On(d, Deleting, i)' => On(d, Deleting, i))
    BY <1>1, CallsOn DEF Held, Idle, Creating, Deleting
  <1>3. \A d \in Calls : ~On(d, Counting, i)' /\ ~On(d, {"build"}, i)'
    BY <1>2 DEF On, Counting, Creating
  <1> QED
    BY <1>2, <1>3 DEF Held

(* A request that works on what is there. *)
LEMMA WorkHolds ==
  ASSUME NEW c \in Calls, NEW i \in Ids, call[c].at \in Places \ Creating, call[c].id = i, Held(i),
         Alone(c), call'[c] = Idle \/ call'[c].id = i,
         call'[c].at \notin Creating \cup Deleting,
         dropped' = dropped, born' = born, hit \subseteq hit',
         told'[i] = told[i] \/ (told[i] = "created" /\ told'[i] = "extended"),
         i \in DOMAIN db'.sandboxes => i \in DOMAIN db.sandboxes,
         i \in DOMAIN db'.templates => i \in DOMAIN db.templates,
         i \in DOMAIN db'.builds => i \in DOMAIN db.builds,
         i \notin dropped => /\ i \in DOMAIN db.sandboxes => i \in DOMAIN db'.sandboxes
                             /\ i \in DOMAIN db.templates => i \in DOMAIN db'.templates
                             /\ i \in DOMAIN db.builds => i \in DOMAIN db'.builds,
         told'[i] = "extended" /\ i \in DOMAIN db'.sandboxes /\ i \notin hit' =>
           db'.sandboxes[i].endAt = "later"
  PROVE  Held(i)'
  <1>1. \A d \in Calls :
          /\ On(d, Creating, i)' <=> On(d, Creating, i)
          /\ On(d, Deleting, i)' => On(d, Deleting, i)
          /\ On(d, Counting, i)' <=> On(d, Counting, i)
          /\ On(d, {"build"}, i)' <=> On(d, {"build"}, i)
          /\ On(d, Making, i) <=> On(d, Making, i)'
    BY CallsOn DEF On, Creating, Counting, Making, Idle
  <1>2. \A d \in Calls : On(d, Creating, i)' => told'[i] = "nothing"
    BY <1>1 DEF Held
  <1>3. \A d \in Calls : On(d, Counting, i)' => i \in DOMAIN db'.sandboxes \/ i \in dropped'
    BY <1>1 DEF Held
  <1>4. \A d \in Calls : On(d, {"build"}, i)' => i \notin DOMAIN db'.builds
    BY <1>1 DEF Held
  <1>5. i \in DOMAIN db'.sandboxes \cup DOMAIN db'.templates \cup DOMAIN db'.builds \cup DOMAIN born' =>
          told'[i] # "nothing" \/ \E d \in Calls : On(d, Making, i)'
    BY <1>1 DEF Held
  <1>6. told'[i] \in {"created", "extended"} /\ i \notin dropped' =>
          /\ i \in Sandboxes => i \in DOMAIN db'.sandboxes
          /\ i \in Templates => i \in DOMAIN db'.templates /\ i \in DOMAIN db'.builds
    BY DEF Held
  <1>7. told'[i] = "refused" /\ i \notin hit' =>
          i \notin DOMAIN db'.sandboxes \cup DOMAIN db'.templates \cup DOMAIN db'.builds
    BY DEF Held
  <1> QED
    BY <1>1, <1>2, <1>3, <1>4, <1>5, <1>6, <1>7 DEF Held

(* A request that fails changes no table. *)
LEMMA ReadFailed ==
  ASSUME TypeInv, NEW c \in Calls, NEW o \in Outcomes(Nothing), Take(c, o)
  PROVE  db' = db /\ faults' \in 0 .. MaxFaults /\ hit' \in {hit, hit \cup {call[c].id}}
  <1>1. o \in Outcomes([db |-> db, ok |-> TRUE])
    BY DEF Nothing, Done
  <1> QED
    BY <1>1, Taking DEF Took

LEMMA ChosenCall ==
  ASSUME TypeInv, NEW c \in Calls, call[c].at \in Places, NEW t \in Templates, Chosen(c, t)
  PROVE  /\ Alone(c) /\ call'[c] \in InProgress /\ call'[c].at = "insert"
         /\ call'[c].id = call[c].id /\ call'[c].template = t
  <1> DEFINE k == [call[c] EXCEPT !.at = "insert", !.template = t, !.name = AnyName]
  <1>1. call[c] \in InProgress
    BY InCall
  <1>2. AnyName \in Names
    BY KeysAssumption DEF AnyName, Names
  <1>3. /\ k \in InProgress /\ k.at = "insert" /\ k.id = call[c].id /\ k.template = t
    BY <1>1, <1>2 DEF InProgress, Places
  <1>4. call' = [call EXCEPT ![c] = k]
    BY DEF Chosen, TypeInv
  <1> HIDE DEF k
  <1> QED
    BY <1>3, <1>4 DEF Alone, TypeInv

LEMMA NamedTemplates ==
  ASSUME NEW name, Well(db), backend \in Backends
  PROVE  Named(name) \subseteq DOMAIN db.templates /\ DOMAIN db.templates \subseteq Templates
         /\ Supabase!GetTemplateByAlias(name) \subseteq DOMAIN db.templates
  BY DEF Named, Of, Backends, Well, Memory!GetTemplate, Memory!ById, Memory!ByAlias, Postgres!GetTemplate,
         Postgres!ById, Postgres!ByAlias, Supabase!GetTemplate, Supabase!ById, Supabase!ByAlias,
         Supabase!GetTemplateByAlias

LEMMA LookupHolds ==
  ASSUME TypeInv, NEW c \in Calls, NEW i, call[c].id = i, Held(i),
         GetTemplate(c) \/ GetTemplateByAlias(c), UNCHANGED requests
  PROVE  i \in Ids /\ TypeInv' /\ Touches(c, i) /\ Held(i)'
  <1>1. call[c].at \in {"lookup", "lookupAlias"} /\ call[c].at \in Places
    BY DEF GetTemplate, GetTemplateByAlias, At, Places
  <1>2. i \in Sandboxes /\ i \in Ids
    BY <1>1, InCall DEF SandboxPlaces, Ids
  <1>3. /\ backend' = backend /\ db' = db /\ told' = told /\ dropped' = dropped /\ born' = born
        /\ missed' = missed /\ hit' \in {hit, hit \cup {i}} /\ faults' \in 0 .. MaxFaults
    <2>1. CASE UNCHANGED <<db, historyVars, faults>>
      BY <2>1 DEF GetTemplate, GetTemplateByAlias, historyVars, TypeInv
    <2>2. CASE ReadFails(c)
      BY <2>2, ReadFailed DEF GetTemplate, GetTemplateByAlias, ReadFails
    <2> QED
      BY <2>1, <2>2 DEF GetTemplate, GetTemplateByAlias
  <1>4. \/ \E t \in Templates : Chosen(c, t)
        \/ Goto(c, "lookupAlias")
        \/ Return(c)
    BY NamedTemplates DEF GetTemplate, GetTemplateByAlias, TypeInv
  <1>5. /\ Alone(c)
        /\ call'[c] = Idle \/ (call'[c] \in InProgress /\ call'[c].id = i)
        /\ call'[c].at \in {"idle", "insert", "lookupAlias"}
    BY <1>1, <1>4, ChosenCall, GotoCall, ReturnCall DEF Idle, Places
  <1>6. CallOK(call'[c])
    BY <1>2, <1>5 DEF CallOK, SandboxPlaces, TemplatePlaces, Idle
  <1>7. TypeInv'
    <2>1. hit' \subseteq Ids
      BY <1>2, <1>3 DEF TypeInv
    <2> QED
      BY <1>3, <1>5, <1>6, <2>1, TypeStep DEF TypeInv
  <1>8. Touches(c, i) /\ Held(i)'
    BY <1>1, <1>2, <1>3, <1>5, SameKeysHolds DEF Creating, Counting, Making, Deleting
  <1> QED
    BY <1>2, <1>7, <1>8

-----------------------------------------------------------------------------
(* A creation's row, and what the client is told. *)
LEMMA InsertHolds ==
  ASSUME TypeInv, NEW c \in Calls, NEW i, call[c].id = i, Held(i), InsertSandbox(c), UNCHANGED requests
  PROVE  i \in Ids /\ TypeInv' /\ Touches(c, i) /\ Held(i)'
  <1> DEFINE t == call[c].template
  <1> DEFINE row == NewSandbox(t)
  <1> DEFINE W == WithSandbox(db, i, row)
  <1> DEFINE r == Of(Memory!CreateSandbox(i, row), Postgres!CreateSandbox(i, row), Supabase!CreateSandbox(i, row))
  <1>1. call[c].at = "insert" /\ call[c].at \in Places
    BY DEF InsertSandbox, At, Places
  <1>2. i \in Sandboxes /\ i \in Ids /\ i \notin Templates /\ t \in Templates
    BY <1>1, InCall, KeysAssumption DEF SandboxPlaces, Ids, InProgress
  <1>3. row \in SandboxRow /\ row.template = t
    BY <1>2 DEF NewSandbox, SandboxRow
  <1>4. PICK o \in Outcomes(r) :
          /\ Take(c, o)
          /\ IF o.result.ok THEN Goto(c, "count") /\ UNCHANGED told ELSE Tell(c, "refused")
          /\ IF i \in DOMAIN o.result.db.sandboxes THEN born' = Insert(born, i, t) ELSE UNCHANGED born
          /\ missed' = IF o.sound THEN missed ELSE missed \cup {t}
    BY <1>3 DEF InsertSandbox
  <1>5. backend' = backend /\ dropped' = dropped
    BY DEF InsertSandbox
  <1>6. \/ /\ Took(c, o, W, TRUE) /\ faults' \in 0 .. MaxFaults
           /\ backend # "memory" => t \in DOMAIN db.templates
        \/ Took(c, o, db, FALSE) /\ faults' \in 0 .. MaxFaults
    <2>1. \/ r = [db |-> W, ok |-> TRUE] /\ (backend # "memory" => t \in DOMAIN db.templates)
          \/ r = [db |-> db, ok |-> FALSE]
      BY <1>3, SandboxCreated DEF TypeInv, Done, Failed
    <2> HIDE DEF W, r
    <2> QED
      BY <1>4, <2>1, Taking
  <1>7. /\ Well(W) /\ DOMAIN W.sandboxes = DOMAIN db.sandboxes \cup {i}
        /\ \A k \in DOMAIN db.sandboxes \ {i} : W.sandboxes[k] = db.sandboxes[k]
        /\ W.templates = db.templates /\ W.builds = db.builds
        /\ Referring(db) /\ t \in DOMAIN db.templates => Referring(W)
    BY <1>2, <1>3, SandboxInserted DEF TypeInv
  <1> HIDE DEF W, r, row
  <1>8. /\ Well(db') /\ (backend # "memory" => Referring(db'))
        /\ db'.templates = db.templates /\ db'.builds = db.builds
        /\ \A k \in Ids \ {i} :
             /\ k \in DOMAIN db'.sandboxes <=> k \in DOMAIN db.sandboxes
             /\ k \in DOMAIN db.sandboxes => db'.sandboxes[k] = db.sandboxes[k]
    <2>1. db' = db \/ (db' = W /\ (backend # "memory" => t \in DOMAIN db.templates))
      BY <1>6 DEF Took
    <2> QED
      BY <1>7, <2>1 DEF TypeInv
  <1>9. /\ Alone(c)
        /\ \/ /\ o.result.ok = TRUE /\ o.sound = TRUE /\ db' = W /\ hit' = hit
              /\ call'[c] \in InProgress /\ call'[c].id = i /\ call'[c].at = "count" /\ told' = told
           \/ /\ o.result.ok = FALSE /\ call'[c] = Idle
              /\ told' = [id \in Ids |-> IF id = i THEN "refused" ELSE told[id]]
              /\ (db' = db /\ hit' = hit) \/ hit' = hit \cup {i}
    <2>1. CASE o.result.ok = TRUE
      BY <1>1, <1>4, <1>6, <2>1, GotoCall DEF Took, Places
    <2>2. CASE o.result.ok = FALSE
      BY <1>1, <1>4, <1>6, <2>2, TellCall DEF Took
    <2> QED
      BY <1>6, <2>1, <2>2 DEF Took
  <1>10. /\ DOMAIN born' \subseteq Sandboxes /\ born' \in [DOMAIN born' -> Templates]
         /\ \A k \in Ids \ {i} : k \in DOMAIN born' <=> k \in DOMAIN born
    <2>1. CASE born' = Insert(born, i, t)
      <3>1. born \in [DOMAIN born -> Templates] /\ DOMAIN born \subseteq Sandboxes
        BY DEF TypeInv
      <3>2. /\ DOMAIN Insert(born, i, t) \subseteq Sandboxes
            /\ Insert(born, i, t) \in [DOMAIN Insert(born, i, t) -> Templates]
        <4> HIDE DEF t
        <4> QED
          BY <1>2, <3>1, InsertTyped
      <3>3. DOMAIN Insert(born, i, t) = DOMAIN born \cup {i}
        BY DEF Insert
      <3> QED
        BY <2>1, <3>2, <3>3
    <2>2. CASE born' = born
      BY <2>2 DEF TypeInv
    <2> QED
      BY <1>4, <2>1, <2>2
  <1>11. TypeInv'
    <2>1. CallOK(call'[c]) /\ call'[c].at \notin {"write", "build"}
      BY <1>2, <1>9 DEF CallOK, SandboxPlaces, TemplatePlaces, Idle
    <2>2. hit' \subseteq Ids /\ missed' \subseteq Templates
      BY <1>2, <1>4, <1>9 DEF TypeInv
    <2>3. told' \in [Ids -> {"nothing", "created", "extended", "refused", "forgotten"}]
      BY <1>9 DEF TypeInv
    <2>4. faults' \in 0 .. MaxFaults /\ requests' \in 0 .. MaxRequests
      BY <1>6 DEF TypeInv
    <2>5. dropped' \subseteq Ids
      BY <1>5 DEF TypeInv
    <2> QED
      BY <1>5, <1>8, <1>9, <1>10, <2>1, <2>2, <2>3, <2>4, <2>5, TypeStep
  <1>12. Touches(c, i)
    <2>1. \A k \in Ids \ {i} : told'[k] = told[k] /\ (k \in hit' <=> k \in hit)
      BY <1>9
    <2> QED
      BY <1>5, <1>8, <1>9, <1>10, <2>1 DEF Touches
  <1>13. /\ On(c, Creating, i) /\ told[i] = "nothing" /\ \A d \in Calls : ~On(d, Making, i)
         /\ i \notin DOMAIN db.sandboxes \cup DOMAIN db.templates \cup DOMAIN db.builds
    <2>1. On(c, Creating, i) /\ ~On(c, Making, i)
      BY <1>1 DEF On, Creating, Making
    <2>2. \A d \in Calls : On(d, Making, i) => On(d, Creating, i)
      BY DEF On, Creating, Making
    <2> QED
      BY <2>1, <2>2 DEF Held
  <1>14. ASSUME call'[c] = Idle, told'[i] = "refused"
         PROVE  Held(i)'
    <2>1. call[c].at \in Creating
      BY <1>1 DEF Creating
    <2> QED
      BY <1>2, <1>5, <1>9, <1>13, <1>14, <2>1, RetiredHolds
  <1>15. ASSUME call'[c].id = i, call'[c].at = "count", told' = told, db' = W
         PROVE  Held(i)'
    <2>1. i \in DOMAIN db'.sandboxes
      BY <1>7, <1>15
    <2>2. \A d \in Calls :
            /\ On(d, Creating, i)' <=> On(d, Creating, i)
            /\ On(d, Deleting, i)' => On(d, Deleting, i)
            /\ On(d, {"build"}, i)' => FALSE
            /\ On(c, Making, i)'
      BY <1>1, <1>9, <1>13, <1>15, CallsOn DEF On, Creating, Making, Deleting
    <2>3. told'[i] = "nothing"
      BY <1>13, <1>15
    <2> QED
      BY <1>5, <2>1, <2>2, <2>3 DEF Held
  <1>16. Held(i)'
    BY <1>2, <1>9, <1>14, <1>15
  <1> QED
    BY <1>2, <1>11, <1>12, <1>16

(* A step that only changes a field of a template's or a build's row, if there
   is one. *)
Rewrites(d) ==
  /\ Well(d) /\ (backend # "memory" => Referring(d))
  /\ d.sandboxes = db.sandboxes /\ DOMAIN d.templates = DOMAIN db.templates
  /\ DOMAIN d.builds = DOMAIN db.builds

LEMMA RewrittenTemplate ==
  ASSUME TypeInv, NEW t \in DOMAIN db.templates, NEW row \in TemplateRow
  PROVE  Rewrites(WithTemplate(db, t, row)) /\ Rewrites(db)
  <1>1. t \in Templates
    BY DEF TypeInv, Well
  <1>2. LET e == WithTemplate(db, t, row)
        IN  /\ Well(e)
            /\ DOMAIN e.templates = DOMAIN db.templates \cup {t}
            /\ e.sandboxes = db.sandboxes /\ e.builds = db.builds
            /\ Referring(db) => Referring(e)
    BY <1>1, TemplateInserted DEF TypeInv
  <1> QED
    BY <1>2 DEF Rewrites, TypeInv

LEMMA RewriteHolds ==
  ASSUME TypeInv, NEW c \in Calls, NEW i \in Ids, call[c].at \in Places, call[c].id = i, Held(i),
         Rewrites(db'), backend' = backend, told' = told, dropped' = dropped, born' = born,
         hit' \in {hit, hit \cup {i}}, missed' \subseteq Templates, faults' \in 0 .. MaxFaults,
         requests' = requests,
         Alone(c), call'[c] = Idle \/ (CallOK(call'[c]) /\ call'[c].id = i),
         call'[c].at \in {"write"} => backend # "memory",
         call'[c].at \in Creating => call[c].at \in Creating,
         call'[c].at \notin Deleting, call'[c].at # "build",
         call'[c].at \in Counting => call[c].at \in Counting,
         call[c].at \in Making => call'[c].at \in Making
  PROVE  i \in Ids /\ TypeInv' /\ Touches(c, i) /\ Held(i)'
  <1>1. CallOK(call'[c])
    BY DEF CallOK
  <1>2. hit' \subseteq Ids
    BY DEF TypeInv
  <1>3. TypeInv'
    BY <1>1, <1>2, TypeStep DEF TypeInv, Rewrites
  <1>4. Touches(c, i) /\ Held(i)'
    BY SameKeysHolds DEF Rewrites
  <1> QED
    BY <1>3, <1>4

(* The move of a request to a place for sandboxes, or for templates. *)
LEMMA GotoOK ==
  ASSUME TypeInv, NEW c \in Calls, call[c].at \in Places, NEW at \in Places, Goto(c, at),
         at \in SandboxPlaces => call[c].id \in Sandboxes,
         at \in TemplatePlaces => call[c].id \in Templates,
         at \notin {"template", "mark"}
  PROVE  /\ Alone(c) /\ CallOK(call'[c]) /\ call'[c].at = at /\ call'[c].id = call[c].id
         /\ call'[c].template = call[c].template /\ call'[c].set = call[c].set
  BY GotoCall DEF CallOK

(* The spawn count, and nothing else, changes. *)
LEMMA CountTaken ==
  ASSUME TypeInv, NEW c \in Calls, NEW t, call[c].template = t, t \in Templates, call[c].read \in Nat,
         CountSpawn(c) \/ WriteSpawnCount(c)
  PROVE  \E d : \E ok \in BOOLEAN : \E o \in Outcomes([db |-> d, ok |-> ok]) :
           /\ Rewrites(d) /\ Take(c, o)
           /\ missed' = IF o.sound THEN missed ELSE missed \cup {t}
  <1>1. CASE CountSpawn(c)
    <2> DEFINE r == Of(Memory!IncrementTemplateSpawnCount(t), Postgres!IncrementTemplateSpawnCount(t), Nothing)
    <2> DEFINE row == [db.templates[t] EXCEPT !.spawns = db.templates[t].spawns + 1]
    <2>1. backend # "supabase"
      BY <1>1 DEF CountSpawn
    <2>2. \/ r = Done(WithTemplate(db, t, row)) /\ t \in DOMAIN db.templates
          \/ r = Nothing
      BY <2>1, SpawnCounted DEF TypeInv
    <2>3. t \in DOMAIN db.templates => row \in TemplateRow
      BY DEF TypeInv, Well, TemplateRow
    <2>4. PICK o \in Outcomes(r) : Take(c, o) /\ missed' = IF o.sound THEN missed ELSE missed \cup {t}
      BY <1>1 DEF CountSpawn
    <2> HIDE DEF r, row
    <2>5. \/ r = [db |-> WithTemplate(db, t, row), ok |-> TRUE] /\ Rewrites(WithTemplate(db, t, row))
          \/ r = [db |-> db, ok |-> TRUE] /\ Rewrites(db)
      BY <2>2, <2>3, RewrittenTemplate DEF Done, Nothing, Rewrites, TypeInv
    <2> QED
      BY <2>4, <2>5
  <1>2. CASE WriteSpawnCount(c)
    <2> DEFINE r == Supabase!WriteSpawnCount(t, call[c].read)
    <2> DEFINE row == [db.templates[t] EXCEPT !.spawns = call[c].read + 1]
    <2>2. \/ r = Done(WithTemplate(db, t, row)) /\ t \in DOMAIN db.templates
          \/ r = Nothing
      BY SpawnWritten
    <2>3. t \in DOMAIN db.templates => row \in TemplateRow
      BY DEF TypeInv, Well, TemplateRow
    <2>4. PICK o \in Outcomes(r) : Take(c, o) /\ missed' = IF o.sound THEN missed ELSE missed \cup {t}
      BY <1>2 DEF WriteSpawnCount
    <2> HIDE DEF r, row
    <2>5. \/ r = [db |-> WithTemplate(db, t, row), ok |-> TRUE] /\ Rewrites(WithTemplate(db, t, row))
          \/ r = [db |-> db, ok |-> TRUE] /\ Rewrites(db)
      BY <2>2, <2>3, RewrittenTemplate DEF Done, Nothing, Rewrites, TypeInv
    <2> QED
      BY <2>4, <2>5
  <1> QED
    BY <1>1, <1>2

LEMMA CountRewrites ==
  ASSUME TypeInv, NEW c \in Calls, CountSpawn(c) \/ WriteSpawnCount(c)
  PROVE  Rewrites(db')
  <1>1. call[c].at \in {"count", "write"} /\ call[c].at \in Places
    BY DEF CountSpawn, WriteSpawnCount, At, Places
  <1>2. call[c].template \in Templates /\ call[c].read \in Nat
    BY <1>1, InCall DEF InProgress
  <1>3. PICK d : \E ok \in BOOLEAN : \E o \in Outcomes([db |-> d, ok |-> ok]) : Rewrites(d) /\ Take(c, o)
    BY <1>2, CountTaken
  <1>4. db' \in {db, d}
    BY <1>3, Taking DEF Took
  <1> QED
    BY <1>3, <1>4 DEF Rewrites, TypeInv

LEMMA CountHolds ==
  ASSUME TypeInv, NEW c \in Calls, NEW i, call[c].id = i, Held(i), CountSpawn(c) \/ WriteSpawnCount(c),
         UNCHANGED requests
  PROVE  i \in Ids /\ TypeInv' /\ Touches(c, i) /\ Held(i)'
  <1> DEFINE t == call[c].template
  <1>1. call[c].at \in {"count", "write"} /\ call[c].at \in Places
    BY DEF CountSpawn, WriteSpawnCount, At, Places
  <1>2. /\ i \in Sandboxes /\ i \in Ids /\ t \in Templates /\ call[c].read \in Nat
    BY <1>1, InCall DEF SandboxPlaces, Ids, InProgress
  <1>3. /\ backend' = backend /\ told' = told /\ dropped' = dropped /\ born' = born
        /\ Goto(c, "schedule")
    BY DEF CountSpawn, WriteSpawnCount
  <1>4. PICK d : \E ok \in BOOLEAN : \E o \in Outcomes([db |-> d, ok |-> ok]) :
          /\ Rewrites(d) /\ Take(c, o)
          /\ missed' = IF o.sound THEN missed ELSE missed \cup {t}
    BY <1>2, CountTaken
  <1>5. /\ db' \in {db, d} /\ hit' \in {hit, hit \cup {i}} /\ faults' \in 0 .. MaxFaults
        /\ missed' \subseteq Templates
    BY <1>2, <1>4, Taking DEF Took, TypeInv
  <1>6. Rewrites(db')
    BY <1>4, <1>5 DEF Rewrites, TypeInv
  <1>7. Alone(c) /\ CallOK(call'[c]) /\ call'[c].at = "schedule" /\ call'[c].id = i
    BY <1>1, <1>2, <1>3, GotoOK DEF Places, SandboxPlaces, TemplatePlaces
  <1> QED
    BY <1>1, <1>2, <1>3, <1>5, <1>6, <1>7, RewriteHolds DEF Creating, Counting, Making, Deleting

LEMMA ReadCountHolds ==
  ASSUME TypeInv, NEW c \in Calls, NEW i, call[c].id = i, Held(i), ReadSpawnCount(c), UNCHANGED requests
  PROVE  i \in Ids /\ TypeInv' /\ Touches(c, i) /\ Held(i)'
  <1> DEFINE t == call[c].template
  <1>1. call[c].at = "count" /\ call[c].at \in Places /\ backend = "supabase"
    BY DEF ReadSpawnCount, At, Places
  <1>2. i \in Sandboxes /\ i \in Ids /\ t \in Templates
    BY <1>1, InCall DEF SandboxPlaces, Ids, InProgress
  <1>3. backend' = backend /\ told' = told /\ dropped' = dropped /\ born' = born
    BY DEF ReadSpawnCount
  <1>4. Supabase!GetTemplate(t) \subseteq DOMAIN db.templates
    BY DEF Supabase!GetTemplate, Supabase!ById
  <1>5. \/ /\ t \in DOMAIN db.templates
           /\ call' = [call EXCEPT ![c].at = "write", ![c].read = db.templates[t].spawns]
        \/ Goto(c, "schedule")
    BY <1>4 DEF ReadSpawnCount
  <1>6. /\ db' = db /\ hit' \in {hit, hit \cup {i}} /\ faults' \in 0 .. MaxFaults
        /\ missed' \subseteq Templates
    <2>1. CASE UNCHANGED <<db, hit, faults>> /\ missed' \in {missed, missed \cup {t}}
      BY <1>2, <2>1 DEF TypeInv
    <2>2. CASE /\ \E o \in Outcomes(Nothing) : ~o.sound /\ Take(c, o)
               /\ missed' = missed \cup {t}
      BY <1>2, <2>2, ReadFailed DEF TypeInv
    <2> QED
      BY <2>1, <2>2 DEF ReadSpawnCount
  <1>7. /\ Alone(c) /\ CallOK(call'[c]) /\ call'[c].at \in {"write", "schedule"} /\ call'[c].id = i
    <2>1. CASE Goto(c, "schedule")
      BY <1>1, <1>2, <2>1, GotoOK DEF Places, SandboxPlaces, TemplatePlaces
    <2>2. CASE /\ t \in DOMAIN db.templates
               /\ call' = [call EXCEPT ![c].at = "write", ![c].read = db.templates[t].spawns]
      <3> DEFINE k == [call[c] EXCEPT !.at = "write", !.read = db.templates[t].spawns]
      <3>1. db.templates[t].spawns \in Nat
        BY <2>2 DEF TypeInv, Well, TemplateRow
      <3>2. call[c] \in InProgress
        BY <1>1, InCall
      <3>3. k \in InProgress /\ k.at = "write" /\ k.id = i
        BY <3>1, <3>2 DEF InProgress, Places
      <3>4. call' = [call EXCEPT ![c] = k]
        BY <2>2 DEF TypeInv
      <3> HIDE DEF k
      <3>5. Alone(c) /\ call'[c] = k
        BY <3>4 DEF Alone, TypeInv
      <3> QED
        BY <1>2, <3>3, <3>5 DEF CallOK, TemplatePlaces
    <2> QED
      BY <1>5, <2>1, <2>2
  <1>8. Rewrites(db')
    BY <1>6 DEF Rewrites, TypeInv
  <1> QED
    BY <1>1, <1>2, <1>3, <1>6, <1>7, <1>8, RewriteHolds DEF Creating, Counting, Making, Deleting

LEMMA ScheduleHolds ==
  ASSUME TypeInv, NEW c \in Calls, NEW i, call[c].id = i, Held(i), Schedule(c), UNCHANGED requests
  PROVE  i \in Ids /\ TypeInv' /\ Touches(c, i) /\ Held(i)'
  <1>1. call[c].at = "schedule" /\ call[c].at \in Places
    BY DEF Schedule, At, Places
  <1>2. i \in Sandboxes /\ i \in Ids /\ i \notin Templates
    BY <1>1, InCall, KeysAssumption DEF SandboxPlaces, Ids
  <1>3. /\ db' = db /\ backend' = backend /\ dropped' = dropped /\ born' = born /\ missed' = missed
        /\ hit' = hit /\ faults' = faults
    BY DEF Schedule, historyVars
  <1>4. ASSUME Tell(c, "created")
        PROVE  TypeInv' /\ Touches(c, i) /\ Held(i)'
    <2>1. /\ Alone(c) /\ call'[c] = Idle
          /\ told' = [id \in Ids |-> IF id = i THEN "created" ELSE told[id]]
      BY <1>1, <1>4, TellCall
    <2>2. TypeInv'
      BY <1>2, <1>3, <2>1, TypeStep DEF TypeInv, CallOK, Idle
    <2>3. Touches(c, i)
      BY <1>3, <2>1 DEF Touches
    <2>4. i \in DOMAIN db.sandboxes \/ i \in dropped
      BY <1>1 DEF Held, On, Counting
    <2>5. call[c].at \in Creating
      BY <1>1 DEF Creating
    <2>6. Held(i)'
      BY <1>2, <1>3, <2>1, <2>4, <2>5, RetiredHolds
    <2> QED
      BY <2>2, <2>3, <2>6
  <1>5. ASSUME Goto(c, "undo"), told' = told
        PROVE  TypeInv' /\ Touches(c, i) /\ Held(i)'
    <2>1. Alone(c) /\ CallOK(call'[c]) /\ call'[c].at = "undo" /\ call'[c].id = i
      BY <1>1, <1>2, <1>5, GotoOK DEF Places, SandboxPlaces, TemplatePlaces
    <2>2. Rewrites(db') /\ missed' \subseteq Templates /\ faults' \in 0 .. MaxFaults
      BY <1>3 DEF Rewrites, TypeInv
    <2> QED
      BY <1>1, <1>2, <1>3, <1>5, <2>1, <2>2, RewriteHolds DEF Creating, Counting, Making, Deleting
  <1> QED
    BY <1>2, <1>4, <1>5 DEF Schedule

LEMMA RowDeleted ==
  ASSUME TypeInv, NEW c \in Calls, NEW i, call[c].id = i,
         NEW o \in Outcomes(DeleteRow(i)), Take(c, o)
  PROVE  /\ Well(db') /\ (backend # "memory" => Referring(db'))
         /\ DOMAIN db'.sandboxes \ {i} = DOMAIN db.sandboxes \ {i}
         /\ DOMAIN db'.sandboxes \subseteq DOMAIN db.sandboxes
         /\ \A k \in DOMAIN db.sandboxes \ {i} : db'.sandboxes[k] = db.sandboxes[k]
         /\ i \in DOMAIN db'.sandboxes => db'.sandboxes[i] = db.sandboxes[i]
         /\ db'.templates = db.templates /\ db'.builds = db.builds
         /\ hit' \in {hit, hit \cup {i}} /\ faults' \in 0 .. MaxFaults
         /\ i \notin hit' => i \notin DOMAIN db'.sandboxes
  <1> DEFINE W == WithoutSandbox(db, i)
  <1>1. \/ DeleteRow(i) = [db |-> W, ok |-> TRUE]
        \/ DeleteRow(i) = [db |-> db, ok |-> FALSE] /\ i \notin DOMAIN db.sandboxes
    BY SandboxDeleted DEF TypeInv, Done, Failed
  <1>2. /\ Well(W) /\ DOMAIN W.sandboxes = DOMAIN db.sandboxes \ {i}
        /\ \A k \in DOMAIN db.sandboxes \ {i} : W.sandboxes[k] = db.sandboxes[k]
        /\ W.templates = db.templates /\ W.builds = db.builds
        /\ Referring(db) => Referring(W)
    BY SandboxRemoved DEF TypeInv
  <1> HIDE DEF W
  <1>3. \/ Took(c, o, W, TRUE)
        \/ Took(c, o, db, FALSE) /\ i \notin DOMAIN db.sandboxes
    BY <1>1, Taking
  <1>4. faults' \in 0 .. MaxFaults
    BY <1>1, Taking
  <1>5. /\ db' \in {db, W} /\ hit' \in {hit, hit \cup {i}}
        /\ i \notin hit' => i \notin DOMAIN db'.sandboxes
    BY <1>2, <1>3 DEF Took
  <1> QED
    BY <1>2, <1>4, <1>5 DEF TypeInv

LEMMA UndoHolds ==
  ASSUME TypeInv, NEW c \in Calls, NEW i, call[c].id = i, Held(i), UndoSandbox(c), UNCHANGED requests
  PROVE  i \in Ids /\ TypeInv' /\ Touches(c, i) /\ Held(i)'
  <1>1. call[c].at = "undo" /\ call[c].at \in Places /\ call[c].at \in Creating
    BY DEF UndoSandbox, At, Places, Creating
  <1>2. i \in Sandboxes /\ i \in Ids /\ i \notin Templates
    BY <1>1, InCall, KeysAssumption DEF SandboxPlaces, Ids
  <1>3. PICK o \in Outcomes(DeleteRow(i)) : Take(c, o)
    BY DEF UndoSandbox
  <1>4. backend' = backend /\ dropped' = dropped /\ born' = born /\ missed' = missed
    BY DEF UndoSandbox
  <1>5. /\ Alone(c) /\ call'[c] = Idle
        /\ told' = [id \in Ids |-> IF id = i THEN "refused" ELSE told[id]]
    BY <1>1, TellCall DEF UndoSandbox
  <1>6. /\ Well(db') /\ (backend # "memory" => Referring(db'))
        /\ DOMAIN db'.sandboxes \ {i} = DOMAIN db.sandboxes \ {i}
        /\ \A k \in DOMAIN db.sandboxes \ {i} : db'.sandboxes[k] = db.sandboxes[k]
        /\ db'.templates = db.templates /\ db'.builds = db.builds
        /\ hit' \in {hit, hit \cup {i}} /\ faults' \in 0 .. MaxFaults
        /\ i \notin hit' => i \notin DOMAIN db'.sandboxes
    BY <1>3, RowDeleted
  <1>7. TypeInv'
    <2>1. hit' \subseteq Ids
      BY <1>2, <1>6 DEF TypeInv
    <2> QED
      BY <1>2, <1>4, <1>5, <1>6, <2>1, TypeStep DEF TypeInv, CallOK, Idle
  <1>8. Touches(c, i)
    <2>1. \A k \in Ids \ {i} : told'[k] = told[k] /\ (k \in hit' <=> k \in hit)
      BY <1>5, <1>6
    <2> QED
      BY <1>4, <1>5, <1>6, <2>1 DEF Touches
  <1>9. i \notin DOMAIN db'.templates \cup DOMAIN db'.builds
    BY <1>2, <1>6 DEF Well
  <1>10. Held(i)'
    BY <1>1, <1>2, <1>4, <1>5, <1>6, <1>9, RetiredHolds
  <1> QED
    BY <1>2, <1>7, <1>8, <1>10

LEMMA DeleteHolds ==
  ASSUME TypeInv, NEW c \in Calls, NEW i, call[c].id = i, Held(i), DeleteSandbox(c), UNCHANGED requests
  PROVE  i \in Ids /\ TypeInv' /\ Touches(c, i) /\ Held(i)'
  <1>1. call[c].at = "delete" /\ call[c].at \in Places \ Creating
    BY DEF DeleteSandbox, At, Places, Creating
  <1>2. i \in Sandboxes /\ i \in Ids /\ i \in dropped
    BY <1>1, InCall DEF SandboxPlaces, Ids, Held, On, Deleting
  <1>3. PICK o \in Outcomes(DeleteRow(i)) : Take(c, o)
    BY DEF DeleteSandbox
  <1>4. backend' = backend /\ told' = told /\ dropped' = dropped /\ born' = born /\ missed' = missed
    BY DEF DeleteSandbox
  <1>5. Alone(c) /\ call'[c] = Idle
    BY ReturnCall DEF DeleteSandbox
  <1>6. /\ Well(db') /\ (backend # "memory" => Referring(db'))
        /\ DOMAIN db'.sandboxes \ {i} = DOMAIN db.sandboxes \ {i}
        /\ DOMAIN db'.sandboxes \subseteq DOMAIN db.sandboxes
        /\ \A k \in DOMAIN db.sandboxes \ {i} : db'.sandboxes[k] = db.sandboxes[k]
        /\ i \in DOMAIN db'.sandboxes => db'.sandboxes[i] = db.sandboxes[i]
        /\ db'.templates = db.templates /\ db'.builds = db.builds
        /\ hit' \in {hit, hit \cup {i}} /\ faults' \in 0 .. MaxFaults
    BY <1>3, RowDeleted
  <1>7. TypeInv'
    <2>1. hit' \subseteq Ids
      BY <1>2, <1>6 DEF TypeInv
    <2> QED
      BY <1>2, <1>4, <1>5, <1>6, <2>1, TypeStep DEF TypeInv, CallOK, Idle
  <1>8. Touches(c, i)
    BY <1>4, <1>5, <1>6 DEF Touches
  <1>9. told'[i] = "extended" /\ i \in DOMAIN db'.sandboxes /\ i \notin hit' =>
          db'.sandboxes[i].endAt = "later"
    BY <1>4, <1>6 DEF Held
  <1>10. Held(i)'
    BY <1>1, <1>2, <1>4, <1>5, <1>6, <1>9, WorkHolds DEF Idle, Creating, Deleting
  <1> QED
    BY <1>2, <1>7, <1>8, <1>10

-----------------------------------------------------------------------------
(* Requests on a sandbox that has a row. *)
LEMMA FindHolds ==
  ASSUME TypeInv, NEW c \in Calls, NEW i, call[c].id = i, Held(i), FindSandbox(c), UNCHANGED requests
  PROVE  i \in Ids /\ TypeInv' /\ Touches(c, i) /\ Held(i)'
  <1>1. call[c].at = "find" /\ call[c].at \in Places
    BY DEF FindSandbox, At, Places
  <1>2. i \in Sandboxes /\ i \in Ids
    BY <1>1, InCall DEF SandboxPlaces, Ids
  <1>3. backend' = backend /\ told' = told
    BY DEF FindSandbox
  <1>4. /\ db' = db /\ dropped' = dropped /\ born' = born /\ missed' = missed
        /\ hit' \in {hit, hit \cup {i}} /\ faults' \in 0 .. MaxFaults
    <2>1. CASE UNCHANGED <<db, historyVars, faults>>
      BY <2>1 DEF historyVars, TypeInv
    <2>2. CASE ReadFails(c)
      BY <2>2, ReadFailed DEF ReadFails
    <2> QED
      BY <2>1, <2>2 DEF FindSandbox
  <1>5. \/ Goto(c, "extend")
        \/ Goto(c, "mark") /\ call[c].set # "later"
        \/ Return(c)
    BY DEF FindSandbox
  <1>6. /\ Alone(c)
        /\ call'[c] = Idle \/ (CallOK(call'[c]) /\ call'[c].id = i /\ call'[c].at \in {"extend", "mark"})
    <2>1. CASE Goto(c, "extend")
      BY <1>1, <1>2, <2>1, GotoOK DEF Places, SandboxPlaces, TemplatePlaces
    <2>2. CASE Goto(c, "mark") /\ call[c].set # "later"
      BY <1>1, <1>2, <2>2, GotoCall DEF Places, CallOK, TemplatePlaces
    <2>3. CASE Return(c)
      BY <2>3, ReturnCall
    <2> QED
      BY <1>5, <2>1, <2>2, <2>3
  <1>7. call'[c].at \in {"idle", "extend", "mark"}
    BY <1>6 DEF Idle
  <1>8. Rewrites(db') /\ missed' \subseteq Templates
    BY <1>4 DEF Rewrites, TypeInv
  <1> QED
    BY <1>1, <1>2, <1>3, <1>4, <1>6, <1>7, <1>8, RewriteHolds DEF Creating, Counting, Making, Deleting

LEMMA RowChanged ==
  ASSUME TypeInv, NEW c \in Calls, NEW i, call[c].id = i, NEW field, NEW value, ChangeSandbox(c, field, value),
         i \in Sandboxes,
         \/ field = "state" /\ value \in {"running", "paused"}
         \/ field = "endAt" /\ value = "later"
  PROVE  /\ Well(db') /\ (backend # "memory" => Referring(db'))
         /\ DOMAIN db'.sandboxes = DOMAIN db.sandboxes
         /\ \A k \in DOMAIN db.sandboxes \ {i} : db'.sandboxes[k] = db.sandboxes[k]
         /\ db'.templates = db.templates /\ db'.builds = db.builds
         /\ hit' \in {hit, hit \cup {i}} /\ faults' \in 0 .. MaxFaults
         /\ field = "state" /\ i \in DOMAIN db.sandboxes =>
              db'.sandboxes[i].endAt = db.sandboxes[i].endAt
         /\ field = "endAt" /\ i \in DOMAIN db.sandboxes /\ i \notin hit' =>
              db'.sandboxes[i].endAt = "later"
  <1> DEFINE row == [db.sandboxes[i] EXCEPT ![field] = value]
  <1> DEFINE W == WithSandbox(db, i, row)
  <1> DEFINE r == Of(Memory!UpdateSandbox(i, field, value), Postgres!UpdateSandbox(i, field, value),
                     Supabase!UpdateSandbox(i, field, value))
  <1>1. \/ r = [db |-> W, ok |-> TRUE] /\ i \in DOMAIN db.sandboxes
        \/ (r = [db |-> db, ok |-> FALSE] \/ r = [db |-> db, ok |-> TRUE]) /\ i \notin DOMAIN db.sandboxes
    BY SandboxUpdated DEF TypeInv, Done, Failed, Nothing
  <1>2. PICK o \in Outcomes(r) : Take(c, o)
    BY DEF ChangeSandbox
  <1>3. ASSUME i \in DOMAIN db.sandboxes
        PROVE  /\ row \in SandboxRow /\ row.template = db.sandboxes[i].template
               /\ field = "state" => row.endAt = db.sandboxes[i].endAt
               /\ field = "endAt" => row.endAt = "later"
    <2>1. db.sandboxes[i] \in SandboxRow
      BY <1>3 DEF TypeInv, Well
    <2>2. CASE field = "state" /\ value \in {"running", "paused"}
      BY <2>1, <2>2 DEF SandboxRow
    <2>3. CASE field = "endAt" /\ value = "later"
      BY <2>1, <2>3 DEF SandboxRow
    <2> QED
      BY <2>2, <2>3
  <1> HIDE DEF row, W, r
  <1>4. i \in DOMAIN db.sandboxes =>
          /\ Well(W) /\ DOMAIN W.sandboxes = DOMAIN db.sandboxes /\ W.sandboxes[i] = row
          /\ \A k \in DOMAIN db.sandboxes \ {i} : W.sandboxes[k] = db.sandboxes[k]
          /\ W.templates = db.templates /\ W.builds = db.builds
          /\ Referring(db) => Referring(W)
    <2> SUFFICES ASSUME i \in DOMAIN db.sandboxes
                 PROVE
          /\ Well(W) /\ DOMAIN W.sandboxes = DOMAIN db.sandboxes /\ W.sandboxes[i] = row
          /\ \A k \in DOMAIN db.sandboxes \ {i} : W.sandboxes[k] = db.sandboxes[k]
          /\ W.templates = db.templates /\ W.builds = db.builds
          /\ Referring(db) => Referring(W)
      OBVIOUS
    <2>1. row \in SandboxRow /\ (Referring(db) => row.template \in DOMAIN db.templates)
      BY <1>3 DEF Referring
    <2>2. Well(db)
      BY DEF TypeInv
    <2> QED
      <3>1. /\ Well(W) /\ DOMAIN W.sandboxes = DOMAIN db.sandboxes \cup {i} /\ W.sandboxes[i] = row
            /\ \A k \in DOMAIN db.sandboxes \ {i} : W.sandboxes[k] = db.sandboxes[k]
            /\ W.templates = db.templates /\ W.builds = db.builds
            /\ Referring(db) /\ row.template \in DOMAIN db.templates => Referring(W)
        BY <2>1, <2>2, SandboxInserted DEF W
      <3>2. DOMAIN db.sandboxes \cup {i} = DOMAIN db.sandboxes
        OBVIOUS
      <3> QED
        BY <2>1, <3>1, <3>2
  <1>5. \/ Took(c, o, W, TRUE) /\ i \in DOMAIN db.sandboxes
        \/ (Took(c, o, db, FALSE) \/ Took(c, o, db, TRUE)) /\ i \notin DOMAIN db.sandboxes
    BY <1>1, <1>2, Taking
  <1>6. faults' \in 0 .. MaxFaults
    BY <1>1, <1>2, Taking
  <1>7. /\ hit' \in {hit, hit \cup {i}}
        /\ db' = db \/ (db' = W /\ i \in DOMAIN db.sandboxes)
        /\ i \in DOMAIN db.sandboxes /\ i \notin hit' => db' = W
    BY <1>5 DEF Took
  <1> QED
    BY <1>3, <1>4, <1>6, <1>7 DEF TypeInv

LEMMA UpdateHolds ==
  ASSUME TypeInv, NEW c \in Calls, NEW i, call[c].id = i, Held(i),
         UpdateSandboxState(c) \/ UpdateSandboxTimeout(c), UNCHANGED requests
  PROVE  i \in Ids /\ TypeInv' /\ Touches(c, i) /\ Held(i)'
  <1>1. call[c].at \in {"mark", "extend"} /\ call[c].at \in Places \ Creating
    BY DEF UpdateSandboxState, UpdateSandboxTimeout, At, Places, Creating
  <1>2. i \in Sandboxes /\ i \in Ids
    BY <1>1, InCall DEF SandboxPlaces, Ids
  <1>3. backend' = backend /\ dropped' = dropped /\ born' = born /\ missed' = missed
    BY DEF UpdateSandboxState, UpdateSandboxTimeout
  <1>4. /\ Well(db') /\ (backend # "memory" => Referring(db'))
        /\ DOMAIN db'.sandboxes = DOMAIN db.sandboxes
        /\ \A k \in DOMAIN db.sandboxes \ {i} : db'.sandboxes[k] = db.sandboxes[k]
        /\ db'.templates = db.templates /\ db'.builds = db.builds
        /\ hit' \in {hit, hit \cup {i}} /\ faults' \in 0 .. MaxFaults
        /\ UpdateSandboxState(c) /\ i \in DOMAIN db.sandboxes =>
             db'.sandboxes[i].endAt = db.sandboxes[i].endAt
        /\ UpdateSandboxTimeout(c) /\ i \in DOMAIN db.sandboxes =>
             /\ i \notin hit' => db'.sandboxes[i].endAt = "later"
    <2>1. CASE UpdateSandboxState(c)
      <3>1. call[c].at = "mark" /\ CallOK(call[c]) /\ call[c] \in InProgress
        BY <1>1, <2>1, InCall DEF UpdateSandboxState, At
      <3>2. call[c].set \in {"running", "paused"}
        BY <3>1 DEF CallOK, InProgress, Idle
      <3>3. ~UpdateSandboxTimeout(c)
        BY <3>1 DEF UpdateSandboxTimeout, At
      <3>6. ChangeSandbox(c, "state", call[c].set)
        BY <2>1 DEF UpdateSandboxState
      <3> QED
        BY <1>2, <3>2, <3>3, <3>6, RowChanged
    <2>2. CASE UpdateSandboxTimeout(c)
      <3>3. ~UpdateSandboxState(c)
        BY <2>2 DEF UpdateSandboxTimeout, UpdateSandboxState, At
      <3>6. ChangeSandbox(c, "endAt", "later")
        BY <2>2 DEF UpdateSandboxTimeout
      <3> QED
        BY <1>2, <3>3, <3>6, RowChanged
    <2> QED
      BY <2>1, <2>2
  <1>5. /\ Alone(c) /\ CallOK(call'[c])
        /\ call'[c] = Idle \/ (call'[c].id = i /\ call'[c].at = "extend")
        /\ \/ told' = told
           \/ /\ told' = [id \in Ids |-> IF id = i THEN "extended" ELSE told[id]]
              /\ told[i] = "created" /\ UpdateSandboxTimeout(c)
    <2>1. CASE UpdateSandboxState(c)
      <3>1. Return(c) \/ Goto(c, "extend")
        BY <2>1 DEF UpdateSandboxState
      <3> QED
        BY <1>1, <1>2, <2>1, <3>1, ReturnCall, GotoOK
           DEF UpdateSandboxState, CallOK, Places, SandboxPlaces, TemplatePlaces
    <2>2. CASE UpdateSandboxTimeout(c)
      BY <1>1, <2>2, ReturnCall, TellCall DEF UpdateSandboxTimeout, CallOK
    <2> QED
      BY <2>1, <2>2
  <1>6. call'[c].at \in {"idle", "extend"}
    BY <1>5 DEF Idle
  <1>7. TypeInv'
    <2>1. hit' \subseteq Ids
      BY <1>2, <1>4 DEF TypeInv
    <2>2. told' \in [Ids -> {"nothing", "created", "extended", "refused", "forgotten"}]
      BY <1>5 DEF TypeInv
    <2> QED
      BY <1>2, <1>3, <1>4, <1>5, <1>6, <2>1, <2>2, TypeStep DEF TypeInv
  <1>8. Touches(c, i)
    <2>1. \A k \in Ids \ {i} : told'[k] = told[k] /\ (k \in hit' <=> k \in hit)
      BY <1>4, <1>5
    <2> QED
      BY <1>3, <1>4, <1>5, <2>1 DEF Touches
  <1>9. told'[i] = "extended" /\ i \in DOMAIN db'.sandboxes /\ i \notin hit' =>
          db'.sandboxes[i].endAt = "later"
    <2>1. CASE UpdateSandboxTimeout(c)
      BY <1>4, <2>1
    <2>2. CASE UpdateSandboxState(c)
      <3>1. told' = told
        BY <2>2 DEF UpdateSandboxState
      <3> QED
        BY <1>4, <2>2, <3>1 DEF Held
    <2> QED
      BY <2>1, <2>2
  <1>10. told'[i] = told[i] \/ (told[i] = "created" /\ told'[i] = "extended")
    BY <1>2, <1>5
  <1>11. Held(i)'
    BY <1>1, <1>2, <1>3, <1>4, <1>5, <1>6, <1>9, <1>10, WorkHolds DEF Creating, Deleting
  <1> QED
    BY <1>2, <1>7, <1>8, <1>11

-----------------------------------------------------------------------------
(* A template's two rows.  No other request makes rows under the identifier of
   one that is being created. *)
LEMMA NothingYet ==
  ASSUME NEW c \in Calls, NEW i, On(c, {"lookup", "lookupAlias", "insert", "template"}, i), Held(i)
  PROVE  /\ told[i] = "nothing" /\ \A d \in Calls : On(d, Creating, i) => d = c
         /\ i \notin DOMAIN db.sandboxes \cup DOMAIN db.templates \cup DOMAIN db.builds
         /\ i \notin DOMAIN born
  <1>1. On(c, Creating, i) /\ ~On(c, Making, i)
    BY DEF On, Creating, Making
  <1>2. \A d \in Calls : On(d, Making, i) => On(d, Creating, i)
    BY DEF On, Creating, Making
  <1> QED
    BY <1>1, <1>2 DEF Held

LEMMA CreateTemplateHolds ==
  ASSUME TypeInv, NEW c \in Calls, NEW i, call[c].id = i, Held(i), CreateTemplate(c), UNCHANGED requests
  PROVE  i \in Ids /\ TypeInv' /\ Touches(c, i) /\ Held(i)'
  <1> DEFINE alias == call[c].name
  <1> DEFINE B == WithBoth(db, i, NewTemplate(alias), "waiting")
  <1> DEFINE T == WithTemplate(db, i, NewTemplate(alias))
  <1> DEFINE r == Of(Memory!CreateTemplate(i, alias), Postgres!CreateTemplate(i, alias),
                     Supabase!CreateTemplate(i, alias))
  <1>1. call[c].at = "template" /\ call[c].at \in Places /\ call[c].at \in Creating
    BY DEF CreateTemplate, At, Places, Creating
  <1>2. /\ i \in Templates /\ i \in Ids /\ i \notin Sandboxes /\ alias \in Aliases
    BY <1>1, InCall, KeysAssumption DEF SandboxPlaces, TemplatePlaces, Ids, CallOK, Idle
  <1>3. /\ told[i] = "nothing" /\ \A d \in Calls : On(d, Creating, i) => d = c
        /\ i \notin DOMAIN db.sandboxes \cup DOMAIN db.templates \cup DOMAIN db.builds
    BY <1>1, NothingYet DEF On
  <1>4. NewTemplate(alias) \in TemplateRow /\ "waiting" \in BuildRow
    BY <1>2 DEF NewTemplate, TemplateRow, BuildRow
  <1>5. PICK o \in Outcomes(r) :
          /\ Take(c, o)
          /\ IF ~o.result.ok THEN Tell(c, "refused")
             ELSE IF backend = "supabase" THEN Goto(c, "build") /\ UNCHANGED told
             ELSE Tell(c, "created")
    BY DEF CreateTemplate
  <1>6. backend' = backend /\ dropped' = dropped /\ born' = born /\ missed' = missed
    BY DEF CreateTemplate
  <1>7. \/ r = [db |-> B, ok |-> TRUE] /\ backend # "supabase"
        \/ r = [db |-> T, ok |-> TRUE] /\ backend = "supabase"
        \/ r = [db |-> db, ok |-> FALSE]
    BY TemplateCreated DEF TypeInv, Done, Failed
  <1>8. /\ Well(B) /\ DOMAIN B.templates = DOMAIN db.templates \cup {i}
        /\ DOMAIN B.builds = DOMAIN db.builds \cup {i} /\ B.sandboxes = db.sandboxes
        /\ Referring(db) => Referring(B)
    BY <1>2, <1>4, BothInserted DEF TypeInv
  <1>9. /\ Well(T) /\ DOMAIN T.templates = DOMAIN db.templates \cup {i}
        /\ T.builds = db.builds /\ T.sandboxes = db.sandboxes
        /\ Referring(db) => Referring(T)
    BY <1>2, <1>4, TemplateInserted DEF TypeInv
  <1> HIDE DEF B, T, r, alias
  <1>10. /\ \/ Took(c, o, B, TRUE) /\ backend # "supabase"
            \/ Took(c, o, T, TRUE) /\ backend = "supabase"
            \/ Took(c, o, db, FALSE)
         /\ faults' \in 0 .. MaxFaults
    BY <1>5, <1>7, Taking
  <1>11. /\ Well(db') /\ (backend # "memory" => Referring(db')) /\ db'.sandboxes = db.sandboxes
         /\ DOMAIN db'.templates \ {i} = DOMAIN db.templates \ {i}
         /\ DOMAIN db'.builds \ {i} = DOMAIN db.builds \ {i}
         /\ hit' \in {hit, hit \cup {i}}
    <2>1. db' \in {db, B, T} /\ hit' \in {hit, hit \cup {i}}
      BY <1>10 DEF Took
    <2> QED
      BY <1>8, <1>9, <2>1 DEF TypeInv
  <1>12. /\ Alone(c)
         /\ \/ /\ call'[c] \in InProgress /\ call'[c].id = i /\ call'[c].at = "build" /\ told' = told
               /\ db' = T /\ backend = "supabase"
            \/ /\ call'[c] = Idle /\ db' = B
               /\ told' = [id \in Ids |-> IF id = i THEN "created" ELSE told[id]]
            \/ /\ call'[c] = Idle
               /\ told' = [id \in Ids |-> IF id = i THEN "refused" ELSE told[id]]
               /\ db' = db \/ i \in hit'
    <2>1. CASE o.result.ok = FALSE
      BY <1>1, <1>5, <1>10, <2>1, TellCall DEF Took
    <2>2. CASE o.result.ok = TRUE /\ backend = "supabase"
      BY <1>1, <1>5, <1>10, <2>2, GotoCall DEF Took, Places
    <2>3. CASE o.result.ok = TRUE /\ backend # "supabase"
      BY <1>1, <1>5, <1>10, <2>3, TellCall DEF Took
    <2> QED
      BY <1>10, <2>1, <2>2, <2>3 DEF Took
  <1>13. TypeInv'
    <2>1. CallOK(call'[c]) /\ (call'[c].at \in {"write", "build"} => backend # "memory")
      BY <1>2, <1>12 DEF CallOK, SandboxPlaces, Idle
    <2>2. hit' \subseteq Ids /\ missed' \subseteq Templates
      BY <1>2, <1>6, <1>11 DEF TypeInv
    <2>3. told' \in [Ids -> {"nothing", "created", "extended", "refused", "forgotten"}]
      BY <1>12 DEF TypeInv
    <2> QED
      BY <1>6, <1>10, <1>11, <1>12, <2>1, <2>2, <2>3, TypeStep DEF TypeInv
  <1>14. Touches(c, i)
    <2>1. \A k \in Ids \ {i} : told'[k] = told[k] /\ (k \in hit' <=> k \in hit)
      BY <1>11, <1>12
    <2>2. call'[c] = Idle \/ call'[c].id = i
      BY <1>12
    <2> QED
      BY <1>6, <1>11, <1>12, <2>1, <2>2 DEF Touches
  <1>15. ASSUME call'[c] = Idle PROVE Held(i)'
    <2>1. told'[i] \in {"created", "refused"}
      BY <1>2, <1>12, <1>15 DEF Idle
    <2>2. told'[i] = "created" => i \in DOMAIN db'.templates /\ i \in DOMAIN db'.builds
      BY <1>2, <1>8, <1>12, <1>15 DEF Idle
    <2>3. told'[i] = "refused" /\ i \notin hit' => db' = db
      BY <1>2, <1>12, <1>15 DEF Idle
    <2> QED
      BY <1>1, <1>2, <1>3, <1>6, <1>12, <1>15, <2>1, <2>2, <2>3, RetiredHolds
  <1>16. ASSUME call'[c].id = i, call'[c].at = "build", told' = told, db' = T PROVE Held(i)'
    <2>1. \A d \in Calls :
            /\ On(d, Creating, i)' <=> On(d, Creating, i)
            /\ On(d, Deleting, i)' => On(d, Deleting, i)
            /\ ~On(d, Counting, i)'
            /\ On(c, Making, i)'
      BY <1>1, <1>3, <1>12, <1>16, CallsOn DEF On, Creating, Counting, Making, Deleting
    <2>2. told'[i] = "nothing" /\ i \notin DOMAIN db'.builds
      BY <1>3, <1>9, <1>16
    <2> QED
      BY <1>6, <2>1, <2>2 DEF Held
  <1> QED
    BY <1>2, <1>12, <1>13, <1>14, <1>15, <1>16

LEMMA FirstBuildHolds ==
  ASSUME TypeInv, NEW c \in Calls, NEW i, call[c].id = i, Held(i), CreateFirstBuild(c), UNCHANGED requests
  PROVE  i \in Ids /\ TypeInv' /\ Touches(c, i) /\ Held(i)'
  <1> DEFINE W == WithBuild(db, i, "waiting")
  <1> DEFINE r == Supabase!CreateFirstBuild(i)
  <1>1. call[c].at = "build" /\ call[c].at \in Places /\ call[c].at \in Creating /\ Referring(db)
    BY DEF CreateFirstBuild, At, Places, Creating, TypeInv
  <1>2. /\ i \in Templates /\ i \in Ids /\ i \notin Sandboxes
    BY <1>1, InCall, KeysAssumption DEF TemplatePlaces, Ids
  <1>3. i \notin DOMAIN db.builds /\ i \notin DOMAIN db.sandboxes
    BY <1>1, <1>2 DEF Held, On, TypeInv, Well
  <1>4. PICK o \in Outcomes(r) :
          Take(c, o) /\ Tell(c, IF o.result.ok THEN "created" ELSE "refused")
    BY DEF CreateFirstBuild
  <1>5. backend' = backend /\ dropped' = dropped /\ born' = born /\ missed' = missed
    BY DEF CreateFirstBuild
  <1>6. \/ r = [db |-> W, ok |-> TRUE] /\ i \in DOMAIN db.templates
        \/ r = [db |-> db, ok |-> FALSE] /\ i \notin DOMAIN db.templates
    BY <1>3, FirstBuildCreated DEF Done, Failed
  <1>7. /\ Well(W) /\ DOMAIN W.builds = DOMAIN db.builds \cup {i}
        /\ W.sandboxes = db.sandboxes /\ W.templates = db.templates
        /\ i \in DOMAIN db.templates => Referring(W)
    BY <1>1, <1>2, BuildInserted DEF TypeInv, BuildRow
  <1> HIDE DEF W, r
  <1>8. /\ \/ Took(c, o, W, TRUE) /\ i \in DOMAIN db.templates
           \/ Took(c, o, db, FALSE) /\ i \notin DOMAIN db.templates
        /\ faults' \in 0 .. MaxFaults
    BY <1>4, <1>6, Taking
  <1>9. /\ Well(db') /\ Referring(db') /\ db'.sandboxes = db.sandboxes
        /\ db'.templates = db.templates
        /\ DOMAIN db'.builds \ {i} = DOMAIN db.builds \ {i}
        /\ hit' \in {hit, hit \cup {i}}
    <2>1. db' = db \/ (db' = W /\ i \in DOMAIN db.templates)
      BY <1>8 DEF Took
    <2>2. hit' \in {hit, hit \cup {i}}
      BY <1>8 DEF Took
    <2> QED
      BY <1>1, <1>7, <2>1, <2>2 DEF TypeInv
  <1>10. /\ Alone(c) /\ call'[c] = Idle
         /\ \/ /\ told' = [id \in Ids |-> IF id = i THEN "created" ELSE told[id]]
               /\ db' = W /\ i \in DOMAIN db.templates
            \/ /\ told' = [id \in Ids |-> IF id = i THEN "refused" ELSE told[id]]
               /\ (db' = db /\ i \notin DOMAIN db.templates) \/ i \in hit'
    <2>1. CASE o.result.ok = TRUE
      BY <1>1, <1>4, <1>8, <2>1, TellCall DEF Took
    <2>2. CASE o.result.ok = FALSE
      BY <1>1, <1>4, <1>8, <2>2, TellCall DEF Took
    <2> QED
      BY <1>8, <2>1, <2>2 DEF Took
  <1>11. TypeInv'
    <2>1. hit' \subseteq Ids
      BY <1>2, <1>9 DEF TypeInv
    <2>2. told' \in [Ids -> {"nothing", "created", "extended", "refused", "forgotten"}]
      BY <1>10 DEF TypeInv
    <2> QED
      BY <1>5, <1>8, <1>9, <1>10, <2>1, <2>2, TypeStep DEF TypeInv, CallOK, Idle
  <1>12. Touches(c, i)
    <2>1. \A k \in Ids \ {i} : told'[k] = told[k] /\ (k \in hit' <=> k \in hit)
      BY <1>9, <1>10
    <2> QED
      BY <1>5, <1>9, <1>10, <2>1 DEF Touches
  <1>13. Held(i)'
    <2>1. told'[i] \in {"created", "refused"}
      BY <1>2, <1>10
    <2>2. told'[i] = "created" => i \in DOMAIN db'.templates /\ i \in DOMAIN db'.builds
      BY <1>2, <1>7, <1>10
    <2>3. told'[i] = "refused" /\ i \notin hit' => db' = db /\ i \notin DOMAIN db.templates
      BY <1>2, <1>10
    <2> QED
      BY <1>1, <1>2, <1>3, <1>5, <1>10, <2>1, <2>2, <2>3, RetiredHolds
  <1> QED
    BY <1>2, <1>11, <1>12, <1>13

LEMMA DeleteTemplateHolds ==
  ASSUME TypeInv, NEW c \in Calls, NEW i, call[c].id = i, Held(i), DeleteTemplate(c), UNCHANGED requests
  PROVE  i \in Ids /\ TypeInv' /\ Touches(c, i) /\ Held(i)'
  <1> DEFINE T == WithoutTemplate(db, i)
  <1> DEFINE B == WithoutBoth(db, i)
  <1> DEFINE r == Of(Memory!DeleteTemplate(i), Postgres!DeleteTemplate(i), Supabase!DeleteTemplate(i))
  <1>1. call[c].at = "deleteTemplate" /\ call[c].at \in Places \ Creating
    BY DEF DeleteTemplate, At, Places, Creating
  <1>2. i \in Templates /\ i \in Ids /\ i \notin Sandboxes /\ i \in dropped
    BY <1>1, InCall, KeysAssumption DEF TemplatePlaces, Ids, Held, On, Deleting
  <1>3. PICK o \in Outcomes(r) : Take(c, o)
    BY DEF DeleteTemplate
  <1>4. backend' = backend /\ told' = told /\ dropped' = dropped /\ born' = born /\ missed' = missed
    BY DEF DeleteTemplate
  <1>5. Alone(c) /\ call'[c] = Idle
    BY ReturnCall DEF DeleteTemplate
  <1>6. \/ r = [db |-> T, ok |-> TRUE] /\ backend = "memory"
        \/ r = [db |-> B, ok |-> TRUE] /\ \A id \in DOMAIN db.sandboxes : db.sandboxes[id].template # i
        \/ r = [db |-> db, ok |-> FALSE]
    BY TemplateDeleted DEF TypeInv, Done, Failed
  <1>7. /\ Well(T) /\ DOMAIN T.templates = DOMAIN db.templates \ {i}
        /\ T.sandboxes = db.sandboxes /\ T.builds = db.builds
    BY TemplateRemoved DEF TypeInv
  <1>8. /\ Well(B) /\ DOMAIN B.templates = DOMAIN db.templates \ {i}
        /\ DOMAIN B.builds = DOMAIN db.builds \ {i} /\ B.sandboxes = db.sandboxes
        /\ Referring(db) /\ (\A id \in DOMAIN db.sandboxes : db.sandboxes[id].template # i) => Referring(B)
    BY BothRemoved DEF TypeInv
  <1> HIDE DEF T, B, r
  <1>9. /\ \/ Took(c, o, T, TRUE) /\ backend = "memory"
           \/ Took(c, o, B, TRUE) /\ \A id \in DOMAIN db.sandboxes : db.sandboxes[id].template # i
           \/ Took(c, o, db, FALSE)
        /\ faults' \in 0 .. MaxFaults
    BY <1>3, <1>6, Taking
  <1>10. /\ Well(db') /\ (backend # "memory" => Referring(db')) /\ db'.sandboxes = db.sandboxes
         /\ DOMAIN db'.templates \ {i} = DOMAIN db.templates \ {i}
         /\ DOMAIN db'.templates \subseteq DOMAIN db.templates
         /\ DOMAIN db'.builds \ {i} = DOMAIN db.builds \ {i}
         /\ DOMAIN db'.builds \subseteq DOMAIN db.builds
         /\ hit' \in {hit, hit \cup {i}}
    <2>1. \/ db' = db
          \/ db' = T /\ backend = "memory"
          \/ db' = B /\ \A id \in DOMAIN db.sandboxes : db.sandboxes[id].template # i
      BY <1>9 DEF Took
    <2>2. hit' \in {hit, hit \cup {i}}
      BY <1>9 DEF Took
    <2> QED
      BY <1>7, <1>8, <2>1, <2>2 DEF TypeInv
  <1>11. TypeInv'
    <2>1. hit' \subseteq Ids
      BY <1>2, <1>10 DEF TypeInv
    <2> QED
      BY <1>4, <1>5, <1>9, <1>10, <2>1, TypeStep DEF TypeInv, CallOK, Idle
  <1>12. Touches(c, i)
    BY <1>4, <1>5, <1>10 DEF Touches
  <1>13. told'[i] = "extended" /\ i \in DOMAIN db'.sandboxes /\ i \notin hit' =>
          db'.sandboxes[i].endAt = "later"
    BY <1>4, <1>10 DEF Held
  <1>14. Held(i)'
    BY <1>1, <1>2, <1>4, <1>5, <1>10, <1>13, WorkHolds DEF Idle, Creating, Deleting
  <1> QED
    BY <1>2, <1>11, <1>12, <1>14

LEMMA TemplateRowHolds ==
  ASSUME TypeInv, NEW c \in Calls, NEW i, call[c].id = i, Held(i),
         UpdateTemplate(c) \/ FinishBuild(c) \/ FinishTemplate(c), UNCHANGED requests
  PROVE  i \in Ids /\ TypeInv' /\ Touches(c, i) /\ Held(i)'
  <1>1. call[c].at \in {"publish", "finish", "finishTemplate"} /\ call[c].at \in Places
    BY DEF UpdateTemplate, FinishBuild, FinishTemplate, At, Places
  <1>2. i \in Templates /\ i \in Ids
    BY <1>1, InCall DEF TemplatePlaces, Ids
  <1>3. backend' = backend /\ told' = told /\ dropped' = dropped /\ born' = born /\ missed' = missed
    BY DEF UpdateTemplate, FinishBuild, FinishTemplate
  <1>4. PICK d : \E ok \in BOOLEAN : \E o \in Outcomes([db |-> d, ok |-> ok]) : Rewrites(d) /\ Take(c, o)
    <2>1. CASE FinishBuild(c)
      <3> DEFINE r == Of(Memory!UpdateBuild(i, "done"), Postgres!UpdateBuild(i, "done"),
                         Supabase!UpdateBuild(i, "done"))
      <3>1. \/ r = [db |-> WithBuild(db, i, "done"), ok |-> TRUE] /\ i \in DOMAIN db.builds
            \/ r = [db |-> db, ok |-> FALSE]
            \/ r = [db |-> db, ok |-> TRUE]
        BY BuildUpdated DEF TypeInv, Done, Failed, Nothing
      <3>2. PICK o \in Outcomes(r) : Take(c, o)
        BY <2>1 DEF FinishBuild
      <3> HIDE DEF r
      <3>3. i \in DOMAIN db.builds => Rewrites(WithBuild(db, i, "done"))
        <4> SUFFICES ASSUME i \in DOMAIN db.builds PROVE Rewrites(WithBuild(db, i, "done"))
          OBVIOUS
        <4>1. LET e == WithBuild(db, i, "done")
              IN  /\ Well(e) /\ DOMAIN e.builds = DOMAIN db.builds \cup {i}
                  /\ e.sandboxes = db.sandboxes /\ e.templates = db.templates
                  /\ Referring(db) /\ i \in DOMAIN db.templates => Referring(e)
          BY <1>2, BuildInserted DEF TypeInv, BuildRow
        <4>2. backend # "memory" => Referring(db) /\ i \in DOMAIN db.templates
          BY DEF TypeInv, Referring
        <4> QED
          BY <4>1, <4>2 DEF Rewrites
      <3>4. Rewrites(db)
        BY DEF Rewrites, TypeInv
      <3> QED
        BY <3>1, <3>2, <3>3, <3>4
    <2>2. ASSUME NEW field, NEW value, \E o \in Outcomes(Change(i, field, value)) : Take(c, o),
                 (field = "public" /\ value \in BOOLEAN) \/ (field = "status" /\ value = "done")
          PROVE  \E e : \E ok \in BOOLEAN : \E o \in Outcomes([db |-> e, ok |-> ok]) : Rewrites(e) /\ Take(c, o)
      <3> DEFINE row == [db.templates[i] EXCEPT ![field] = value]
      <3> DEFINE r == Change(i, field, value)
      <3>1. \/ r = [db |-> WithTemplate(db, i, row), ok |-> TRUE] /\ i \in DOMAIN db.templates
            \/ r = [db |-> db, ok |-> FALSE]
            \/ r = [db |-> db, ok |-> TRUE]
        BY TemplateUpdated DEF TypeInv, Done, Failed, Nothing
      <3>2. PICK o \in Outcomes(r) : Take(c, o)
        BY <2>2
      <3>3. ASSUME i \in DOMAIN db.templates PROVE row \in TemplateRow
        <4>1. db.templates[i] \in TemplateRow
          BY <3>3 DEF TypeInv, Well
        <4>2. CASE field = "public" /\ value \in BOOLEAN
          BY <4>1, <4>2 DEF TemplateRow
        <4>3. CASE field = "status" /\ value = "done"
          BY <4>1, <4>3 DEF TemplateRow
        <4> QED
          BY <2>2, <4>2, <4>3
      <3> HIDE DEF row, r
      <3>4. i \in DOMAIN db.templates => Rewrites(WithTemplate(db, i, row))
        BY <3>3, RewrittenTemplate
      <3>5. Rewrites(db)
        BY DEF Rewrites, TypeInv
      <3> QED
        BY <3>1, <3>2, <3>4, <3>5
    <2>3. CASE UpdateTemplate(c)
      <3>1. \E o \in Outcomes(Change(i, "public", TRUE)) : Take(c, o)
        BY <2>3 DEF UpdateTemplate
      <3>2. PICK v \in BOOLEAN : \E o \in Outcomes(Change(i, "public", v)) : Take(c, o)
        BY <3>1
      <3> QED
        BY <2>2, <3>2
    <2>4. CASE FinishTemplate(c)
      BY <2>2, <2>4 DEF FinishTemplate
    <2> QED
      BY <2>1, <2>3, <2>4
  <1>5. db' \in {db, d} /\ hit' \in {hit, hit \cup {i}} /\ faults' \in 0 .. MaxFaults
    BY <1>4, Taking DEF Took
  <1>6. Rewrites(db') /\ missed' \subseteq Templates
    BY <1>3, <1>4, <1>5 DEF Rewrites, TypeInv
  <1>7. /\ Alone(c)
        /\ call'[c] = Idle \/ (CallOK(call'[c]) /\ call'[c].id = i /\ call'[c].at = "finishTemplate")
    <2>1. Return(c) \/ Goto(c, "finishTemplate")
      BY DEF UpdateTemplate, FinishBuild, FinishTemplate
    <2> QED
      BY <1>1, <1>2, <2>1, ReturnCall, GotoOK DEF Places, SandboxPlaces, TemplatePlaces
  <1>8. call'[c].at \in {"idle", "finishTemplate"}
    BY <1>7 DEF Idle
  <1> QED
    BY <1>1, <1>2, <1>3, <1>5, <1>6, <1>7, <1>8, RewriteHolds DEF Creating, Counting, Making, Deleting

-----------------------------------------------------------------------------
(* A request that comes in, and the end of the server. *)
LEMMA ReceiveHolds ==
  ASSUME TypeInv, NEW c \in Calls, NEW i \in Ids, Request(c, i), Held(i)
  PROVE  TypeInv' /\ Touches(c, i) /\ Held(i)'
  <1>1. PICK at \in {"lookup", "template", "delete", "find", "deleteTemplate", "publish", "finish"},
             name \in Names, set \in {"running", "paused", "later"} :
          Receive(c, at, i, name, set) /\ (at = "template" => name \in Aliases)
    <2>1. AnyName \in Names /\ Aliases \subseteq Names
      BY KeysAssumption DEF AnyName, Names
    <2> QED
      BY <2>1 DEF Request
  <1> DEFINE k == [at |-> at, id |-> i, name |-> name, set |-> set, read |-> 0,
                   template |-> CHOOSE t \in Templates : TRUE]
  <1>2. /\ call[c] = Idle /\ requests' = requests + 1 /\ requests < MaxRequests /\ Asked(at, i)
        /\ call' = [call EXCEPT ![c] = k]
        /\ dropped' = IF at \in {"delete", "deleteTemplate"} THEN dropped \cup {i} ELSE dropped
        /\ db' = db /\ backend' = backend /\ told' = told /\ born' = born /\ missed' = missed
        /\ hit' = hit /\ faults' = faults
    BY <1>1 DEF Receive
  <1>3. /\ at \in {"lookup", "delete", "find"} => i \in Sandboxes
        /\ at \in {"template", "deleteTemplate", "publish", "finish"} => i \in Templates
        /\ at \in {"lookup", "template"} => told[i] = "nothing" /\ ~Working(i)
    BY <1>2 DEF Asked, Fresh
  <1>4. k \in InProgress /\ k.at = at /\ k.id = i /\ k.name = name
    <2>1. (CHOOSE t \in Templates : TRUE) \in Templates
      BY KeysAssumption
    <2> QED
      BY <2>1 DEF InProgress, Places
  <1>5. CallOK(k)
    BY <1>1, <1>3, <1>4 DEF CallOK, SandboxPlaces, TemplatePlaces
  <1> HIDE DEF k
  <1>6. Alone(c) /\ call'[c] = k
    BY <1>2 DEF Alone, TypeInv
  <1>7. TypeInv'
    <2>1. requests' \in 0 .. MaxRequests
      BY <1>2, BoundsAssumption DEF TypeInv
    <2>2. dropped' \subseteq Ids
      BY <1>2 DEF TypeInv
    <2> QED
      BY <1>2, <1>4, <1>5, <1>6, <2>1, <2>2, TypeStep DEF TypeInv
  <1>8. Touches(c, i)
    BY <1>2, <1>4, <1>6 DEF Touches
  <1>9. \A d \in Calls :
          /\ On(d, Creating, i)' <=> IF d = c THEN at \in {"lookup", "template"} ELSE On(d, Creating, i)
          /\ On(d, Deleting, i)' <=> IF d = c THEN at \in {"delete", "deleteTemplate"} ELSE On(d, Deleting, i)
          /\ On(d, Counting, i)' => On(d, Counting, i)
          /\ On(d, Making, i) <=> On(d, Making, i)'
          /\ On(d, {"build"}, i)' => On(d, {"build"}, i)
    BY <1>2, <1>4, <1>6, CallsOn DEF On, Idle, Creating, Deleting, Counting, Making
  <1>10. at \in {"lookup", "template"} => \A d \in Calls : ~On(d, Creating, i)
    BY <1>3 DEF Working, On, Creating, Idle
  <1>11. Held(i)'
    <2>1. \A d \in Calls : On(d, Creating, i)' => told'[i] = "nothing"
      BY <1>2, <1>3, <1>9 DEF Held
    <2>2. \A d, e \in Calls : On(d, Creating, i)' /\ On(e, Creating, i)' => d = e
      BY <1>9, <1>10 DEF Held
    <2>3. \A d \in Calls : On(d, Deleting, i)' => i \in dropped'
      BY <1>2, <1>9 DEF Held
    <2>4. i \in dropped => i \in dropped'
      BY <1>2
    <2>5. \A d \in Calls : On(d, Counting, i)' => i \in DOMAIN db'.sandboxes \/ i \in dropped'
      BY <1>2, <1>9, <2>4 DEF Held
    <2> QED
      BY <1>2, <1>9, <2>1, <2>2, <2>3, <2>4, <2>5 DEF Held
  <1> QED
    BY <1>7, <1>8, <1>11

LEMMA RestartTypes ==
  ASSUME TypeInv, Restart
  PROVE  TypeInv'
  <1>1. call' = [c \in Calls |-> Idle]
    BY DEF Restart
  <1>2. \A c \in Calls : CallOK(call'[c]) /\ call'[c].at \notin {"write", "build"}
    BY <1>1 DEF CallOK, Idle
  <1>3. faults' \in 0 .. MaxFaults
    BY BoundsAssumption DEF Restart, TypeInv
  <1>4. Well(db') /\ backend' \in Backends /\ (backend' # "memory" => Referring(db'))
    BY EmptyTables DEF Restart, TypeInv, Backends
  <1>5. told' \in [Ids -> {"nothing", "created", "extended", "refused", "forgotten"}]
    <2>1. \A id \in Ids : told[id] \in {"nothing", "created", "extended", "refused", "forgotten"}
      BY DEF TypeInv
    <2> QED
      BY <2>1 DEF Restart
  <1>6. missed' \subseteq Templates
    <2>1. \A d \in Calls : call[d].at \in {"count", "write"} => call[d].template \in Templates
      BY InCall DEF Places, InProgress
    <2> QED
      BY <2>1 DEF Restart, TypeInv
  <1>7. hit' \subseteq Ids
    BY DEF Restart
  <1> QED
    BY <1>1, <1>2, <1>3, <1>4, <1>5, <1>6, <1>7 DEF Restart, TypeInv

LEMMA RestartHolds ==
  ASSUME TypeInv, NEW i \in Ids, Held(i), Restart
  PROVE  Held(i)'
  <1>1. \A c \in Calls : call'[c] = Idle
    BY DEF Restart
  <1>2. \A d \in Calls : /\ ~On(d, Creating, i)' /\ ~On(d, Deleting, i)' /\ ~On(d, Counting, i)'
                         /\ ~On(d, {"build"}, i)' /\ ~On(d, Making, i)'
    BY <1>1 DEF On, Idle, Creating, Deleting, Counting, Making
  <1>3. /\ dropped' = dropped /\ born' = born /\ hit \subseteq hit'
        /\ (backend' = "memory" /\ db' = Empty) \/ (backend' # "memory" /\ db' = db)
        /\ told'[i] = IF (backend' = "memory" /\ told[i] # "nothing") \/ (Working(i) /\ told[i] = "nothing")
                      THEN "forgotten" ELSE told[i]
    BY DEF Restart, TypeInv
  <1>4. /\ told'[i] \in {told[i], "forgotten"}
        /\ told[i] # "nothing" => told'[i] # "nothing"
        /\ told'[i] # "forgotten" /\ told'[i] # "nothing" => db' = db
    BY <1>3
  <1>5. i \in DOMAIN db'.sandboxes \cup DOMAIN db'.templates \cup DOMAIN db'.builds \cup DOMAIN born' =>
          told'[i] # "nothing"
    <2>1. i \in DOMAIN db'.sandboxes \cup DOMAIN db'.templates \cup DOMAIN db'.builds \cup DOMAIN born' =>
            i \in DOMAIN db.sandboxes \cup DOMAIN db.templates \cup DOMAIN db.builds \cup DOMAIN born
      BY <1>3, EmptyTables
    <2>2. (\E c \in Calls : On(c, Making, i)) => Working(i)
      BY DEF On, Working, Making, Idle
    <2> QED
      BY <1>3, <2>1, <2>2 DEF Held
  <1>6. told'[i] \in {"created", "extended"} /\ i \notin dropped' =>
           /\ i \in Sandboxes => i \in DOMAIN db'.sandboxes
           /\ i \in Templates => i \in DOMAIN db'.templates /\ i \in DOMAIN db'.builds
    BY <1>3, <1>4 DEF Held
  <1>7. told'[i] = "extended" /\ i \in DOMAIN db'.sandboxes /\ i \notin hit' =>
           db'.sandboxes[i].endAt = "later"
    BY <1>3, <1>4 DEF Held
  <1>8. told'[i] = "refused" /\ i \notin hit' =>
           i \notin DOMAIN db'.sandboxes \cup DOMAIN db'.templates \cup DOMAIN db'.builds
    BY <1>3, <1>4 DEF Held
  <1> QED
    BY <1>2, <1>5, <1>6, <1>7, <1>8 DEF Held

-----------------------------------------------------------------------------
StoreInv == TypeInv /\ \A id \in Ids : Held(id)

LEMMA HandleHolds ==
  ASSUME TypeInv, NEW c \in Calls, NEW i, call[c].id = i, Held(i), Handle(c), UNCHANGED requests
  PROVE  i \in Ids /\ TypeInv' /\ Touches(c, i) /\ Held(i)'
  BY LookupHolds, InsertHolds, CountHolds, ReadCountHolds, ScheduleHolds, UndoHolds, DeleteHolds,
     FindHolds, UpdateHolds, CreateTemplateHolds, FirstBuildHolds, DeleteTemplateHolds, TemplateRowHolds
     DEF Handle

LEMMA HandledId ==
  ASSUME TypeInv, NEW c \in Calls, Handle(c)
  PROVE  call[c].id \in Ids
  <1>1. call[c].at \in Places
    BY DEF Handle, At, Places, GetTemplate, GetTemplateByAlias, InsertSandbox, CountSpawn, ReadSpawnCount,
           WriteSpawnCount, Schedule, UndoSandbox, DeleteSandbox, FindSandbox, UpdateSandboxState,
           UpdateSandboxTimeout, CreateTemplate, CreateFirstBuild, DeleteTemplate, UpdateTemplate,
           FinishBuild, FinishTemplate
  <1> QED
    BY <1>1, InCall

LEMMA StoreInvHolds == Spec => []StoreInv
  <1>1. Init => StoreInv
    <2> SUFFICES ASSUME Init PROVE StoreInv
      OBVIOUS
    <2>1. db = Empty /\ \A c \in Calls : call[c] = Idle
      BY DEF Init
    <2>2. born = <<>> /\ DOMAIN born = {}
      BY DEF Init
    <2>3. TypeInv
      BY <2>1, <2>2, EmptyTables, BoundsAssumption DEF Init, TypeInv, CallOK, Idle
    <2>4. \A id \in Ids : Held(id)
      BY <2>1, <2>2, EmptyTables DEF Init, Held, On, Idle, Creating, Deleting, Counting, Making
    <2> QED
      BY <2>3, <2>4 DEF StoreInv
  <1>2. StoreInv /\ [Next]_vars => StoreInv'
    <2> SUFFICES ASSUME StoreInv, [Next]_vars PROVE StoreInv'
      OBVIOUS
    <2>1. ASSUME NEW c \in Calls, Handle(c), UNCHANGED requests
          PROVE  StoreInv'
      <3> DEFINE i == call[c].id
      <3>1. PICK j \in Ids : j = i
        BY <2>1, HandledId DEF StoreInv
      <3> HIDE DEF i
      <3>2. TypeInv' /\ Touches(c, j) /\ Held(j)'
        BY <2>1, <3>1, HandleHolds DEF StoreInv, i
      <3>3. \A id \in Ids : id # j => Held(id)'
        BY <3>2, OthersHeld DEF StoreInv
      <3> QED
        BY <3>2, <3>3 DEF StoreInv
    <2>2. ASSUME NEW c \in Calls, NEW j \in Ids, Request(c, j)
          PROVE  StoreInv'
      <3>1. TypeInv' /\ Touches(c, j) /\ Held(j)'
        BY <2>2, ReceiveHolds DEF StoreInv
      <3>2. \A id \in Ids : id # j => Held(id)'
        BY <3>1, OthersHeld DEF StoreInv
      <3> QED
        BY <3>1, <3>2 DEF StoreInv
    <2>3. CASE Restart
      BY <2>3, RestartTypes, RestartHolds DEF StoreInv
    <2>4. CASE UNCHANGED vars
      BY <2>4 DEF vars, historyVars, StoreInv, TypeInv, Held, On
    <2> QED
      BY <2>1, <2>2, <2>3, <2>4 DEF Next
  <1> QED
    BY <1>1, <1>2, PTL DEF Spec

-----------------------------------------------------------------------------
(* What every database keeps in its tables is typed, and outside memory every
   build and every sandbox has its template (the references that
   001_initial_schema.sql declares), whatever the requests, their faults and the
   restarts of the server. *)
THEOREM TablesHold == Spec => []TypeOK
  <1>1. StoreInv => TypeOK
    <2> SUFFICES ASSUME StoreInv PROVE TypeOK
      OBVIOUS
    <2>1. TablesTypeOK
      BY DEF StoreInv, TypeInv, Well, TablesTypeOK, Range
    <2>2. \A c \in Calls : call[c] \in InProgress \cup {Idle}
      BY DEF StoreInv, TypeInv, CallOK
    <2>3. Range(born) \subseteq Templates
      BY DEF StoreInv, TypeInv, Range
    <2> QED
      BY <2>1, <2>2, <2>3 DEF StoreInv, TypeInv, TypeOK, Referring
  <1> QED
    BY <1>1, StoreInvHolds, PTL

(* What the clients were told is so (CreateSandbox, CreateTemplate and the
   handlers over them): a created sandbox is listed and a created template has its
   build until their deletion is asked for, a refused creation has left no row,
   and an end that was moved stays moved. *)
THEOREM AnswersAreKept == Spec => []AnswersHold
  <1>1. StoreInv => AnswersHold
    <2> SUFFICES ASSUME StoreInv, NEW id \in Ids
                 PROVE
        /\ told[id] \in {"created", "extended"} /\ id \notin dropped =>
             IF id \in Sandboxes THEN id \in Listed({"running", "paused"}) \cap Listed({})
             ELSE id \in ListedTemplates /\ ListedBuilds(id) # {} /\ BuildStatusKnown(id)
        /\ told[id] = "extended" /\ id \in DOMAIN db.sandboxes \ hit => db.sandboxes[id].endAt = "later"
        /\ told[id] = "refused" /\ id \notin hit =>
             id \notin DOMAIN db.sandboxes \cup DOMAIN db.templates \cup DOMAIN db.builds
      BY DEF AnswersHold
    <2>1. Held(id) /\ backend \in Backends /\ Well(db)
      BY DEF StoreInv, TypeInv
    <2>2. id \in DOMAIN db.sandboxes => id \in Listed({"running", "paused"}) \cap Listed({})
      BY <2>1 DEF Well, SandboxRow, Listed, Of, Backends, Memory!ListSandboxes, Postgres!ListSandboxes,
                  Supabase!ListSandboxes
    <2>3. id \in DOMAIN db.templates => id \in ListedTemplates /\ Named(id) # {}
      BY <2>1 DEF ListedTemplates, Named, Of, Backends, Memory!ListTemplates, Postgres!ListTemplates,
                  Supabase!ListTemplates, Memory!GetTemplate, Memory!ById, Postgres!GetTemplate,
                  Postgres!ById, Supabase!GetTemplate, Supabase!ById
    <2>4. id \in DOMAIN db.templates /\ id \in DOMAIN db.builds =>
            ListedBuilds(id) # {} /\ BuildStatusKnown(id)
      BY <2>1, <2>3 DEF ListedBuilds, BuildStatusKnown, Of, Backends, Memory!ListBuildsForTemplate,
                  Postgres!ListBuildsForTemplate, Supabase!ListBuildsForTemplate, Memory!GetBuild,
                  Postgres!GetBuild, Supabase!GetBuild
    <2>5. id \notin Sandboxes => id \in Templates
      BY DEF Ids
    <2> QED
      BY <2>1, <2>2, <2>3, <2>4, <2>5 DEF Held
  <1> QED
    BY <1>1, StoreInvHolds, PTL

-----------------------------------------------------------------------------
(* Spawn counts.  A sandbox is settled once its request is past the counting;
   a template has been seen once a sandbox may be made of it. *)
Counts == {"count", "write"}
Unsettled(id) == \E c \in Calls : On(c, Counts, id)
Settled(t) == {id \in DOMAIN born : born[id] = t /\ ~Unsettled(id)}
Seen(t) == told[t] # "nothing" \/ \E c \in Calls : On(c, {"build"}, t)
Writes(c, t) == call[c].at = "write" /\ call[c].template = t

(* One template's count. *)
Tally(t) ==
  /\ \A c \in Calls : Writes(c, t) =>
       /\ call[c].read <= Cardinality(Settled(t))
       /\ t \in DOMAIN db.templates /\ t \notin missed => call[c].read = Cardinality(Settled(t))
  /\ \A c, d \in Calls : Writes(c, t) /\ Writes(d, t) /\ t \notin missed => c = d
  /\ t \in DOMAIN db.templates =>
       /\ db.templates[t].spawns <= Cardinality(Settled(t))
       /\ t \notin missed => db.templates[t].spawns = Cardinality(Settled(t))

CountBase ==
  /\ IsFiniteSet(DOMAIN born)
  /\ \A c \in Calls : call[c].at \in Counts =>
       call[c].id \in DOMAIN born /\ born[call[c].id] = call[c].template
  /\ \A c \in Calls : call[c].at \in {"insert", "count", "write"} => Seen(call[c].template)
  /\ \A id \in DOMAIN born : Seen(born[id])
  /\ \A c \in Calls : call[c].at = "write" => backend = "supabase"

LEMMA SettledFinite ==
  ASSUME CountBase, NEW t
  PROVE  IsFiniteSet(Settled(t)) /\ Cardinality(Settled(t)) \in Nat
  <1>1. Settled(t) \subseteq DOMAIN born
    BY DEF Settled
  <1> QED
    BY <1>1, FS_Subset, FS_CardinalityType DEF CountBase

(* A step that neither counts nor makes sandboxes of a template keeps its count;
   one that loses a count may only settle more. *)
LEMMA SameTally ==
  ASSUME NEW t, Tally(t), Settled(t)' = Settled(t), missed \subseteq missed',
         t \in DOMAIN db'.templates =>
           t \in DOMAIN db.templates /\ db'.templates[t].spawns = db.templates[t].spawns,
         \A d \in Calls : Writes(d, t)' => Writes(d, t) /\ call'[d].read = call[d].read
  PROVE  Tally(t)'
  BY DEF Tally

LEMMA MissedTally ==
  ASSUME NEW t, Tally(t), Settled(t) \subseteq Settled(t)', CountBase, CountBase', t \in missed', TypeInv,
         t \in DOMAIN db'.templates => db'.templates[t].spawns <= Cardinality(Settled(t))',
         \A d \in Calls : Writes(d, t)' => Writes(d, t) /\ call'[d].read = call[d].read
  PROVE  Tally(t)'
  <1> DEFINE S == Settled(t)
  <1>1. IsFiniteSet(S) /\ Cardinality(S) \in Nat
    BY SettledFinite
  <1>2. (IsFiniteSet(S) /\ Cardinality(S) \in Nat)'
    <2>1. Settled(t)' \subseteq DOMAIN born' /\ IsFiniteSet(DOMAIN born')
      BY DEF Settled, CountBase
    <2> QED
      BY <2>1, FS_Subset, FS_CardinalityType
  <1>3. Cardinality(S) <= Cardinality(S)'
    BY <1>1, <1>2, FS_Subset
  <1>4. \A d \in Calls : call[d].at = "write" => call[d].read \in Nat
    BY InCall DEF Places, InProgress
  <1> HIDE DEF S
  <1>5. \A d \in Calls : Writes(d, t)' => call'[d].read <= Cardinality(S)'
    BY <1>1, <1>2, <1>3, <1>4 DEF Tally, Writes, S
  <1> QED
    BY <1>5 DEF Tally, S

(* The templates seen stay so. *)
LEMMA SeenKept ==
  ASSUME TypeInv, NEW c \in Calls, Handle(c), NEW t \in Templates, Seen(t)
  PROVE  Seen(t)'
  <1>1. call[c].at \in Places
    BY DEF Handle, At, Places, GetTemplate, GetTemplateByAlias, InsertSandbox, CountSpawn, ReadSpawnCount,
           WriteSpawnCount, Schedule, UndoSandbox, DeleteSandbox, FindSandbox, UpdateSandboxState,
           UpdateSandboxTimeout, CreateTemplate, CreateFirstBuild, DeleteTemplate, UpdateTemplate,
           FinishBuild, FinishTemplate
  <1>2. \/ told' = told /\ call[c].at # "build"
        \/ \E what \in {"created", "extended", "refused"} : Tell(c, what)
    BY DEF Handle, At, GetTemplate, GetTemplateByAlias, InsertSandbox, CountSpawn, ReadSpawnCount,
           WriteSpawnCount, Schedule, UndoSandbox, DeleteSandbox, FindSandbox, UpdateSandboxState,
           UpdateSandboxTimeout, CreateTemplate, CreateFirstBuild, DeleteTemplate, UpdateTemplate,
           FinishBuild, FinishTemplate
  <1>3. \A d \in Calls \ {c} : call'[d] = call[d]
    BY DEF Handle, GetTemplate, GetTemplateByAlias, InsertSandbox, CountSpawn, ReadSpawnCount,
           WriteSpawnCount, Schedule, UndoSandbox, DeleteSandbox, FindSandbox, UpdateSandboxState,
           UpdateSandboxTimeout, CreateTemplate, CreateFirstBuild, DeleteTemplate, UpdateTemplate,
           FinishBuild, FinishTemplate, Goto, Return, Tell, Chosen, TypeInv
  <1>4. t \in Ids
    BY DEF Ids
  <1>5. CASE told' = told /\ call[c].at # "build"
    BY <1>3, <1>5 DEF Seen, On
  <1>6. ASSUME NEW what \in {"created", "extended", "refused"}, Tell(c, what)
        PROVE  Seen(t)'
    <2>1. told' = [id \in Ids |-> IF id = call[c].id THEN what ELSE told[id]]
      BY <1>1, <1>6, TellCall
    <2> QED
      BY <1>3, <1>4, <2>1 DEF Seen, On
  <1> QED
    BY <1>2, <1>5, <1>6

(* What a step that does not count does to the templates' rows. *)
SpawnsKept(e) ==
  \A t \in DOMAIN e.templates : t \in DOMAIN db.templates /\ e.templates[t].spawns = db.templates[t].spawns

LEMMA RewrittenSpawns ==
  ASSUME TypeInv, NEW t \in DOMAIN db.templates, NEW row \in TemplateRow, row.spawns = db.templates[t].spawns
  PROVE  SpawnsKept(WithTemplate(db, t, row))
  <1>1. t \in Templates /\ Well(db)
    BY DEF TypeInv, Well
  <1>2. LET e == WithTemplate(db, t, row)
        IN  /\ DOMAIN e.templates = DOMAIN db.templates \cup {t}
            /\ e.templates[t] = row
            /\ \A k \in DOMAIN db.templates \ {t} : e.templates[k] = db.templates[k]
    BY <1>1, TemplateInserted
  <1> QED
    BY <1>2 DEF SpawnsKept

LEMMA TookDb ==
  ASSUME TypeInv, NEW c \in Calls, NEW d, NEW ok \in BOOLEAN, NEW o \in Outcomes([db |-> d, ok |-> ok]),
         Take(c, o)
  PROVE  db' \in {db, d}
  BY Taking DEF Took

Plain(c) ==
  \/ UndoSandbox(c) \/ DeleteSandbox(c) \/ UpdateSandboxState(c) \/ UpdateSandboxTimeout(c)
  \/ CreateFirstBuild(c) \/ DeleteTemplate(c) \/ UpdateTemplate(c) \/ FinishBuild(c) \/ FinishTemplate(c)

LEMMA PlainRows ==
  ASSUME TypeInv, NEW c \in Calls, NEW i, call[c].id = i, Plain(c)
  PROVE  SpawnsKept(db')
  <1>1. call[c].at \in Places
    BY DEF Plain, At, Places, UndoSandbox, DeleteSandbox, UpdateSandboxState, UpdateSandboxTimeout,
           CreateFirstBuild, DeleteTemplate, UpdateTemplate, FinishBuild, FinishTemplate
  <1>2. SpawnsKept(db) /\ Well(db) /\ backend \in Backends
    BY DEF SpawnsKept, TypeInv
  <1>3. CASE UndoSandbox(c) \/ DeleteSandbox(c)
    <2>1. PICK o \in Outcomes(DeleteRow(i)) : Take(c, o)
      BY <1>3 DEF UndoSandbox, DeleteSandbox
    <2>2. db'.templates = db.templates
      BY <2>1, RowDeleted
    <2> QED
      BY <2>2 DEF SpawnsKept
  <1>4. CASE UpdateSandboxState(c) \/ UpdateSandboxTimeout(c)
    <2>1. call[c].at \in {"mark", "extend"} /\ i \in Sandboxes /\ CallOK(call[c])
      BY <1>1, <1>4, InCall DEF UpdateSandboxState, UpdateSandboxTimeout, At, SandboxPlaces
    <2>2. call[c].at = "mark" => call[c].set \in {"running", "paused"}
      BY <2>1 DEF CallOK, InProgress, Idle
    <2>3. db'.templates = db.templates
      <3>1. CASE UpdateSandboxState(c)
        <4>1. ChangeSandbox(c, "state", call[c].set) /\ call[c].set \in {"running", "paused"}
          BY <2>2, <3>1 DEF UpdateSandboxState, At
        <4> QED
          BY <2>1, <4>1, RowChanged
      <3>2. CASE UpdateSandboxTimeout(c)
        <4>1. ChangeSandbox(c, "endAt", "later")
          BY <3>2 DEF UpdateSandboxTimeout
        <4> QED
          BY <2>1, <4>1, RowChanged
      <3> QED
        BY <1>4, <3>1, <3>2
    <2> QED
      BY <2>3 DEF SpawnsKept
  <1>5. CASE CreateFirstBuild(c)
    <2> DEFINE W == WithBuild(db, i, "waiting")
    <2>1. PICK o \in Outcomes(Supabase!CreateFirstBuild(i)) : Take(c, o)
      BY <1>5 DEF CreateFirstBuild
    <2>2. i \in Templates
      BY <1>1, <1>5, InCall DEF CreateFirstBuild, At, TemplatePlaces
    <2>3. W.templates = db.templates
      BY <1>2, <2>2, BuildInserted DEF BuildRow
    <2>4. \/ Supabase!CreateFirstBuild(i) = [db |-> W, ok |-> TRUE]
          \/ Supabase!CreateFirstBuild(i) = [db |-> db, ok |-> FALSE]
      BY FirstBuildCreated DEF Done, Failed
    <2> HIDE DEF W
    <2>5. db' \in {db, W}
      BY <2>1, <2>4, TookDb
    <2> QED
      BY <2>3, <2>5 DEF SpawnsKept
  <1>6. CASE DeleteTemplate(c)
    <2> DEFINE T == WithoutTemplate(db, i)
    <2> DEFINE B == WithoutBoth(db, i)
    <2> DEFINE r == Of(Memory!DeleteTemplate(i), Postgres!DeleteTemplate(i), Supabase!DeleteTemplate(i))
    <2>1. PICK o \in Outcomes(r) : Take(c, o)
      BY <1>6 DEF DeleteTemplate
    <2>2. \/ r = [db |-> T, ok |-> TRUE] \/ r = [db |-> B, ok |-> TRUE] \/ r = [db |-> db, ok |-> FALSE]
      BY <1>2, TemplateDeleted DEF Done, Failed
    <2>3. /\ DOMAIN T.templates = DOMAIN db.templates \ {i}
          /\ \A k \in DOMAIN db.templates \ {i} : T.templates[k] = db.templates[k]
      BY <1>2, TemplateRemoved
    <2>4. /\ DOMAIN B.templates = DOMAIN db.templates \ {i}
          /\ \A k \in DOMAIN db.templates \ {i} : B.templates[k] = db.templates[k]
      BY <1>2, BothRemoved
    <2> HIDE DEF T, B, r
    <2>5. db' \in {db, T, B}
      BY <2>1, <2>2, TookDb
    <2> QED
      BY <1>2, <2>3, <2>4, <2>5 DEF SpawnsKept
  <1>7. ASSUME NEW field, NEW value, \E o \in Outcomes(Change(i, field, value)) : Take(c, o),
               (field = "public" /\ value \in BOOLEAN) \/ (field = "status" /\ value = "done")
        PROVE  SpawnsKept(db')
    <2> DEFINE row == [db.templates[i] EXCEPT ![field] = value]
    <2> DEFINE r == Change(i, field, value)
    <2>1. \/ r = [db |-> WithTemplate(db, i, row), ok |-> TRUE] /\ i \in DOMAIN db.templates
          \/ r = [db |-> db, ok |-> FALSE]
          \/ r = [db |-> db, ok |-> TRUE]
      BY <1>2, TemplateUpdated DEF Done, Failed, Nothing
    <2>2. PICK o \in Outcomes(r) : Take(c, o)
      BY <1>7
    <2>3. ASSUME i \in DOMAIN db.templates PROVE row \in TemplateRow /\ row.spawns = db.templates[i].spawns
      <3>1. db.templates[i] \in TemplateRow
        BY <2>3 DEF TypeInv, Well
      <3>2. CASE field = "public" /\ value \in BOOLEAN
        BY <3>1, <3>2 DEF TemplateRow
      <3>3. CASE field = "status" /\ value = "done"
        BY <3>1, <3>3 DEF TemplateRow
      <3> QED
        BY <1>7, <3>2, <3>3
    <2> HIDE DEF row, r
    <2>4. db' = db \/ (db' = WithTemplate(db, i, row) /\ i \in DOMAIN db.templates)
      BY <2>1, <2>2, TookDb
    <2>5. i \in DOMAIN db.templates => SpawnsKept(WithTemplate(db, i, row))
      BY <2>3, RewrittenSpawns
    <2> QED
      BY <1>2, <2>4, <2>5
  <1>8. CASE UpdateTemplate(c)
    <2>1. PICK v \in BOOLEAN : \E o \in Outcomes(Change(i, "public", v)) : Take(c, o)
      BY <1>8 DEF UpdateTemplate
    <2> QED
      BY <1>7, <2>1
  <1>9. CASE FinishTemplate(c)
    <2>1. \E o \in Outcomes(Change(i, "status", "done")) : Take(c, o)
      BY <1>9 DEF FinishTemplate
    <2> QED
      BY <1>7, <2>1
  <1>10. CASE FinishBuild(c)
    <2> DEFINE r == Of(Memory!UpdateBuild(i, "done"), Postgres!UpdateBuild(i, "done"),
                       Supabase!UpdateBuild(i, "done"))
    <2> DEFINE W == WithBuild(db, i, "done")
    <2>1. r \in {[db |-> W, ok |-> TRUE], [db |-> db, ok |-> FALSE], [db |-> db, ok |-> TRUE]}
      BY <1>2, BuildUpdated DEF Done, Failed, Nothing
    <2>2. PICK o \in Outcomes(r) : Take(c, o)
      BY <1>10 DEF FinishBuild
    <2>3. i \in Templates
      BY <1>1, <1>10, InCall DEF FinishBuild, At, TemplatePlaces
    <2>4. W.templates = db.templates
      BY <1>2, <2>3, BuildInserted DEF BuildRow
    <2> HIDE DEF r, W
    <2>5. db' \in {db, W}
      BY <2>1, <2>2, TookDb
    <2> QED
      BY <2>4, <2>5 DEF SpawnsKept
  <1> QED
    BY <1>3, <1>4, <1>5, <1>6, <1>8, <1>9, <1>10 DEF Plain

CountInv == CountBase /\ \A t \in Templates : Tally(t)

LEMMA BaseStep ==
  ASSUME IsFiniteSet(DOMAIN born'),
         \A d \in Calls : call'[d].at \in Counts =>
           call'[d].id \in DOMAIN born' /\ born'[call'[d].id] = call'[d].template,
         \A d \in Calls : call'[d].at \in {"insert", "count", "write"} =>
           \E t \in Templates : call'[d].template = t /\ Seen(t),
         \A id \in DOMAIN born' : \E t \in Templates : born'[id] = t /\ Seen(t),
         \A t \in Templates : Seen(t) => Seen(t)',
         \A d \in Calls : call'[d].at = "write" => backend' = "supabase"
  PROVE  CountBase'
  <1>1. ASSUME NEW d \in Calls, call'[d].at \in {"insert", "count", "write"}
        PROVE  Seen(call[d].template)'
    <2>1. PICK t \in Templates : call'[d].template = t /\ Seen(t)'
      BY <1>1
    <2> QED
      BY <2>1 DEF Seen
  <1>2. ASSUME NEW id \in DOMAIN born'
        PROVE  Seen(born[id])'
    <2>1. PICK t \in Templates : born'[id] = t /\ Seen(t)'
      OBVIOUS
    <2> QED
      BY <2>1 DEF Seen
  <1> QED
    BY <1>1, <1>2 DEF CountBase

(* A step away from the counting. *)
LEMMA QuietCounts ==
  ASSUME StoreInv, CountInv, NEW c \in Calls, Alone(c), backend' = backend, born' = born,
         missed \subseteq missed', SpawnsKept(db'),
         call[c].at \notin Counts, call'[c].at \notin Counts,
         call'[c].at = "insert" => \E t \in Templates : call'[c].template = t /\ Seen(t),
         \A t \in Templates : Seen(t) => Seen(t)'
  PROVE  CountInv'
  <1>1. \A d \in Calls : call'[d].at \in Counts => call'[d] = call[d]
    BY DEF Alone
  <1>2. \A d \in Calls : call[d].at \in Counts => call'[d] = call[d]
    BY DEF Alone
  <1>3. \A id : Unsettled(id)' <=> Unsettled(id)
    BY <1>1, <1>2 DEF Unsettled, On
  <1>4. \A t : Settled(t)' = Settled(t)
    BY <1>3 DEF Settled
  <1>5. \A d \in Calls : call'[d].at \in {"insert", "count", "write"} =>
          \E t \in Templates : call'[d].template = t /\ Seen(t)
    <2>1. \A d \in Calls : call[d].at \in {"insert", "count", "write"} => call[d].template \in Templates
      BY InCall DEF Places, InProgress, StoreInv
    <2> QED
      BY <2>1 DEF Alone, CountInv, CountBase, Counts
  <1>6. CountBase'
    <2>1. \A id \in DOMAIN born' : \E t \in Templates : born'[id] = t /\ Seen(t)
      BY DEF CountInv, CountBase, StoreInv, TypeInv
    <2>2. /\ IsFiniteSet(DOMAIN born')
          /\ \A d \in Calls : call'[d].at \in Counts =>
               call'[d].id \in DOMAIN born' /\ born'[call'[d].id] = call'[d].template
          /\ \A d \in Calls : call'[d].at = "write" => backend' = "supabase"
      BY <1>1 DEF CountInv, CountBase, Counts
    <2> QED
      BY <1>5, <2>1, <2>2, BaseStep
  <1>7. ASSUME NEW t \in Templates PROVE Tally(t)'
    <2>1. \A d \in Calls : Writes(d, t)' => Writes(d, t) /\ call'[d].read = call[d].read
      BY <1>1 DEF Writes, Counts
    <2> QED
      BY <1>4, <2>1, SameTally DEF CountInv, SpawnsKept
  <1> QED
    BY <1>6, <1>7 DEF CountInv

(* The end of the counting settles the sandbox. *)
LEMMA Settles ==
  ASSUME StoreInv, CountBase, NEW c \in Calls, NEW i, call[c].id = i, call[c].at \in Counts,
         NEW t, call[c].template = t, Alone(c), call'[c].at = "schedule", born' = born
  PROVE  /\ Cardinality(Settled(t))' = Cardinality(Settled(t)) + 1
         /\ Settled(t) \subseteq Settled(t)'
         /\ \A k : k # t => Settled(k)' = Settled(k)
  <1>1. i \in Ids /\ i \in DOMAIN born /\ born[i] = t
    BY InCall DEF Counts, Places, StoreInv, CountBase
  <1>2. Unsettled(i) /\ \A d \in Calls : On(d, Counts, i) => d = c
    <2>1. \A d \in Calls : On(d, Counts, i) => On(d, Creating, i)
      BY DEF On, Counts, Creating
    <2> QED
      BY <1>1, <2>1 DEF StoreInv, Held, Unsettled, On
  <1>3. ~Unsettled(i)' /\ \A id : id # i => (Unsettled(id)' <=> Unsettled(id))
    <2>1. \A d \in Calls \ {c} : call'[d] = call[d]
      BY DEF Alone
    <2>2. ~Unsettled(i)'
      BY <1>2, <2>1 DEF Unsettled, On, Counts
    <2>3. ASSUME NEW id, id # i PROVE Unsettled(id)' <=> Unsettled(id)
      BY <2>1, <2>3 DEF Unsettled, On, Counts
    <2> QED
      BY <2>2, <2>3
  <1>4. Settled(t)' = Settled(t) \cup {i} /\ i \notin Settled(t)
    BY <1>1, <1>2, <1>3 DEF Settled
  <1>5. ASSUME NEW k, k # t PROVE Settled(k)' = Settled(k)
    BY <1>1, <1>2, <1>3, <1>5 DEF Settled
  <1>6. Cardinality(Settled(t) \cup {i}) = Cardinality(Settled(t)) + 1
    BY <1>4, SettledFinite, FS_AddElement
  <1> QED
    BY <1>4, <1>5, <1>6

(* The rows that counting changes. *)
LEMMA CountedRow ==
  ASSUME TypeInv, NEW t \in DOMAIN db.templates, NEW row \in TemplateRow
  PROVE  LET e == WithTemplate(db, t, row)
         IN  /\ DOMAIN e.templates = DOMAIN db.templates /\ e.templates[t].spawns = row.spawns
             /\ \A k \in DOMAIN db.templates \ {t} : e.templates[k] = db.templates[k]
  <1>1. t \in Templates /\ Well(db)
    BY DEF TypeInv, Well
  <1>2. LET e == WithTemplate(db, t, row)
        IN  /\ DOMAIN e.templates = DOMAIN db.templates \cup {t} /\ e.templates[t] = row
            /\ \A k \in DOMAIN db.templates \ {t} : e.templates[k] = db.templates[k]
    BY <1>1, TemplateInserted
  <1> QED
    BY <1>2

LEMMA CountedRows ==
  ASSUME TypeInv, NEW c \in Calls, NEW t, call[c].template = t, CountSpawn(c) \/ WriteSpawnCount(c)
  PROVE  /\ DOMAIN db'.templates = DOMAIN db.templates
         /\ \A k \in DOMAIN db.templates \ {t} : db'.templates[k] = db.templates[k]
         /\ missed' \in {missed, missed \cup {t}}
         /\ t \in DOMAIN db.templates =>
              LET next == IF CountSpawn(c) THEN db.templates[t].spawns + 1 ELSE call[c].read + 1
              IN  /\ db'.templates[t].spawns \in {db.templates[t].spawns, next}
                  /\ t \notin missed' => db'.templates[t].spawns = next
  <1> DEFINE next == IF CountSpawn(c) THEN db.templates[t].spawns + 1 ELSE call[c].read + 1
  <1> DEFINE row == [db.templates[t] EXCEPT !.spawns = next]
  <1> DEFINE W == WithTemplate(db, t, row)
  <1>1. call[c].at \in {"count", "write"} /\ call[c].read \in Nat /\ t \in Templates
    <2>1. call[c].at \in {"count", "write"}
      BY DEF CountSpawn, WriteSpawnCount, At
    <2> QED
      BY <2>1, InCall DEF Places, InProgress
  <1>2. PICK ok \in BOOLEAN, d \in {db, W} :
          /\ \E o \in Outcomes([db |-> d, ok |-> ok]) :
               Take(c, o) /\ missed' = IF o.sound THEN missed ELSE missed \cup {t}
          /\ t \in DOMAIN db.templates => d = W
          /\ t \notin DOMAIN db.templates => d = db
    <2>1. CASE CountSpawn(c)
      <3> DEFINE r == Of(Memory!IncrementTemplateSpawnCount(t), Postgres!IncrementTemplateSpawnCount(t), Nothing)
      <3>1. backend # "supabase" /\ backend \in Backends /\ Well(db)
        BY <2>1 DEF CountSpawn, TypeInv
      <3>2. \/ r = [db |-> W, ok |-> TRUE] /\ t \in DOMAIN db.templates
            \/ r = [db |-> db, ok |-> TRUE] /\ t \notin DOMAIN db.templates
        BY <2>1, <3>1, SpawnCounted DEF Done, Nothing
      <3>3. \E o \in Outcomes(r) : Take(c, o) /\ missed' = IF o.sound THEN missed ELSE missed \cup {t}
        BY <2>1 DEF CountSpawn
      <3> HIDE DEF r, W
      <3> QED
        BY <3>2, <3>3
    <2>2. CASE WriteSpawnCount(c)
      <3> DEFINE r == Supabase!WriteSpawnCount(t, call[c].read)
      <3>1. ~CountSpawn(c)
        BY <2>2 DEF CountSpawn, WriteSpawnCount, At
      <3>2. \/ r = [db |-> W, ok |-> TRUE] /\ t \in DOMAIN db.templates
            \/ r = [db |-> db, ok |-> TRUE] /\ t \notin DOMAIN db.templates
        BY <3>1, SpawnWritten DEF Done, Nothing
      <3>3. \E o \in Outcomes(r) : Take(c, o) /\ missed' = IF o.sound THEN missed ELSE missed \cup {t}
        BY <2>2 DEF WriteSpawnCount
      <3> HIDE DEF r, W
      <3> QED
        BY <3>2, <3>3
    <2> QED
      BY <2>1, <2>2
  <1>3. t \in DOMAIN db.templates => row \in TemplateRow /\ row.spawns = next
    BY <1>1 DEF TypeInv, Well, TemplateRow
  <1> HIDE DEF row, next
  <1>4. t \in DOMAIN db.templates =>
          /\ DOMAIN W.templates = DOMAIN db.templates /\ W.templates[t].spawns = next
          /\ \A k \in DOMAIN db.templates \ {t} : W.templates[k] = db.templates[k]
    BY <1>3, CountedRow
  <1> HIDE DEF W
  <1>5. /\ db' \in {db, d} /\ missed' \in {missed, missed \cup {t}}
        /\ t \notin missed' => db' = d
    <2>1. PICK o \in Outcomes([db |-> d, ok |-> ok]) :
            Take(c, o) /\ missed' = IF o.sound THEN missed ELSE missed \cup {t}
      BY <1>2
    <2> QED
      BY <2>1, Taking DEF Took
  <1> QED
    BY <1>2, <1>4, <1>5 DEF next

(* Where sandboxes are being made of which templates. *)
LEMMA MakingOf ==
  ASSUME StoreInv, CountBase
  PROVE  /\ \A d \in Calls : call[d].at \in {"insert", "count", "write"} =>
              \E t \in Templates : call[d].template = t /\ Seen(t)
         /\ \A id \in DOMAIN born : \E t \in Templates : born[id] = t /\ Seen(t)
  <1>1. \A d \in Calls : call[d].at \in {"insert", "count", "write"} => call[d].template \in Templates
    BY InCall DEF Places, InProgress, StoreInv
  <1>2. \A id \in DOMAIN born : born[id] \in Templates
    BY DEF StoreInv, TypeInv
  <1> QED
    BY <1>1, <1>2 DEF CountBase

LEMMA CountingCounts ==
  ASSUME StoreInv, CountInv, NEW c \in Calls, NEW i, call[c].id = i, NEW t, call[c].template = t,
         CountSpawn(c) \/ WriteSpawnCount(c)
  PROVE  CountInv'
  <1>1. /\ call[c].at \in Counts /\ call[c].at \in Places
        /\ CountSpawn(c) => call[c].at = "count" /\ backend # "supabase"
        /\ WriteSpawnCount(c) => call[c].at = "write" /\ ~CountSpawn(c)
    BY DEF CountSpawn, WriteSpawnCount, At, Counts, Places
  <1>2. t \in Templates /\ call[c].read \in Nat
    BY <1>1, InCall DEF StoreInv, InProgress
  <1>3. /\ backend' = backend /\ told' = told /\ born' = born /\ Goto(c, "schedule")
    BY DEF CountSpawn, WriteSpawnCount
  <1>4. Alone(c) /\ call'[c].at = "schedule"
    BY <1>1, <1>3, GotoCall DEF StoreInv, Places
  <1>5. /\ Cardinality(Settled(t))' = Cardinality(Settled(t)) + 1
        /\ Settled(t) \subseteq Settled(t)'
        /\ \A k : k # t => Settled(k)' = Settled(k)
    BY <1>1, <1>3, <1>4, Settles DEF CountInv
  <1>6. /\ DOMAIN db'.templates = DOMAIN db.templates
        /\ \A k \in DOMAIN db.templates \ {t} : db'.templates[k] = db.templates[k]
        /\ missed' \in {missed, missed \cup {t}}
        /\ t \in DOMAIN db.templates =>
             LET next == IF CountSpawn(c) THEN db.templates[t].spawns + 1 ELSE call[c].read + 1
             IN  /\ db'.templates[t].spawns \in {db.templates[t].spawns, next}
                 /\ t \notin missed' => db'.templates[t].spawns = next
    BY CountedRows DEF StoreInv
  <1>7. \A d \in Calls : call'[d].at \in {"insert", "count", "write"} => d # c /\ call'[d] = call[d]
    BY <1>4 DEF Alone
  <1>8. CountBase'
    <2>1. \A k \in Templates : Seen(k) => Seen(k)'
      BY SeenKept DEF StoreInv, Handle
    <2>2. \A d \in Calls : call'[d].at \in {"insert", "count", "write"} =>
            \E k \in Templates : call'[d].template = k /\ Seen(k)
      BY <1>7, MakingOf DEF CountInv
    <2>3. \A id \in DOMAIN born' : \E k \in Templates : born'[id] = k /\ Seen(k)
      BY <1>3, MakingOf DEF CountInv
    <2>4. \A d \in Calls : call'[d].at \in Counts =>
            call'[d].id \in DOMAIN born' /\ born'[call'[d].id] = call'[d].template
      BY <1>3, <1>7 DEF CountInv, CountBase, Counts
    <2>5. \A d \in Calls : call'[d].at = "write" => backend' = "supabase"
      BY <1>3, <1>7 DEF CountInv, CountBase
    <2>6. IsFiniteSet(DOMAIN born')
      BY <1>3 DEF CountInv, CountBase
    <2> QED
      BY <2>1, <2>2, <2>3, <2>4, <2>5, <2>6, BaseStep
  <1>9. ASSUME NEW k \in Templates, k # t PROVE Tally(k)'
    <2>1. \A d \in Calls : Writes(d, k)' => Writes(d, k) /\ call'[d].read = call[d].read
      BY <1>7 DEF Writes
    <2>2. Tally(k) /\ Settled(k)' = Settled(k) /\ missed \subseteq missed'
      BY <1>5, <1>6, <1>9 DEF CountInv
    <2>3. k \in DOMAIN db'.templates =>
            k \in DOMAIN db.templates /\ db'.templates[k].spawns = db.templates[k].spawns
      BY <1>6, <1>9
    <2> QED
      BY <2>1, <2>2, <2>3, SameTally
  <1>10. Tally(t)'
    <2> DEFINE N == Cardinality(Settled(t))
    <2>1. N \in Nat /\ N' = N + 1
      BY <1>5, SettledFinite DEF CountInv
    <2>2. /\ Tally(t)
          /\ t \in DOMAIN db.templates => db.templates[t].spawns \in Nat
      BY <1>2 DEF CountInv, StoreInv, TypeInv, Well, TemplateRow
    <2>3. t \in DOMAIN db.templates =>
            LET next == IF CountSpawn(c) THEN db.templates[t].spawns + 1 ELSE call[c].read + 1
            IN  /\ next <= N + 1
                /\ t \notin missed => next = N + 1
      <3>1. CASE CountSpawn(c)
        BY <2>1, <2>2, <3>1 DEF Tally
      <3>2. CASE ~CountSpawn(c)
        <4>1. Writes(c, t)
          BY <1>1, <3>2 DEF Writes
        <4>2. t \in DOMAIN db.templates => call[c].read <= N /\ (t \notin missed => call[c].read = N)
          BY <2>2, <4>1 DEF Tally
        <4> QED
          BY <1>2, <2>1, <3>2, <4>2
      <3> QED
        BY <3>1, <3>2
    <2>4. t \in DOMAIN db'.templates =>
            /\ db'.templates[t].spawns <= N + 1
            /\ t \notin missed' => db'.templates[t].spawns = N + 1
      BY <1>6, <2>1, <2>2, <2>3 DEF Tally
    <2>5. \A d \in Calls : Writes(d, t)' => Writes(d, t) /\ d # c /\ call'[d].read = call[d].read
      BY <1>7 DEF Writes
    <2>6. \A d \in Calls : call[d].at = "write" => call[d].read \in Nat
      BY InCall DEF Places, InProgress, StoreInv
    <2>7. ASSUME NEW d \in Calls, Writes(d, t)'
          PROVE  call'[d].read <= N + 1 /\ t \in missed
      <3>1. Writes(d, t) /\ d # c /\ call'[d].read = call[d].read /\ call[d].read \in Nat
        BY <2>5, <2>6, <2>7 DEF Writes
      <3>2. call[d].read <= N
        BY <2>2, <3>1 DEF Tally
      <3>3. Writes(c, t)
        <4>1. backend = "supabase"
          BY <3>1 DEF Writes, CountInv, CountBase
        <4> QED
          BY <1>1, <4>1 DEF Writes
      <3> QED
        BY <2>1, <2>2, <3>1, <3>2, <3>3 DEF Tally
    <2>8. missed \subseteq missed'
      BY <1>6
    <2> HIDE DEF N
    <2>9. /\ \A d \in Calls : Writes(d, t)' => call'[d].read <= N' /\ t \in missed'
          /\ t \in DOMAIN db'.templates =>
            /\ db'.templates[t].spawns <= N'
            /\ t \notin missed' => db'.templates[t].spawns = N'
      BY <2>1, <2>4, <2>7, <2>8
    <2> QED
      BY <2>9 DEF Tally, N
  <1> QED
    BY <1>8, <1>9, <1>10 DEF CountInv

LEMMA ReadingCounts ==
  ASSUME StoreInv, CountInv, NEW c \in Calls, NEW i, call[c].id = i, NEW t, call[c].template = t,
         ReadSpawnCount(c)
  PROVE  CountInv'
  <1>1. call[c].at = "count" /\ call[c].at \in Counts /\ call[c].at \in Places /\ backend = "supabase"
    BY DEF ReadSpawnCount, At, Counts, Places
  <1>2. t \in Templates
    BY <1>1, InCall DEF StoreInv, InProgress
  <1>3. backend' = backend /\ told' = told /\ born' = born
    BY DEF ReadSpawnCount
  <1>4. TypeInv /\ CountBase /\ \A k \in Templates : Tally(k)
    BY DEF StoreInv, CountInv
  <1>5. \A k \in Templates : Seen(k) => Seen(k)'
    BY <1>4, SeenKept DEF Handle
  <1>6. \A id \in DOMAIN born' : \E k \in Templates : born'[id] = k /\ Seen(k)
    BY <1>3, <1>4, MakingOf
  <1>7. \/ /\ t \in DOMAIN db.templates /\ db' = db
           /\ call' = [call EXCEPT ![c].at = "write", ![c].read = db.templates[t].spawns]
           /\ missed' = IF \E d \in Calls : Writes(d, t) THEN missed \cup {t} ELSE missed
        \/ /\ Goto(c, "schedule") /\ db' = db
           /\ t \notin DOMAIN db.templates /\ missed' = missed
        \/ Goto(c, "schedule") /\ db' = db /\ missed' = missed \cup {t}
    <2>1. Supabase!GetTemplate(t) = {t} \cap DOMAIN db.templates
      BY DEF Supabase!GetTemplate, Supabase!ById
    <2>2. (\E o \in Outcomes(Nothing) : ~o.sound /\ Take(c, o)) => db' = db
      BY <1>4, ReadFailed
    <2> QED
      BY <2>1, <2>2 DEF ReadSpawnCount, At, Writes
  <1>8. ASSUME t \in DOMAIN db.templates, db' = db,
               call' = [call EXCEPT ![c].at = "write", ![c].read = db.templates[t].spawns],
               missed' = IF \E d \in Calls : Writes(d, t) THEN missed \cup {t} ELSE missed
        PROVE  CountInv'
    <2>1. /\ Alone(c) /\ call'[c].at = "write" /\ call'[c].id = i /\ call'[c].template = t
          /\ call'[c].read = db.templates[t].spawns
      <3> DEFINE k == [call[c] EXCEPT !.at = "write", !.read = db.templates[t].spawns]
      <3>1. call[c] \in InProgress
        BY <1>1, <1>4, InCall
      <3>2. k.at = "write" /\ k.id = i /\ k.template = t /\ k.read = db.templates[t].spawns
        BY <3>1 DEF InProgress
      <3>3. call' = [call EXCEPT ![c] = k]
        BY <1>4, <1>8 DEF TypeInv
      <3> HIDE DEF k
      <3> QED
        BY <1>4, <3>2, <3>3 DEF Alone, TypeInv
    <2>2. \A d \in Calls \ {c} : call'[d] = call[d]
      BY <2>1 DEF Alone
    <2>3. \A id : Unsettled(id)' <=> Unsettled(id)
      BY <1>1, <2>1, <2>2 DEF Unsettled, On, Counts
    <2>4. \A k : Settled(k)' = Settled(k)
      BY <1>3, <2>3 DEF Settled
    <2>5. CountBase'
      <3>1. \A d \in Calls : call'[d].at \in {"insert", "count", "write"} =>
              \E k \in Templates : call'[d].template = k /\ Seen(k)
        BY <1>1, <1>4, <2>1, <2>2, MakingOf
      <3>2. \A d \in Calls : call'[d].at \in Counts =>
              call'[d].id \in DOMAIN born' /\ born'[call'[d].id] = call'[d].template
        BY <1>1, <1>3, <1>4, <2>1, <2>2 DEF CountBase, Counts
      <3>3. \A d \in Calls : call'[d].at = "write" => backend' = "supabase"
        BY <1>1, <1>3, <1>4, <2>2 DEF CountBase
      <3>4. IsFiniteSet(DOMAIN born')
        BY <1>3, <1>4 DEF CountBase
      <3> QED
        BY <1>5, <1>6, <3>1, <3>2, <3>3, <3>4, BaseStep
    <2>6. ASSUME NEW k \in Templates, k # t PROVE Tally(k)'
      <3>1. \A d \in Calls : Writes(d, k)' => Writes(d, k) /\ call'[d].read = call[d].read
        BY <2>1, <2>2, <2>6 DEF Writes
      <3> QED
        BY <1>4, <1>8, <2>4, <3>1, SameTally
    <2>7. Tally(t)'
      <3>1. Tally(t) /\ missed \subseteq missed' /\ Settled(t)' = Settled(t) /\ db' = db
        BY <1>2, <1>4, <1>8, <2>4
      <3>2. \A d \in Calls \ {c} : Writes(d, t)' <=> Writes(d, t)
        BY <2>2 DEF Writes
      <3>3. \A d \in Calls \ {c} : Writes(d, t) => t \in missed'
        BY <1>8
      <3>4. \A d \in Calls : Writes(d, t)' =>
              /\ call'[d].read <= Cardinality(Settled(t))
              /\ t \in DOMAIN db'.templates /\ t \notin missed' => call'[d].read = Cardinality(Settled(t))
        BY <1>8, <2>1, <2>2, <3>1, <3>2 DEF Tally
      <3>5. \A d, e \in Calls : Writes(d, t)' /\ Writes(e, t)' /\ t \notin missed' => d = e
        BY <3>2, <3>3
      <3> QED
        BY <3>1, <3>4, <3>5 DEF Tally
    <2> QED
      BY <2>5, <2>6, <2>7 DEF CountInv
  <1>9. ASSUME Goto(c, "schedule"), db' = db,
               (t \notin DOMAIN db.templates /\ missed' = missed) \/ missed' = missed \cup {t}
        PROVE  CountInv'
    <2>1. Alone(c) /\ call'[c].at = "schedule"
      BY <1>1, <1>4, <1>9, GotoCall DEF Places
    <2>2. /\ Cardinality(Settled(t))' = Cardinality(Settled(t)) + 1
          /\ Settled(t) \subseteq Settled(t)'
          /\ \A k : k # t => Settled(k)' = Settled(k)
      BY <1>1, <1>3, <1>4, <2>1, Settles
    <2>3. \A d \in Calls : call'[d].at \in {"insert", "count", "write"} => d # c /\ call'[d] = call[d]
      BY <2>1 DEF Alone
    <2>4. CountBase'
      <3>1. \A d \in Calls : call'[d].at \in {"insert", "count", "write"} =>
              \E k \in Templates : call'[d].template = k /\ Seen(k)
        BY <1>4, <2>3, MakingOf
      <3>2. \A d \in Calls : call'[d].at \in Counts =>
              call'[d].id \in DOMAIN born' /\ born'[call'[d].id] = call'[d].template
        BY <1>3, <1>4, <2>3 DEF CountBase, Counts
      <3>3. \A d \in Calls : call'[d].at = "write" => backend' = "supabase"
        BY <1>1, <1>3
      <3>4. IsFiniteSet(DOMAIN born')
        BY <1>3, <1>4 DEF CountBase
      <3> QED
        BY <1>5, <1>6, <3>1, <3>2, <3>3, <3>4, BaseStep
    <2>5. \A k : \A d \in Calls : Writes(d, k)' => Writes(d, k) /\ call'[d].read = call[d].read
      BY <2>3 DEF Writes
    <2>6. ASSUME NEW k \in Templates, k # t PROVE Tally(k)'
      BY <1>4, <1>9, <2>2, <2>5, <2>6, SameTally
    <2>7. ASSUME t \in missed' PROVE Tally(t)'
      <3>1. t \in DOMAIN db'.templates => db'.templates[t].spawns <= Cardinality(Settled(t))'
        <4>1. t \in DOMAIN db.templates => /\ db.templates[t].spawns <= Cardinality(Settled(t))
                                           /\ db.templates[t].spawns \in Nat
          BY <1>2, <1>4 DEF Tally, TypeInv, Well, TemplateRow
        <4>2. Cardinality(Settled(t)) \in Nat
          BY <1>4, SettledFinite
        <4> QED
          BY <1>9, <2>2, <4>1, <4>2
      <3> QED
        BY <1>2, <1>4, <2>2, <2>4, <2>5, <2>7, <3>1, MissedTally
    <2>8. ASSUME t \notin DOMAIN db.templates, missed' = missed PROVE Tally(t)'
      <3> DEFINE N == Cardinality(Settled(t))
      <3>1. N \in Nat /\ N' = N + 1
        BY <1>4, <2>2, SettledFinite
      <3>2. \A d \in Calls : call[d].at = "write" => call[d].read \in Nat
        BY <1>4, InCall DEF Places, InProgress
      <3> HIDE DEF N
      <3>3. ASSUME NEW d \in Calls, Writes(d, t)' PROVE call'[d].read <= N'
        <4>1. Writes(d, t) /\ call'[d].read = call[d].read /\ call[d].read \in Nat
          BY <2>5, <3>2, <3>3 DEF Writes
        <4>2. call[d].read <= N
          BY <1>2, <1>4, <4>1 DEF Tally, N
        <4> QED
          BY <3>1, <4>1, <4>2
      <3>4. \A d, e \in Calls : Writes(d, t)' /\ Writes(e, t)' /\ t \notin missed' => d = e
        BY <1>2, <1>4, <2>5, <2>8 DEF Tally
      <3>5. t \notin DOMAIN db'.templates
        BY <1>9, <2>8
      <3> QED
        BY <3>3, <3>4, <3>5 DEF Tally, N
    <2>9. Tally(t)'
      BY <1>9, <2>7, <2>8
    <2> QED
      BY <2>4, <2>6, <2>9 DEF CountInv
  <1> QED
    BY <1>7, <1>8, <1>9

(* A template with a row has been seen. *)
LEMMA RowsSeen ==
  ASSUME StoreInv, NEW t \in DOMAIN db.templates
  PROVE  t \in Templates /\ Seen(t)
  <1>1. t \in Templates /\ t \in Ids /\ t \notin Sandboxes /\ Held(t)
    BY KeysAssumption DEF StoreInv, TypeInv, Well, Ids
  <1>2. told[t] # "nothing" \/ \E d \in Calls : On(d, Making, t)
    BY <1>1 DEF Held
  <1>3. ASSUME NEW d \in Calls, On(d, Making, t) PROVE On(d, {"build"}, t)
    BY <1>1, <1>3, InCall DEF StoreInv, On, Making, Places, SandboxPlaces
  <1> QED
    BY <1>1, <1>2, <1>3 DEF Seen

LEMMA QuietSteps ==
  ASSUME StoreInv, CountInv, NEW c \in Calls, NEW i, call[c].id = i,
         GetTemplate(c) \/ GetTemplateByAlias(c) \/ Schedule(c) \/ FindSandbox(c) \/ Plain(c)
  PROVE  CountInv'
  <1>1. call[c].at \in Places /\ call[c].at \notin Counts
    BY DEF Plain, At, Places, Counts, GetTemplate, GetTemplateByAlias, Schedule, FindSandbox, UndoSandbox,
           DeleteSandbox, UpdateSandboxState, UpdateSandboxTimeout, CreateFirstBuild, DeleteTemplate,
           UpdateTemplate, FinishBuild, FinishTemplate
  <1>2. \A t \in Templates : Seen(t) => Seen(t)'
    BY SeenKept DEF StoreInv, Handle, Plain
  <1>3. backend' = backend /\ born' = born /\ missed' = missed
    BY DEF Plain, GetTemplate, GetTemplateByAlias, Schedule, FindSandbox, UndoSandbox, DeleteSandbox,
           UpdateSandboxState, UpdateSandboxTimeout, CreateFirstBuild, DeleteTemplate, UpdateTemplate,
           FinishBuild, FinishTemplate, ReadFails, historyVars
  <1>4. SpawnsKept(db')
    <2>1. CASE Plain(c)
      BY <2>1, PlainRows DEF StoreInv
    <2>2. CASE ~Plain(c)
      <3>1. db' = db
        BY <2>2, ReadFailed DEF StoreInv, GetTemplate, GetTemplateByAlias, Schedule, FindSandbox, ReadFails
      <3> QED
        BY <3>1 DEF SpawnsKept
    <2> QED
      BY <2>1, <2>2
  <1>5. /\ Alone(c) /\ call'[c].at \notin Counts
        /\ call'[c].at = "insert" => \E t \in Templates : call'[c].template = t /\ Seen(t)
    <2>1. ASSUME NEW t \in DOMAIN db.templates, Chosen(c, t)
          PROVE  /\ Alone(c) /\ call'[c].at = "insert" /\ call'[c].template = t
                 /\ t \in Templates /\ Seen(t)
      BY <1>1, <2>1, RowsSeen, ChosenCall DEF StoreInv
    <2>2. ASSUME NEW at \in {"lookupAlias", "undo", "extend", "mark", "finishTemplate"}, Goto(c, at)
          PROVE  Alone(c) /\ call'[c].at \in {"lookupAlias", "undo", "extend", "mark", "finishTemplate"}
      BY <1>1, <2>2, GotoCall DEF StoreInv, Places
    <2>3. ASSUME Return(c)
          PROVE  Alone(c) /\ call'[c].at = "idle"
      BY <2>3, ReturnCall DEF StoreInv, Idle
    <2>4. \/ \E t \in DOMAIN db.templates : Chosen(c, t)
          \/ \E at \in {"lookupAlias", "undo", "extend", "mark", "finishTemplate"} : Goto(c, at)
          \/ Return(c)
      <3>1. CASE GetTemplate(c) \/ GetTemplateByAlias(c)
        BY <3>1, NamedTemplates DEF GetTemplate, GetTemplateByAlias, StoreInv, TypeInv
      <3>2. CASE Schedule(c) \/ FindSandbox(c) \/ Plain(c)
        BY <3>2 DEF Plain, Schedule, FindSandbox, UndoSandbox, DeleteSandbox, UpdateSandboxState,
                    UpdateSandboxTimeout, CreateFirstBuild, DeleteTemplate, UpdateTemplate, FinishBuild,
                    FinishTemplate, Tell
      <3> QED
        BY <3>1, <3>2
    <2> QED
      BY <2>1, <2>2, <2>3, <2>4 DEF Counts
  <1> QED
    BY <1>1, <1>2, <1>3, <1>4, <1>5, QuietCounts

(* A request that comes. *)
LEMMA ReceivedCounts ==
  ASSUME StoreInv, CountInv, NEW c \in Calls, NEW i \in Ids, Request(c, i)
  PROVE  CountInv'
  <1>1. PICK at \in {"lookup", "template", "delete", "find", "deleteTemplate", "publish", "finish"},
             name \in Names, set \in {"running", "paused", "later"} : Receive(c, at, i, name, set)
    <2>1. AnyName \in Names /\ Aliases \subseteq Names
      BY KeysAssumption DEF AnyName, Names
    <2> QED
      BY <2>1 DEF Request
  <1> DEFINE k == [at |-> at, id |-> i, name |-> name, set |-> set, read |-> 0,
                   template |-> CHOOSE t \in Templates : TRUE]
  <1>2. /\ call[c] = Idle /\ call' = [call EXCEPT ![c] = k]
        /\ db' = db /\ backend' = backend /\ told' = told /\ born' = born /\ missed' = missed
    BY <1>1 DEF Receive
  <1>3. k.at \notin Counts /\ k.at # "insert" /\ Idle.at \notin Counts
    BY DEF Counts, Idle
  <1> HIDE DEF k
  <1>4. Alone(c) /\ call'[c] = k
    BY <1>2 DEF Alone, StoreInv, TypeInv
  <1>5. \A t \in Templates : Seen(t) => Seen(t)'
    <2>1. \A d \in Calls : call[d].at = "build" => call'[d] = call[d]
      BY <1>2, <1>4 DEF Alone, Idle
    <2> QED
      BY <1>2, <2>1 DEF Seen, On
  <1>6. SpawnsKept(db')
    BY <1>2 DEF SpawnsKept
  <1> QED
    BY <1>2, <1>3, <1>4, <1>5, <1>6, QuietCounts

(* A new template starts from nothing: nobody has seen it. *)
LEMMA NewTemplateCounts ==
  ASSUME StoreInv, CountInv, NEW c \in Calls, NEW i, call[c].id = i, CreateTemplate(c)
  PROVE  CountInv'
  <1> DEFINE alias == call[c].name
  <1> DEFINE row == NewTemplate(alias)
  <1> DEFINE B == WithBoth(db, i, row, "waiting")
  <1> DEFINE T == WithTemplate(db, i, row)
  <1> DEFINE r == Of(Memory!CreateTemplate(i, alias), Postgres!CreateTemplate(i, alias),
                     Supabase!CreateTemplate(i, alias))
  <1>1. call[c].at = "template" /\ call[c].at \in Places /\ TypeInv
    BY DEF CreateTemplate, At, Places, StoreInv
  <1>2. i \in Templates /\ i \in Ids /\ alias \in Aliases
    BY <1>1, InCall DEF SandboxPlaces, TemplatePlaces, Ids, CallOK, Idle
  <1>3. row \in TemplateRow /\ row.spawns = 0 /\ "waiting" \in BuildRow
    BY <1>2 DEF NewTemplate, TemplateRow, BuildRow
  <1>4. ~Seen(i) /\ i \notin DOMAIN db.templates
    <2>1. /\ told[i] = "nothing" /\ \A d \in Calls : On(d, Creating, i) => d = c
          /\ i \notin DOMAIN db.templates
      BY <1>1, <1>2, NothingYet DEF On, StoreInv
    <2> QED
      BY <1>1, <2>1 DEF Seen, On, Creating
  <1>5. PICK o \in Outcomes(r) :
          /\ Take(c, o)
          /\ IF ~o.result.ok THEN Tell(c, "refused")
             ELSE IF backend = "supabase" THEN Goto(c, "build") /\ UNCHANGED told
             ELSE Tell(c, "created")
    BY DEF CreateTemplate
  <1>6. backend' = backend /\ born' = born /\ missed' = missed
    BY DEF CreateTemplate
  <1>7. \/ r = [db |-> B, ok |-> TRUE]
        \/ r = [db |-> T, ok |-> TRUE]
        \/ r = [db |-> db, ok |-> FALSE]
    BY <1>1, TemplateCreated DEF TypeInv, Done, Failed
  <1>8. /\ DOMAIN B.templates = DOMAIN db.templates \cup {i} /\ B.templates[i] = row
        /\ \A k \in DOMAIN db.templates \ {i} : B.templates[k] = db.templates[k]
    BY <1>1, <1>2, <1>3, BothInserted DEF TypeInv
  <1>9. /\ DOMAIN T.templates = DOMAIN db.templates \cup {i} /\ T.templates[i] = row
        /\ \A k \in DOMAIN db.templates \ {i} : T.templates[k] = db.templates[k]
    BY <1>1, <1>2, <1>3, TemplateInserted DEF TypeInv
  <1> HIDE DEF B, T, r, row, alias
  <1>10. /\ i \in DOMAIN db'.templates => db'.templates[i].spawns = 0
         /\ \A k \in DOMAIN db'.templates \ {i} :
              k \in DOMAIN db.templates /\ db'.templates[k] = db.templates[k]
    <2>1. db' \in {db, B, T}
      BY <1>1, <1>5, <1>7, TookDb
    <2> QED
      BY <1>3, <1>4, <1>8, <1>9, <2>1
  <1>11. Alone(c) /\ call'[c].at \in {"idle", "build"}
    BY <1>1, <1>5, GotoCall, TellCall DEF Idle, Places
  <1>12. \A d \in Calls : call[d].at \in {"insert", "count", "write"} => call'[d] = call[d]
    BY <1>1, <1>11 DEF Alone
  <1>13. \A d \in Calls : call'[d].at \in {"insert", "count", "write"} => call'[d] = call[d]
    BY <1>1, <1>11 DEF Alone
  <1>14. \A k : Settled(k)' = Settled(k)
    <2>1. \A id : Unsettled(id)' <=> Unsettled(id)
      BY <1>12, <1>13 DEF Unsettled, On, Counts
    <2> QED
      BY <1>6, <2>1 DEF Settled
  <1>15. CountBase'
    <2>1. \A k \in Templates : Seen(k) => Seen(k)'
      BY <1>1, SeenKept DEF Handle
    <2>2. \A d \in Calls : call'[d].at \in {"insert", "count", "write"} =>
            \E k \in Templates : call'[d].template = k /\ Seen(k)
      BY <1>13, MakingOf DEF CountInv
    <2>3. \A id \in DOMAIN born' : \E k \in Templates : born'[id] = k /\ Seen(k)
      BY <1>6, MakingOf DEF CountInv
    <2>4. /\ IsFiniteSet(DOMAIN born')
          /\ \A d \in Calls : call'[d].at \in Counts =>
               call'[d].id \in DOMAIN born' /\ born'[call'[d].id] = call'[d].template
          /\ \A d \in Calls : call'[d].at = "write" => backend' = "supabase"
      BY <1>6, <1>13 DEF CountInv, CountBase, Counts
    <2> QED
      BY <2>1, <2>2, <2>3, <2>4, BaseStep
  <1>16. \A k : \A d \in Calls : Writes(d, k)' => Writes(d, k) /\ call'[d].read = call[d].read
    BY <1>13 DEF Writes
  <1>17. ASSUME NEW k \in Templates, k # i PROVE Tally(k)'
    BY <1>6, <1>10, <1>14, <1>16, <1>17, SameTally DEF CountInv
  <1>18. Tally(i)'
    <2>1. \A d \in Calls : ~Writes(d, i)
      BY <1>4 DEF CountInv, CountBase, Writes
    <2>2. Settled(i) = {}
      BY <1>4 DEF CountInv, CountBase, Settled
    <2>3. Cardinality(Settled(i))' = 0
      BY <1>14, <2>2, FS_EmptySet
    <2>4. \A d \in Calls : ~Writes(d, i)'
      BY <1>16, <2>1
    <2> QED
      BY <1>10, <2>3, <2>4 DEF Tally
  <1> QED
    BY <1>15, <1>17, <1>18 DEF CountInv

(* A sandbox's row begins unsettled, or its count is missed at once. *)
LEMMA InsertCounts ==
  ASSUME StoreInv, CountInv, NEW c \in Calls, NEW i, call[c].id = i, NEW t, call[c].template = t,
         InsertSandbox(c)
  PROVE  CountInv'
  <1> DEFINE row == NewSandbox(t)
  <1> DEFINE W == WithSandbox(db, i, row)
  <1> DEFINE r == Of(Memory!CreateSandbox(i, row), Postgres!CreateSandbox(i, row), Supabase!CreateSandbox(i, row))
  <1>1. call[c].at = "insert" /\ call[c].at \in Places /\ TypeInv
    BY DEF InsertSandbox, At, Places, StoreInv
  <1>2. i \in Sandboxes /\ i \in Ids /\ t \in Templates /\ Seen(t)
    BY <1>1, InCall DEF SandboxPlaces, Ids, InProgress, CountInv, CountBase
  <1>3. row \in SandboxRow /\ row.template = t
    BY <1>2 DEF NewSandbox, SandboxRow
  <1>4. PICK o \in Outcomes(r) :
          /\ Take(c, o)
          /\ IF o.result.ok THEN Goto(c, "count") /\ UNCHANGED told ELSE Tell(c, "refused")
          /\ IF i \in DOMAIN o.result.db.sandboxes THEN born' = Insert(born, i, t) ELSE UNCHANGED born
          /\ missed' = IF o.sound THEN missed ELSE missed \cup {t}
    BY <1>3 DEF InsertSandbox
  <1>5. r = [db |-> W, ok |-> TRUE] \/ r = [db |-> db, ok |-> FALSE]
    BY <1>1, <1>3, SandboxCreated DEF TypeInv, Done, Failed
  <1>6. W.templates = db.templates /\ DOMAIN W.sandboxes = DOMAIN db.sandboxes \cup {i}
    BY <1>1, <1>2, <1>3, SandboxInserted DEF TypeInv
  <1>7. /\ \A d \in Calls : On(d, Creating, i) => d = c
        /\ i \notin DOMAIN db.sandboxes /\ i \notin DOMAIN born
    BY <1>1, <1>2, NothingYet DEF On, StoreInv
  <1> HIDE DEF W, r, row
  <1>8. Took(c, o, W, TRUE) \/ Took(c, o, db, FALSE)
    BY <1>1, <1>4, <1>5, Taking
  <1>9. db'.templates = db.templates /\ backend' = backend /\ o.sound \in BOOLEAN
    BY <1>6, <1>8 DEF Took, InsertSandbox
  <1>10. /\ Alone(c)
         /\ \/ /\ call'[c].at = "count" /\ call'[c].id = i /\ call'[c].template = t
               /\ born' = Insert(born, i, t) /\ missed' = missed
            \/ /\ call'[c].at = "idle" /\ missed' = missed \cup {t}
               /\ born' = born \/ born' = Insert(born, i, t)
            \/ /\ call'[c].at = "idle" /\ born' = born /\ missed' = missed
    <2>1. CASE o.result.ok = TRUE
      BY <1>1, <1>4, <1>6, <1>8, <2>1, GotoCall DEF Took, Places
    <2>2. CASE o.result.ok = FALSE
      <3>1. Alone(c) /\ call'[c].at = "idle"
        BY <1>1, <1>4, <2>2, TellCall DEF Idle
      <3> QED
        BY <1>4, <1>6, <1>7, <1>8, <2>2, <3>1 DEF Took
    <2> QED
      BY <1>8, <2>1, <2>2 DEF Took
  <1>11. /\ DOMAIN Insert(born, i, t) = DOMAIN born \cup {i}
         /\ \A k \in DOMAIN born \cup {i} : Insert(born, i, t)[k] = IF k = i THEN t ELSE born[k]
    BY DEF Insert
  <1>12. \A d \in Calls \ {c} : call'[d] = call[d]
    BY <1>10 DEF Alone
  <1>13. \A id : id # i => (Unsettled(id)' <=> Unsettled(id))
    BY <1>1, <1>10, <1>12 DEF Unsettled, On, Counts
  <1>14. \A k : k # t => Settled(k)' = Settled(k)
    <2> SUFFICES ASSUME NEW k, k # t PROVE Settled(k)' = Settled(k)
      OBVIOUS
    <2>1. CASE born' = born
      BY <1>7, <1>13, <2>1 DEF Settled
    <2>2. CASE born' = Insert(born, i, t)
      BY <1>7, <1>11, <1>13, <2>2 DEF Settled
    <2> QED
      BY <1>10, <2>1, <2>2
  <1>15. Settled(t) \subseteq Settled(t)'
    <2>1. CASE born' = born
      BY <1>7, <1>13, <2>1 DEF Settled
    <2>2. CASE born' = Insert(born, i, t)
      BY <1>7, <1>11, <1>13, <2>2 DEF Settled
    <2> QED
      BY <1>10, <2>1, <2>2
  <1>16. t \in missed' \/ (Settled(t)' = Settled(t) /\ missed' = missed)
    <2>1. ASSUME call'[c].at = "count", call'[c].id = i, born' = Insert(born, i, t)
          PROVE  Settled(t)' = Settled(t)
      <3>1. Unsettled(i)'
        BY <2>1 DEF Unsettled, On, Counts
      <3> QED
        BY <1>7, <1>11, <1>13, <2>1, <3>1 DEF Settled
    <2>2. ASSUME born' = born
          PROVE  Settled(t)' = Settled(t)
      BY <1>7, <1>13, <2>2 DEF Settled
    <2> QED
      BY <1>10, <2>1, <2>2
  <1>17. CountBase'
    <2>1. \A k \in Templates : Seen(k) => Seen(k)'
      BY <1>1, SeenKept DEF Handle
    <2>2. \A d \in Calls : call'[d].at \in {"insert", "count", "write"} =>
            \E k \in Templates : call'[d].template = k /\ Seen(k)
      BY <1>2, <1>10, <1>12, MakingOf DEF CountInv
    <2>3. \A id \in DOMAIN born' : \E k \in Templates : born'[id] = k /\ Seen(k)
      <3>1. \A id \in DOMAIN born : \E k \in Templates : born[id] = k /\ Seen(k)
        BY MakingOf DEF CountInv
      <3> QED
        BY <1>2, <1>10, <1>11, <3>1
    <2>4. IsFiniteSet(DOMAIN born')
      <3>1. IsFiniteSet(DOMAIN born) /\ IsFiniteSet(DOMAIN born \cup {i})
        BY FS_AddElement DEF CountInv, CountBase
      <3> QED
        BY <1>10, <1>11, <3>1
    <2>5. \A d \in Calls : call'[d].at \in Counts =>
            call'[d].id \in DOMAIN born' /\ born'[call'[d].id] = call'[d].template
      <3>1. ASSUME NEW d \in Calls, call'[d].at \in Counts, d # c
            PROVE  call'[d].id \in DOMAIN born' /\ born'[call'[d].id] = call'[d].template
        <4>1. /\ call'[d] = call[d] /\ call[d].id \in DOMAIN born
              /\ born[call[d].id] = call[d].template
          BY <1>12, <3>1 DEF CountInv, CountBase
        <4> QED
          BY <1>7, <1>10, <1>11, <4>1
      <3>2. call'[c].at \in Counts => call'[c].id \in DOMAIN born' /\ born'[call'[c].id] = call'[c].template
        BY <1>10, <1>11 DEF Counts
      <3> QED
        BY <3>1, <3>2
    <2>6. \A d \in Calls : call'[d].at = "write" => backend' = "supabase"
      BY <1>9, <1>10, <1>12 DEF CountInv, CountBase
    <2> QED
      BY <2>1, <2>2, <2>3, <2>4, <2>5, <2>6, BaseStep
  <1>18. \A k : \A d \in Calls : Writes(d, k)' => Writes(d, k) /\ call'[d].read = call[d].read
    BY <1>10, <1>12 DEF Writes
  <1>19. missed \subseteq missed'
    BY <1>10
  <1>20. ASSUME NEW k \in Templates, k # t PROVE Tally(k)'
    BY <1>9, <1>14, <1>18, <1>19, <1>20, SameTally DEF CountInv
  <1>21. ASSUME Settled(t)' = Settled(t) PROVE Tally(t)'
    BY <1>2, <1>9, <1>18, <1>19, <1>21, SameTally DEF CountInv
  <1>22. ASSUME t \in missed' PROVE Tally(t)'
    <2>1. t \in DOMAIN db'.templates => db'.templates[t].spawns <= Cardinality(Settled(t))'
      <3>1. t \in DOMAIN db.templates => /\ db.templates[t].spawns <= Cardinality(Settled(t))
                                         /\ db.templates[t].spawns \in Nat
        BY <1>1, <1>2 DEF CountInv, Tally, TypeInv, Well, TemplateRow
      <3>2. Cardinality(Settled(t)) \in Nat
        BY SettledFinite DEF CountInv
      <3>3. /\ IsFiniteSet(Settled(t)') /\ Cardinality(Settled(t)') \in Nat
            /\ Cardinality(Settled(t)) <= Cardinality(Settled(t)')
        <4>1. Settled(t)' \subseteq DOMAIN born' /\ IsFiniteSet(DOMAIN born')
          BY <1>17 DEF Settled, CountBase
        <4> QED
          BY <1>15, <4>1, FS_Subset, FS_CardinalityType
      <3> QED
        BY <1>9, <3>1, <3>2, <3>3
    <2> QED
      BY <1>1, <1>2, <1>15, <1>17, <1>18, <1>22, <2>1, MissedTally DEF CountInv
  <1> QED
    BY <1>16, <1>17, <1>20, <1>21, <1>22 DEF CountInv

(* A restart ends every request: the counts it cuts off are missed. *)
LEMMA RestartCounts ==
  ASSUME StoreInv, CountInv, Restart
  PROVE  CountInv'
  <1>1. /\ \A c \in Calls : call'[c].at = "idle"
        /\ born' = born /\ missed \subseteq missed'
        /\ db' = Empty \/ db' = db
    BY DEF Restart, Idle
  <1>2. \A t \in DOMAIN db'.templates : t \in DOMAIN db.templates /\ db'.templates[t] = db.templates[t]
    BY <1>1, EmptyTables
  <1>3. \A id : ~Unsettled(id)'
    BY <1>1 DEF Unsettled, On, Counts
  <1>4. CountBase'
    <2>1. ASSUME NEW t \in Templates, Seen(t) PROVE Seen(t)'
      <3>1. t \in Ids
        BY DEF Ids
      <3>2. (\E c \in Calls : On(c, {"build"}, t)) => Working(t)
        BY DEF On, Working, Idle
      <3>3. told[t] # "nothing" \/ Working(t)
        BY <2>1, <3>2 DEF Seen
      <3>4. told'[t] # "nothing"
        BY <3>1, <3>3 DEF Restart
      <3> QED
        BY <3>4 DEF Seen
    <2>2. \A id \in DOMAIN born' : \E k \in Templates : born'[id] = k /\ Seen(k)
      BY <1>1, MakingOf DEF CountInv
    <2>3. /\ IsFiniteSet(DOMAIN born')
          /\ \A d \in Calls : call'[d].at \notin {"insert", "count", "write"}
      BY <1>1 DEF CountInv, CountBase
    <2> QED
      BY <2>1, <2>2, <2>3, BaseStep DEF Counts
  <1>5. ASSUME NEW t \in Templates PROVE Tally(t)'
    <2>1. Tally(t) /\ CountBase /\ TypeInv
      BY DEF CountInv, StoreInv
    <2>2. \A d \in Calls : Writes(d, t)' => Writes(d, t) /\ call'[d].read = call[d].read
      BY <1>1 DEF Writes
    <2>3. Settled(t) \subseteq Settled(t)'
      BY <1>1, <1>3 DEF Settled
    <2>4. CASE t \in missed'
      <3>1. t \in DOMAIN db'.templates => db'.templates[t].spawns <= Cardinality(Settled(t))'
        <4>1. t \in DOMAIN db.templates => /\ db.templates[t].spawns <= Cardinality(Settled(t))
                                           /\ db.templates[t].spawns \in Nat
          BY <2>1 DEF Tally, TypeInv, Well, TemplateRow
        <4>2. Cardinality(Settled(t)) \in Nat
          BY <2>1, SettledFinite
        <4>3. /\ IsFiniteSet(Settled(t)') /\ Cardinality(Settled(t)') \in Nat
              /\ Cardinality(Settled(t)) <= Cardinality(Settled(t)')
          <5>1. Settled(t)' \subseteq DOMAIN born' /\ IsFiniteSet(DOMAIN born')
            BY <1>4 DEF Settled, CountBase
          <5> QED
            BY <2>3, <5>1, FS_Subset, FS_CardinalityType
        <4> QED
          BY <1>2, <4>1, <4>2, <4>3
      <3> QED
        BY <1>4, <2>1, <2>2, <2>3, <2>4, <3>1, MissedTally
    <2>5. CASE t \notin missed'
      <3>1. \A d \in Calls : call[d].at \in Counts => call[d].template # t
        BY <2>5 DEF Restart, Counts
      <3>2. \A id \in DOMAIN born : born[id] = t => ~Unsettled(id)
        BY <2>1, <3>1 DEF Unsettled, On, CountBase
      <3>3. Settled(t)' = Settled(t)
        BY <1>1, <1>3, <3>2 DEF Settled
      <3> QED
        BY <1>1, <1>2, <2>1, <2>2, <3>3, SameTally
    <2> QED
      BY <2>4, <2>5
  <1> QED
    BY <1>4, <1>5 DEF CountInv

LEMMA CountInvHolds == Spec => []CountInv
  <1>1. Init => CountInv
    <2> SUFFICES ASSUME Init PROVE CountInv
      OBVIOUS
    <2>1. db = Empty /\ \A c \in Calls : call[c] = Idle
      BY DEF Init
    <2>2. DOMAIN born = {} /\ IsFiniteSet(DOMAIN born)
      BY FS_EmptySet DEF Init
    <2>3. CountBase
      BY <2>1, <2>2 DEF CountBase, Counts, Idle
    <2>4. \A t \in Templates : Tally(t)
      BY <2>1, EmptyTables DEF Tally, Writes, Idle
    <2> QED
      BY <2>3, <2>4 DEF CountInv
  <1>2. StoreInv /\ CountInv /\ [Next]_vars => CountInv'
    <2> SUFFICES ASSUME StoreInv, CountInv, [Next]_vars PROVE CountInv'
      OBVIOUS
    <2>1. ASSUME NEW c \in Calls, Handle(c)
          PROVE  CountInv'
      <3>1. PICK i : i = call[c].id
        OBVIOUS
      <3>2. PICK t : t = call[c].template
        OBVIOUS
      <3>3. CASE InsertSandbox(c)
        BY <3>1, <3>2, <3>3, InsertCounts
      <3>4. CASE CountSpawn(c) \/ WriteSpawnCount(c)
        BY <3>1, <3>2, <3>4, CountingCounts
      <3>5. CASE ReadSpawnCount(c)
        BY <3>1, <3>2, <3>5, ReadingCounts
      <3>6. CASE CreateTemplate(c)
        BY <3>1, <3>6, NewTemplateCounts
      <3>7. CASE GetTemplate(c) \/ GetTemplateByAlias(c) \/ Schedule(c) \/ FindSandbox(c) \/ Plain(c)
        BY <3>1, <3>7, QuietSteps
      <3> QED
        BY <2>1, <3>3, <3>4, <3>5, <3>6, <3>7 DEF Handle, Plain
    <2>2. ASSUME NEW c \in Calls, NEW i \in Ids, Request(c, i)
          PROVE  CountInv'
      BY <2>2, ReceivedCounts
    <2>3. CASE Restart
      BY <2>3, RestartCounts
    <2>4. CASE UNCHANGED vars
      <3>1. \A t : Settled(t)' = Settled(t)
        BY <2>4 DEF vars, historyVars, Settled, Unsettled, On
      <3>2. CountBase'
        BY <2>4 DEF vars, historyVars, CountInv, CountBase, Seen, On
      <3>3. ASSUME NEW t \in Templates PROVE Tally(t)'
        BY <2>4, <3>1, SameTally DEF vars, historyVars, CountInv, Writes
      <3> QED
        BY <3>2, <3>3 DEF CountInv
    <2> QED
      BY <2>1, <2>2, <2>3, <2>4 DEF Next
  <1> QED
    BY <1>1, <1>2, StoreInvHolds, PTL DEF Spec

(* A template's spawn count never runs ahead of the sandboxes that were made of
   it, and is their number once no request is counting, unless a count was lost or
   two requests counted at once on Supabase (CreateSandbox,
   IncrementTemplateSpawnCount). *)
THEOREM SpawnsHold == Spec => []SpawnsCounted
  <1>1. StoreInv /\ CountInv => SpawnsCounted
    <2> SUFFICES ASSUME StoreInv, CountInv, NEW t \in DOMAIN db.templates
                 PROVE
          LET spawned == Cardinality({id \in DOMAIN born : born[id] = t})
              counting == \E c \in Calls : call[c].at \in {"count", "write"} /\ call[c].template = t
          IN  /\ db.templates[t].spawns <= spawned
              /\ ~counting /\ t \notin missed => db.templates[t].spawns = spawned
      BY DEF SpawnsCounted
    <2> DEFINE all == {id \in DOMAIN born : born[id] = t}
    <2>1. t \in Templates /\ Tally(t) /\ CountBase /\ db.templates[t].spawns \in Nat
      BY DEF CountInv, StoreInv, TypeInv, Well, TemplateRow
    <2>2. Settled(t) \subseteq all /\ all \subseteq DOMAIN born
      BY DEF Settled
    <2>3. /\ IsFiniteSet(all) /\ Cardinality(all) \in Nat
          /\ Cardinality(Settled(t)) \in Nat /\ Cardinality(Settled(t)) <= Cardinality(all)
      BY <2>1, <2>2, SettledFinite, FS_Subset, FS_CardinalityType DEF CountBase
    <2>4. ASSUME ~\E c \in Calls : call[c].at \in {"count", "write"} /\ call[c].template = t
          PROVE  Settled(t) = all
      <3>1. \A id \in all : ~Unsettled(id)
        BY <2>1, <2>4 DEF Unsettled, On, CountBase, Counts
      <3> QED
        BY <3>1 DEF Settled
    <2> HIDE DEF all
    <2>5. db.templates[t].spawns <= Cardinality(all)
      BY <2>1, <2>3 DEF Tally
    <2>6. t \notin missed => db.templates[t].spawns = Cardinality(Settled(t))
      BY <2>1 DEF Tally
    <2> QED
      BY <2>4, <2>5, <2>6 DEF all
  <1> QED
    BY <1>1, StoreInvHolds, CountInvHolds, PTL

-----------------------------------------------------------------------------
(* Lives.  Every row of a sandbox was once inserted, and what a step may do to
   one is to change it, to remove it, or to insert it for the first time. *)
RowsAreBorn == DOMAIN db.sandboxes \subseteq DOMAIN born

RowMoves(id) ==
  \/ /\ id \in DOMAIN born' <=> id \in DOMAIN born
     /\ id \in DOMAIN db'.sandboxes => id \in DOMAIN db.sandboxes
  \/ /\ id \notin DOMAIN born /\ id \in DOMAIN born'
     /\ id \in DOMAIN db'.sandboxes /\ db'.sandboxes[id].state = "running"

(* The identifier of a creation was never in use, and its row is there exactly
   when it counts as born, whether the answer of the database was heard or not. *)
LEMMA InsertMoves ==
  ASSUME TypeInv, NEW c \in Calls, NEW i, call[c].id = i, Held(i), InsertSandbox(c)
  PROVE  RowMoves(i)
  <1> DEFINE t == call[c].template
  <1> DEFINE row == NewSandbox(t)
  <1> DEFINE W == WithSandbox(db, i, row)
  <1> DEFINE r == Of(Memory!CreateSandbox(i, row), Postgres!CreateSandbox(i, row), Supabase!CreateSandbox(i, row))
  <1>1. call[c].at = "insert" /\ call[c].at \in Places
    BY DEF InsertSandbox, At, Places
  <1>2. i \in Sandboxes /\ t \in Templates
    BY <1>1, InCall DEF SandboxPlaces, InProgress
  <1>3. row \in SandboxRow /\ row.template = t /\ row.state = "running"
    BY <1>2 DEF NewSandbox, SandboxRow
  <1>4. PICK o \in Outcomes(r) :
          /\ Take(c, o)
          /\ IF i \in DOMAIN o.result.db.sandboxes THEN born' = Insert(born, i, t) ELSE UNCHANGED born
    BY <1>3 DEF InsertSandbox
  <1>5. db' = o.result.db /\ db' \in {db, W}
    <2>1. r \in {[db |-> W, ok |-> TRUE], [db |-> db, ok |-> FALSE]}
      BY <1>3, SandboxCreated DEF TypeInv, Done, Failed
    <2> HIDE DEF W, r
    <2> QED
      BY <1>4, <2>1, TookDb DEF Take
  <1>6. i \in DOMAIN W.sandboxes /\ W.sandboxes[i] = row
    BY <1>2, <1>3, SandboxInserted DEF TypeInv
  <1>7. i \notin DOMAIN born /\ i \notin DOMAIN db.sandboxes
    <2>1. On(c, Creating, i) /\ ~On(c, Making, i)
      BY <1>1 DEF On, Creating, Making
    <2>2. \A d \in Calls : On(d, Making, i) => On(d, Creating, i)
      BY DEF On, Creating, Making
    <2> QED
      BY <2>1, <2>2 DEF Held
  <1>8. i \in DOMAIN Insert(born, i, t)
    BY DEF Insert
  <1> HIDE DEF W, r, row, t
  <1> QED
    BY <1>3, <1>4, <1>5, <1>6, <1>7, <1>8 DEF RowMoves

(* Every other step of a request inserts no sandbox: the two that change one, on
   each database, write only a row that is there. *)
LEMMA StandingMoves ==
  ASSUME TypeInv, NEW c \in Calls, NEW i \in Sandboxes, call[c].id = i, Handle(c), ~InsertSandbox(c)
  PROVE  RowMoves(i)
  <1>1. call[c].at \in Places
    BY DEF Handle, At, Places, GetTemplate, GetTemplateByAlias, InsertSandbox, CountSpawn, ReadSpawnCount,
           WriteSpawnCount, Schedule, UndoSandbox, DeleteSandbox, FindSandbox, UpdateSandboxState,
           UpdateSandboxTimeout, CreateTemplate, CreateFirstBuild, DeleteTemplate, UpdateTemplate,
           FinishBuild, FinishTemplate
  <1>2. call[c].at \notin TemplatePlaces
    BY <1>1, InCall, KeysAssumption
  <1>3. CASE GetTemplate(c) \/ GetTemplateByAlias(c) \/ FindSandbox(c)
    <2>1. CASE UNCHANGED <<db, historyVars, faults>>
      BY <2>1 DEF historyVars, RowMoves
    <2>2. CASE ReadFails(c)
      BY <2>2, ReadFailed DEF ReadFails, RowMoves
    <2> QED
      BY <1>3, <2>1, <2>2 DEF GetTemplate, GetTemplateByAlias, FindSandbox
  <1>4. CASE CountSpawn(c) \/ WriteSpawnCount(c)
    <2>1. born' = born /\ Rewrites(db')
      BY <1>4, CountRewrites DEF CountSpawn, WriteSpawnCount
    <2> QED
      BY <2>1 DEF Rewrites, RowMoves
  <1>5. CASE ReadSpawnCount(c) \/ Schedule(c)
    <2>1. born' = born /\ db' = db
      BY <1>5, ReadFailed DEF ReadSpawnCount, Schedule, historyVars
    <2> QED
      BY <2>1 DEF RowMoves
  <1>6. CASE UndoSandbox(c) \/ DeleteSandbox(c)
    <2>1. PICK o \in Outcomes(DeleteRow(i)) : Take(c, o)
      BY <1>6 DEF UndoSandbox, DeleteSandbox
    <2>2. born' = born
      BY <1>6 DEF UndoSandbox, DeleteSandbox
    <2>3. DOMAIN db'.sandboxes \subseteq DOMAIN db.sandboxes
      BY <2>1, RowDeleted
    <2> QED
      BY <2>2, <2>3 DEF RowMoves
  <1>7. CASE UpdateSandboxState(c) \/ UpdateSandboxTimeout(c)
    <2>1. born' = born
      BY <1>7 DEF UpdateSandboxState, UpdateSandboxTimeout
    <2>2. call[c].at = "mark" => call[c].set \in {"running", "paused"}
      BY <1>1, InCall DEF CallOK, InProgress, Idle
    <2>3. DOMAIN db'.sandboxes = DOMAIN db.sandboxes
      <3>1. CASE UpdateSandboxState(c)
        <4>1. ChangeSandbox(c, "state", call[c].set) /\ call[c].set \in {"running", "paused"}
          BY <2>2, <3>1 DEF UpdateSandboxState, At
        <4> QED
          BY <4>1, RowChanged
      <3>2. CASE UpdateSandboxTimeout(c)
        <4>1. ChangeSandbox(c, "endAt", "later")
          BY <3>2 DEF UpdateSandboxTimeout
        <4> QED
          BY <4>1, RowChanged
      <3> QED
        BY <1>7, <3>1, <3>2
    <2> QED
      BY <2>1, <2>3 DEF RowMoves
  <1> QED
    BY <1>2, <1>3, <1>4, <1>5, <1>6, <1>7
       DEF Handle, At, TemplatePlaces, CreateTemplate, CreateFirstBuild, DeleteTemplate, UpdateTemplate,
           FinishBuild, FinishTemplate

LEMMA EveryRowMoves ==
  ASSUME StoreInv, Next, NEW id \in Sandboxes
  PROVE  RowMoves(id)
  <1>1. id \in Ids /\ TypeInv /\ Held(id)
    BY DEF StoreInv, Ids
  <1>2. ASSUME NEW c \in Calls, Handle(c), UNCHANGED requests
        PROVE  RowMoves(id)
    <2>1. PICK i \in Ids : i = call[c].id
      BY <1>1, <1>2, HandledId
    <2>2. Held(i) /\ Touches(c, i)
      BY <1>1, <1>2, <2>1, HandleHolds DEF StoreInv
    <2>3. CASE id # i
      BY <1>1, <2>2, <2>3 DEF Touches, RowMoves
    <2>4. CASE id = i
      BY <1>1, <1>2, <2>1, <2>4, InsertMoves, StandingMoves
    <2> QED
      BY <2>3, <2>4
  <1>3. ASSUME NEW c \in Calls, NEW i \in Ids, Request(c, i)
        PROVE  RowMoves(id)
    <2>1. db' = db /\ born' = born
      BY <1>3 DEF Request, Receive
    <2> QED
      BY <2>1 DEF RowMoves
  <1>4. CASE Restart
    <2>1. born' = born /\ (db' = Empty \/ db' = db)
      BY <1>4 DEF Restart
    <2> QED
      BY <2>1, EmptyTables DEF RowMoves
  <1> QED
    BY <1>2, <1>3, <1>4 DEF Next

LEMMA RowsInit == Init => RowsAreBorn /\ L!Init
  <1> SUFFICES ASSUME Init PROVE RowsAreBorn /\ L!Init
    OBVIOUS
  <1>1. DOMAIN db.sandboxes = {} /\ DOMAIN born = {}
    BY EmptyTables DEF Init
  <1> QED
    BY <1>1 DEF RowsAreBorn, L!Init, RowLife

LEMMA RowsStep ==
  ASSUME StoreInv, StoreInv', RowsAreBorn, [Next]_vars
  PROVE  RowsAreBorn' /\ [L!Next]_RowLife
  <1> SUFFICES ASSUME Next PROVE RowsAreBorn' /\ L!Next
    BY DEF vars, historyVars, RowsAreBorn, RowLife
  <1>1. \A id \in Sandboxes : RowMoves(id)
    BY EveryRowMoves
  <1>2. \A id \in DOMAIN db.sandboxes : id \in Sandboxes /\ db.sandboxes[id].state \in {"running", "paused"}
    BY DEF StoreInv, TypeInv, Well, SandboxRow
  <1>3. \A id \in DOMAIN db'.sandboxes : id \in Sandboxes /\ db'.sandboxes[id].state \in {"running", "paused"}
    BY DEF StoreInv, TypeInv, Well, SandboxRow
  <1>4. RowsAreBorn'
    BY <1>1, <1>3 DEF RowsAreBorn, RowMoves
  <1>5. RowLife' \in [Sandboxes -> L!Lives]
    BY <1>3 DEF RowLife, L!Lives, L!Alive
  <1>6. ASSUME NEW id \in Sandboxes
        PROVE  L!Begins(id) \/ L!Freezes(id) \/ L!Thaws(id) \/ L!Ends(id) \/ L!Stays(id)
    <2>1. /\ RowLife[id] = IF id \in DOMAIN db.sandboxes THEN db.sandboxes[id].state
                           ELSE IF id \in DOMAIN born THEN "gone" ELSE "unborn"
          /\ RowLife'[id] = IF id \in DOMAIN db'.sandboxes THEN db'.sandboxes[id].state
                            ELSE IF id \in DOMAIN born' THEN "gone" ELSE "unborn"
      BY DEF RowLife
    <2>2. RowMoves(id) /\ (id \in DOMAIN db.sandboxes => id \in DOMAIN born)
      BY <1>1 DEF RowsAreBorn
    <2> HIDE DEF RowLife
    <2> QED
      BY <1>2, <1>3, <2>1, <2>2 DEF RowMoves, L!Begins, L!Freezes, L!Thaws, L!Ends, L!Stays
  <1> QED
    BY <1>4, <1>5, <1>6 DEF L!Next

(* RowsLiveOnce: on each of the three databases a sandbox is listed once in its
   life.  No update or undo that is still at work, no request whose answer was lost
   and no restart brings a deleted row back (CreateSandbox, UpdateSandbox and
   DeleteSandbox of the three stores). *)
THEOREM RowsHold == Spec => RowsLiveOnce
  <1>1. Init => RowsAreBorn /\ L!Init
    BY RowsInit
  <1>2. StoreInv /\ StoreInv' /\ RowsAreBorn /\ [Next]_vars => RowsAreBorn' /\ [L!Next]_RowLife
    BY RowsStep
  <1> QED
    BY <1>1, <1>2, StoreInvHolds, PTL DEF Spec, RowsLiveOnce, L!Spec
=============================================================================
