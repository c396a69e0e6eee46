------------------------------- MODULE Tables -------------------------------
(***************************************************************************)
(* The rows that a database of the control plane holds (internal/db), as   *)
(* functions from the keys in use, and what an operation on them answers.  *)
(* Of a row it keeps what other rows, requests or counts depend on.        *)
(***************************************************************************)
EXTENDS Integers, FiniteSets, Functions

CONSTANTS
  Sandboxes, Templates,  \* identifiers, each made for one request; a template's build goes by its name
  Aliases                \* names that clients give to templates, identifiers among them or not

ASSUME KeysAssumption == Sandboxes \cap Templates = {} /\ Templates # {}

VARIABLES
  db   \* the tables: sandboxes, templates, builds

Insert(table, key, row) ==
  [k \in DOMAIN table \cup {key} |-> IF k = key THEN row ELSE table[k]]
Without(table, keys) == Restrict(table, DOMAIN table \ keys)

(* What an operation leaves in the tables, and whether it returns an error. *)
Done(tables) == [db |-> tables, ok |-> TRUE]
Failed == [db |-> db, ok |-> FALSE]
Nothing == Done(db)

Empty == [sandboxes |-> <<>>, templates |-> <<>>, builds |-> <<>>]

SandboxRow == [template : Templates, state : {"running", "paused"}, endAt : {"first", "later"}]
TemplateRow == [alias : Aliases, public : BOOLEAN, spawns : Nat, status : {"waiting", "done"}]
(* A build that is at work, and how it ended, are told apart in BuildService. *)
BuildRow == {"waiting", "done"}

NewSandbox(t) == [template |-> t, state |-> "running", endAt |-> "first"]
NewTemplate(alias) == [alias |-> alias, public |-> FALSE, spawns |-> 0, status |-> "waiting"]

ById(name) == {name} \cap DOMAIN db.templates
ByAlias(name) == {t \in DOMAIN db.templates : db.templates[t].alias = name}

(* Each table's keys and rows. *)
TablesTypeOK ==
  /\ DOMAIN db = {"sandboxes", "templates", "builds"}
  /\ DOMAIN db.sandboxes \subseteq Sandboxes /\ Range(db.sandboxes) \subseteq SandboxRow
  /\ DOMAIN db.templates \subseteq Templates /\ Range(db.templates) \subseteq TemplateRow
  /\ DOMAIN db.builds \subseteq Templates /\ Range(db.builds) \subseteq BuildRow
=============================================================================
