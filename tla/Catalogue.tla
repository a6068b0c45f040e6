----------------------------- MODULE Catalogue ------------------------------
(***************************************************************************)
(* The tables of what a project holds: nodes, activities, sub chains, root *)
(* chains with their releases, test cases and environments.  Every         *)
(* operator below is one statement of a repository; what a request does    *)
(* with them is in Console.                                                *)
(*                                                                         *)
(* A chain's content is what the publish check reads in its row: the nodes *)
(* and activities of the DSL, and the sub chains the row lists.            *)
(***************************************************************************)
EXTENDS Naturals, FiniteSets

CONSTANTS
  Project,
  Node,
  Activity,  \* ids of activities
  Name,      \* namespace and name of an activity: what chains refer to
  Sub,       \* sub chains
  Chain,     \* root chains
  Case,      \* test cases
  Secret,    \* passwords of an environment
  Nothing,   \* no row yet, nothing given
  Gone       \* a row that was deleted: no new row gets its id by itself

Content == [things : SUBSET (Node \cup Name), subs : SUBSET Sub]

NoRow == {Nothing, Gone}

ASSUME NothingAssumption ==
  NoRow \cap (Content \cup Project \cup Name \cup Secret) = {}

VARIABLES
  project,   \* wf_projects
  node,      \* wf_nodes
  builtin,   \* how many built-in nodes a project has
  activity,  \* wf_activities: the name of an activity
  sub,       \* wf_sub_chains: the content of an enabled sub chain
  draft,     \* wf_root_chains: the content of a root chain
  released,  \* wf_root_chain_releases: the contents of a chain's releases
  online,    \* the content of the current one
  case,      \* wf_test_cases
  env        \* wf_env_configs: the password in the environment of a project

catalogueVars ==
  <<project, node, builtin, activity, sub, draft, released, online, case, env>>

(* The environment has no password. *)
Unset == "unset"

(* "deleted" is a soft delete: the unique index keeps the key taken. *)
Row == {"none", "live", "deleted"}

CatalogueTypeOK ==
  /\ project \in [Project -> Row]
  /\ node \in [Project -> [Node -> Row]]
  /\ builtin \in [Project -> Nat]
  /\ activity \in [Project -> [Activity -> Name \cup NoRow]]
  /\ sub \in [Project -> [Sub -> Content \cup NoRow]]
  /\ draft \in [Project -> [Chain -> Content \cup NoRow]]
  /\ released \in [Project -> [Chain -> SUBSET Content]]
  /\ online \in [Project -> [Chain -> Content \cup {Nothing}]]
  /\ case \in [Project -> SUBSET Case]
  /\ env \in [Project -> Secret \cup {Unset, Nothing}]

Put(table, p, key, value) == [table EXCEPT ![p][key] = value]

-----------------------------------------------------------------------------
(* wf_projects, wf_nodes. *)

CreateProject(p) ==
  /\ project[p] = "none"
  /\ project' = [project EXCEPT ![p] = "live"]

UpdateProject(p) == project[p] = "live" /\ UNCHANGED project

DeleteProject(p) ==
  /\ project[p] = "live"
  /\ project' = [project EXCEPT ![p] = "deleted"]

(* MAX(id) + 1 of the table: an id without a row. *)
NextNodeID(p) == {n \in Node : node[p][n] = "none"}

(* Create refuses an id that has a row by then. *)
CreateNodeRow(p, n) ==
  /\ node[p][n] = "none"
  /\ node' = Put(node, p, n, "live")

UpdateNodeRow(p, n) == node[p][n] = "live" /\ UNCHANGED node

DeleteNodeRow(p, n) ==
  /\ node[p][n] = "live"
  /\ node' = Put(node, p, n, "deleted")

-----------------------------------------------------------------------------
(* wf_activities: deleted for good. *)

ExistsByNamespaceName(p, name, but) ==
  \E a \in Activity \ but : activity[p][a] = name

(* The counter of the table never gives an id again. *)
NewActivityID(p) == {a \in Activity : activity[p][a] = Nothing}

(* The unique indexes refuse a taken id and a taken name. *)
CreateActivityRow(p, a, name) ==
  /\ activity[p][a] \in NoRow
  /\ ~ ExistsByNamespaceName(p, name, {})
  /\ activity' = Put(activity, p, a, name)

UpdateActivityID(p, old, new) ==
  /\ activity[p][old] \in Name
  /\ activity[p][new] \in NoRow
  /\ activity' = Put(Put(activity, p, new, activity[p][old]), p, old, Gone)

UpdateActivityRow(p, a, name) ==
  /\ activity[p][a] \in Name
  /\ ~ ExistsByNamespaceName(p, name, {a})
  /\ activity' = Put(activity, p, a, name)

DeleteActivityRow(p, a) ==
  /\ activity[p][a] \in Name
  /\ activity' = Put(activity, p, a, Gone)

-----------------------------------------------------------------------------
(* wf_sub_chains and wf_root_chains. *)

CreateSubRow(p, s, c) ==
  /\ sub[p][s] = Nothing
  /\ sub' = Put(sub, p, s, c)

UpdateSubRow(p, s, c) ==
  /\ sub[p][s] \notin NoRow
  /\ sub' = Put(sub, p, s, c)

DeleteSubRow(p, s) ==
  /\ sub[p][s] \notin NoRow
  /\ sub' = Put(sub, p, s, Gone)

(* Inserted under a random id that the next statement replaces: here the   *)
(* row has one id from the start.                                          *)
CreateChainRow(p, k, c) ==
  /\ draft[p][k] = Nothing
  /\ draft' = Put(draft, p, k, c)

UpdateChainRow(p, k, c) ==
  /\ draft[p][k] \notin NoRow
  /\ draft' = Put(draft, p, k, c)

DeleteChainRow(p, k) ==
  /\ draft[p][k] \notin NoRow
  /\ draft' = Put(draft, p, k, Gone)

(* The DSL builder asks for the nodes of a request and leaves out those it *)
(* does not find.                                                          *)
LiveNodes(p, c) == [c EXCEPT !.things = {x \in c.things :
                      x \in Node => node[p][x] = "live"}]

-----------------------------------------------------------------------------
(* wf_root_chain_releases, as far as the console tells them apart; their   *)
(* races are in ReleaseStore.                                              *)

PublishRows(p, k, c) ==
  /\ released' = Put(released, p, k, released[p][k] \cup {c})
  /\ online' = Put(online, p, k, c)

SetCurrentRow(p, k, c) ==
  /\ c \in released[p][k]
  /\ online' = Put(online, p, k, c)

DeleteReleaseRow(p, k, c) ==
  /\ c \in released[p][k] \ {online[p][k]}
  /\ released' = Put(released, p, k, released[p][k] \ {c})

-----------------------------------------------------------------------------
(* wf_test_cases, wf_env_configs. *)

CreateCaseRow(p, i) ==
  /\ i \notin case[p]
  /\ case' = [case EXCEPT ![p] = case[p] \cup {i}]

UpdateCaseRow(p, i) == i \in case[p] /\ UNCHANGED case

DeleteCaseRow(p, i) ==
  /\ i \in case[p]
  /\ case' = [case EXCEPT ![p] = case[p] \ {i}]

(* A masked password stands for the stored one, unless it would go to      *)
(* another address.                                                        *)
RestoreMaskedSecrets(given, existing) ==
  IF given \in Secret THEN given
  ELSE IF given = "masked" /\ existing # Nothing THEN existing
  ELSE Unset

UpsertEnv(p, s) == env' = [env EXCEPT ![p] = s]

DeleteEnvRow(p) ==
  /\ env[p] # Nothing
  /\ env' = [env EXCEPT ![p] = Nothing]
=============================================================================
