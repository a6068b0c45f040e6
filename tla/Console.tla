------------------------------ MODULE Console -------------------------------
(***************************************************************************)
(* The web console: requests of users that run at the same time, from the  *)
(* session cookie over the checks of the account and of its role in the    *)
(* project to the statements of the handler (WebServer, WorkflowService).  *)
(*                                                                         *)
(* A statement of the database is a step, so everything a request has read *)
(* may have changed when it is used.  Nothing is rolled back: a request    *)
(* that ends early leaves what its statements did.                         *)
(***************************************************************************)
EXTENDS Accounts

CONSTANTS
  Req,    \* requests: each of them is made once
  Input,  \* what a request may ask for
  Trim    \* strings.TrimSpace of the code of a project

(* The operations, by how they are let through. *)
QueryOps == {"list", "listNodes", "createNode", "updateNode", "deleteNode",
  "createSub", "updateSub", "deleteSub", "copyRoot", "deleteRoot", "publish",
  "setCurrent", "deleteRelease", "deleteCase", "deleteEnv", "createAct",
  "updateAct", "deleteAct"}
BodyOps == {"execute", "buildSub", "rebuildSub", "saveRoot", "createRoot",
  "saveCase", "saveEnv"}
PathOps == {"updateProject", "deleteProject"}
AdminOps == {"createUser", "updateUser", "deleteUser", "bindUser"}
OwnOps == {"createProject", "changePassword"}
PublicOps == {"login", "logout"}

(* Those a viewer may do as well: reads, tests and executions. *)
isReadRequest(op) == op \in {"list", "listNodes", "execute"}

isProjectAgnosticPath(op) == op \in AdminOps \cup OwnOps

Given == {"", "viewer", "editor"}

InputOK(q) ==
  /\ q.op \in QueryOps \cup BodyOps \cup PathOps \cup AdminOps \cup OwnOps \cup PublicOps
  /\ q.token \in Token \cup {Nothing}
  /\ {q.query, q.body} \subseteq Project \cup {Nothing}
  /\ q.op \notin BodyOps => q.body = Nothing
  /\ q.content \in Content \cup {Nothing}
  /\ q.name \in Name \cup {Nothing}
  /\ q.secret \in Secret \cup {"masked", "moved"}
  /\ q.on \in {"keep", "on", "off"} /\ q.admin \in {"keep", "yes", "no"}
  /\ {q.password, q.rebind} \subseteq BOOLEAN
  /\ q.binds \subseteq Project \X Given
  /\ q.op = "changePassword" =>
       q.target = Nothing /\ q.password /\ q.on = "keep" /\ q.admin = "keep" /\ ~ q.rebind
  /\ q.op \in PathOps \cup {"createProject"} => q.target \in Project
  /\ q.op \in AdminOps \cup {"login"} => q.target \in User
  /\ q.op \in {"updateNode", "deleteNode"} => q.target \in Node
  /\ q.op \in {"createNode"} => q.target \in Node \cup {Nothing}
  /\ q.op \in {"updateSub", "deleteSub", "rebuildSub"} => q.target \in Sub
  /\ q.op \in {"saveRoot", "copyRoot", "deleteRoot", "publish", "setCurrent",
               "deleteRelease"} => q.target \in Chain
  /\ q.op \in {"createSub", "updateSub", "buildSub", "rebuildSub", "saveRoot",
               "setCurrent", "deleteRelease"} => q.content \in Content
  /\ q.op \in {"saveCase"} => q.target \in Case \cup {Nothing}
  /\ q.op \in {"deleteCase"} => q.target \in Case
  /\ q.op \in {"updateAct", "deleteAct"} => q.target \in Activity
  /\ q.op \in {"createAct"} => q.target \in Activity \cup {Nothing}
  /\ q.op \in {"createAct", "updateAct"} => q.name \in Name

ASSUME UserAssumption == Nothing \notin User

(* The code of a project may have blanks around it: none of the handlers   *)
(* that store one trims it.  Nothing is the empty string.                  *)
ASSUME TrimAssumption ==
  /\ Trim \in [Project \cup {Nothing} -> Project \cup {Nothing}]
  /\ Trim[Nothing] = Nothing
ASSUME InputAssumption == \A r \in Req : \A q \in Input[r] : InputOK(q)

(* What the chains of a project refer to. *)
References == [root : [Chain -> Content], sub : [Sub -> Content]]

ASSUME ReferencesAssumption == Nothing \notin References

VARIABLES
  req,    \* where a request is, and its local variables
  was,    \* history: what its user was allowed since it arrived
  kept    \* history: what was online all the time since it arrived

vars == <<catalogueVars, accountVars, req, was, kept>>

NoRefs == [things |-> {}, subs |-> {}]

Ended == {"ok", "refused"}

Blank ==
  [pc |-> "idle", in |-> Nothing, who |-> Nothing, admin |-> FALSE,
   checks |-> {}, at |-> Nothing, row |-> Nothing, binds |-> {},
   unbinds |-> {}, cur |-> Nothing, seen |-> "none", content |-> Nothing,
   key |-> Nothing, secret |-> Nothing, name |-> Nothing, names |-> {},
   thing |-> Nothing, todo |-> {}, visited |-> {}, refs |-> {},
   missed |-> FALSE]

At(r, s) == req[r].pc = s

Asks(r, op) == req[r].in.op = op

Runs(r, op) == At(r, "run") /\ Asks(r, op)

Writes(r, op) == At(r, "write") /\ Asks(r, op)

To(r, s) == req' = [req EXCEPT ![r].pc = s]

Ends(r, s) == req' = [req EXCEPT ![r] = [Blank EXCEPT !.pc = s]]

-----------------------------------------------------------------------------
(* Who asks, and may they. *)

Begin(r, q, s) ==
  req' = [req EXCEPT ![r] = [Blank EXCEPT !.pc = s, !.in = q,
            !.who = IF s = "user" THEN session[q.token] ELSE Nothing]]

isPublicRequest(r) ==
  /\ At(r, "idle")
  /\ \E q \in Input[r] : q.op \in PublicOps /\ Begin(r, q, "run")

(* GetSession: the row of the session, then the row of its user. *)
GetSession(r) ==
  /\ At(r, "idle")
  /\ \E q \in Input[r] :
       /\ q.op \notin PublicOps
       /\ q.token # Nothing /\ session[q.token] \in User
       /\ Begin(r, q, "user")

NoCookie(r) ==
  /\ At(r, "idle")
  /\ \E q \in Input[r] :
       /\ q.op \notin PublicOps
       /\ q.token # Nothing => session[q.token] \notin User
  /\ Ends(r, "refused")

projectParam(q) == Trim[q.query]

bodyProject(q) == Trim[q.body]

(* Mutant: the project of the body wins. *)
resolveProjectBody(q) == IF bodyProject(q) # Nothing THEN bodyProject(q) ELSE projectParam(q)

(* The project a request works on: Nothing is refused. *)
resolveProject(q) ==
  IF projectParam(q) = Nothing THEN bodyProject(q)
  ELSE IF bodyProject(q) \in {Nothing, projectParam(q)} THEN projectParam(q)
  ELSE Nothing

(* The projects in which the role of the user is looked up: that of the    *)
(* query as it was written, blanks included; that of the body trimmed, and *)
(* only when the query has none; that of the path as it was written.       *)
Checks(q) ==
  {p \in Project :
     \/ p = q.query /\ ~ isProjectAgnosticPath(q.op)
     \/ p = bodyProject(q) /\ projectParam(q) = Nothing /\ q.op \in BodyOps
     \/ p = q.target /\ q.op \in PathOps}

authMiddleware(r) ==
  /\ At(r, "user")
  /\ Enabled(req[r].who)
  /\ LET admin == account[req[r].who].admin
     IN  req' = [req EXCEPT ![r].pc = "check", ![r].admin = admin,
                            ![r].checks = IF admin THEN {} ELSE Checks(req[r].in)]

checkProjectAccessForRequest(r) ==
  /\ At(r, "check")
  /\ \E p \in req[r].checks :
       /\ role[req[r].who][p] \in (IF isReadRequest(req[r].in.op) THEN Bound ELSE {"editor"})
       /\ req' = [req EXCEPT ![r].checks = @ \ {p}]

requireAdmin(r) ==
  /\ At(r, "check") /\ req[r].checks = {}
  /\ req[r].in.op \in AdminOps
  /\ req[r].admin
  /\ To(r, "run")

requireProject(r) ==
  /\ At(r, "check") /\ req[r].checks = {}
  /\ req[r].in.op \in QueryOps \cup BodyOps
  /\ resolveProject(req[r].in) # Nothing
  /\ req' = [req EXCEPT ![r].pc = "run", ![r].at = resolveProject(req[r].in)]

requireProjectAccess(r) ==
  /\ At(r, "check") /\ req[r].checks = {}
  /\ req[r].in.op \in PathOps \cup OwnOps
  /\ req' = [req EXCEPT ![r].pc = "run", ![r].at = req[r].in.target]

(* A request may end after any of its steps: it is refused, a row it needs *)
(* is not there, a statement fails, or the server stops.                   *)
Fail(r) ==
  /\ req[r].pc \notin Ended \cup {"idle"}
  /\ Ends(r, "refused")

(* A handler that only reads. *)
Answer(r) ==
  /\ Runs(r, "list") \/ Runs(r, "execute")
  /\ Ends(r, "ok")

-----------------------------------------------------------------------------
(* Logging in and out, passwords. *)

Right(r) == LiveUser(req[r].in.target) /\ req[r].in.password

LoginNotBlocked(r) ==
  /\ Runs(r, "login")
  /\ ~ Blocked(req[r].in.target)
  /\ To(r, "password")

LoginWrong(r) ==
  /\ At(r, "password")
  /\ ~ Right(r)
  /\ CountFail(req[r].in.target)
  /\ Ends(r, "refused")

LoginRight(r) ==
  /\ At(r, "password")
  /\ Right(r)
  /\ ResetFails(req[r].in.target)
  /\ IF Enabled(req[r].in.target) THEN To(r, "write") ELSE Ends(r, "refused")

handleLogin(r) ==
  /\ Writes(r, "login")
  /\ \E t \in Token : CreateSession(t, req[r].in.target)
  /\ Ends(r, "ok")

handleLogout(r) ==
  /\ Runs(r, "logout")
  /\ IF req[r].in.token = Nothing THEN UNCHANGED session
     ELSE DeleteSession(req[r].in.token)
  /\ Ends(r, "ok")

(* The user whose row, sessions or roles the request changes. *)
Subject(r) == IF req[r].in.op \in OwnOps THEN req[r].who ELSE req[r].in.target

(* A status of 0 is not one: it keeps that of the row, although 0 is what   *)
(* the page sends to disable an account.  Any other but 1 disables it.      *)
Changed(row, q) ==
  [row EXCEPT !.on = q.on = "on" \/ (q.on = "keep" /\ @),
              !.admin = q.admin = "yes" \/ (q.admin = "keep" /\ @)]

ReadUser(r) ==
  /\ Runs(r, "updateUser") \/ Runs(r, "changePassword")
  /\ LiveUser(Subject(r))
  /\ req' = [req EXCEPT ![r].pc = "write",
               ![r].row = Changed(account[Subject(r)], req[r].in)]

(* What comes after the row, and after the sessions. *)
AfterSessions(r) == IF req[r].in.rebind THEN To(r, "list") ELSE Ends(r, "ok")

WriteUser(r) ==
  /\ Writes(r, "updateUser") \/ Writes(r, "changePassword")
  /\ UpdateUser(Subject(r), req[r].row)
  /\ IF req[r].in.password THEN To(r, "sessions") ELSE AfterSessions(r)

(* The session of the request itself is kept. *)
EndSessions(r) ==
  /\ At(r, "sessions")
  /\ DeleteUserSessions(Subject(r),
       IF Subject(r) = req[r].who THEN {req[r].in.token} ELSE {})
  /\ AfterSessions(r)

-----------------------------------------------------------------------------
(* Accounts and their roles. *)

handleCreateUser(r) ==
  /\ Runs(r, "createUser")
  /\ CreateUser(req[r].in.target, req[r].in.admin = "yes")
  /\ req' = [req EXCEPT ![r].pc = "binds", ![r].binds = req[r].in.binds]

handleUpdateUser(r) ==
  /\ At(r, "list")
  /\ req' = [req EXCEPT ![r].pc = "binds", ![r].binds = req[r].in.binds,
                        ![r].unbinds = ListProjectsByUser(Subject(r))]

handleDeleteUser(r) ==
  /\ Runs(r, "deleteUser")
  /\ req[r].in.target # req[r].who
  /\ DeleteUser(req[r].in.target)
  /\ To(r, "unbindAll")

DeleteBindings(r) ==
  /\ At(r, "unbindAll")
  /\ UnbindAll(req[r].in.target)
  /\ Ends(r, "ok")

(* Every project of binds is bound, or unbound. *)
handleBindUserProject(r) ==
  /\ Runs(r, "bindUser")
  /\ LET projects == {b[1] : b \in req[r].in.binds}
     IN  req' = [req EXCEPT ![r].pc = "binds",
                   ![r].binds = IF req[r].in.rebind THEN req[r].in.binds ELSE {},
                   ![r].unbinds = IF req[r].in.rebind THEN {} ELSE projects]

handleCreateProject(r) ==
  /\ Runs(r, "createProject")
  /\ CreateProject(req[r].at)
  /\ req' = [req EXCEPT ![r].pc = "binds", ![r].binds = {<<req[r].at, "editor">>}]

Unbind(r) ==
  /\ At(r, "binds")
  /\ \E p \in req[r].unbinds :
       /\ UnbindProject(Subject(r), p)
       /\ req' = [req EXCEPT ![r].unbinds = @ \ {p}]

ReadBinding(r) ==
  /\ At(r, "binds") /\ req[r].unbinds = {}
  /\ \E b \in req[r].binds :
       req' = [req EXCEPT ![r].pc = "bind", ![r].cur = b, ![r].binds = @ \ {b},
                          ![r].seen = role[Subject(r)][b[1]]]

Bind(r) ==
  /\ At(r, "bind")
  /\ BindProject(Subject(r), req[r].cur[1], req[r].seen, req[r].cur[2])
  /\ To(r, "binds")

(* createUser and updateUser go on when a binding fails. *)
BindingFails(r) ==
  /\ At(r, "bind")
  /\ req[r].in.op \in {"createUser", "updateUser"}
  /\ To(r, "binds")

BindingsDone(r) ==
  /\ At(r, "binds")
  /\ req[r].unbinds = {} /\ req[r].binds = {}
  /\ Ends(r, "ok")

-----------------------------------------------------------------------------
(* The publish check. *)

Guarded == {"updateNode", "deleteNode", "updateAct", "deleteAct"}

(* Mutant: an activity is looked up by its new name. *)
CheckedNewName(q, old) == {q.name}

(* The names UpdateActivity asks about: the stored one, and the new one if *)
(* it differs.                                                             *)
CheckedNames(q, old) == IF q.op = "updateAct" THEN {old, q.name} ELSE {old}

CheckNode(r) ==
  /\ Runs(r, "updateNode") \/ Runs(r, "deleteNode")
  /\ req' = [req EXCEPT ![r].pc = "guard", ![r].names = {req[r].in.target}]

ReadActivity(r) ==
  /\ Runs(r, "updateAct") \/ Runs(r, "deleteAct")
  /\ LET old == activity[req[r].at][req[r].in.target]
     IN  /\ old \in Name
         /\ req' = [req EXCEPT ![r].pc = "guard", ![r].name = old,
                               ![r].names = CheckedNames(req[r].in, old)]

(* Administrators are not held up. *)
Unguarded(r) ==
  /\ At(r, "guard")
  /\ req[r].admin \/ req[r].names = {}
  /\ To(r, IF Asks(r, "updateAct") THEN "exists" ELSE "write")

Referred(x) == IF x \in NoRow THEN NoRefs ELSE x

(* ListCurrentByProject, and the references of the releases it returns. *)
buildPublishedRefIndex(r) ==
  /\ At(r, "guard") /\ ~ req[r].admin
  /\ \E x \in req[r].names :
       LET current == [k \in Chain |-> Referred(online[req[r].at][k])]
           todo == {v \in Chain \X Sub : v[2] \in current[v[1]].subs}
       IN  req' = [req EXCEPT ![r].pc = "walk", ![r].thing = x,
                     ![r].refs = UNION {current[k].things : k \in Chain},
                     ![r].todo = todo, ![r].visited = todo]

(* One sub chain, once for each root chain that leads to it; without a row *)
(* it adds nothing.                                                        *)
visit(r) ==
  /\ At(r, "walk")
  /\ \E v \in req[r].todo :
       LET found == Referred(sub[req[r].at][v[2]])
           next == ({v[1]} \X found.subs) \ req[r].visited
       IN  req' = [req EXCEPT ![r].todo = (@ \ {v}) \cup next,
                              ![r].visited = @ \cup next,
                              ![r].refs = @ \cup found.things]

(* The same when the read fails. *)
visitFails(r) ==
  /\ At(r, "walk")
  /\ \E v \in req[r].todo :
       req' = [req EXCEPT ![r].todo = @ \ {v}, ![r].missed = TRUE]

(* NodePublishedInRootChain, ActivityPublishedInRootChain *)
NotPublished(r) ==
  /\ At(r, "walk") /\ req[r].todo = {}
  /\ req[r].thing \notin req[r].refs
  /\ req' = [req EXCEPT ![r].pc = "guard", ![r].names = @ \ {req[r].thing},
               ![r].thing = Nothing, ![r].refs = {}, ![r].visited = {}]

-----------------------------------------------------------------------------
(* Projects, nodes and activities. *)

handleUpdateProject(r) ==
  Runs(r, "updateProject") /\ UpdateProject(req[r].at) /\ Ends(r, "ok")

handleDeleteProject(r) ==
  Runs(r, "deleteProject") /\ DeleteProject(req[r].at) /\ Ends(r, "ok")

(* ExistsByType, then NextNodeID and Create. *)
ensureBuiltin(r) ==
  /\ Runs(r, "listNodes")
  /\ IF builtin[req[r].at] = 0 THEN To(r, "write") ELSE Ends(r, "ok")

ListNodes(r) ==
  /\ Writes(r, "listNodes")
  /\ builtin' = [builtin EXCEPT ![req[r].at] = @ + 1]
  /\ Ends(r, "ok")

(* The id is given or generated. *)
handleCreateNode(r) ==
  /\ Runs(r, "createNode")
  /\ \E n \in IF req[r].in.target = Nothing THEN NextNodeID(req[r].at)
              ELSE {req[r].in.target} :
       req' = [req EXCEPT ![r].pc = "write", ![r].key = n]

RegisterNode(r) ==
  Writes(r, "createNode") /\ CreateNodeRow(req[r].at, req[r].key) /\ Ends(r, "ok")

UpdateNode(r) ==
  Writes(r, "updateNode") /\ UpdateNodeRow(req[r].at, req[r].in.target) /\ Ends(r, "ok")

DeleteNode(r) ==
  Writes(r, "deleteNode") /\ DeleteNodeRow(req[r].at, req[r].in.target) /\ Ends(r, "ok")

NameIsFree(r) ==
  /\ Runs(r, "createAct") \/ At(r, "exists")
  /\ ~ ExistsByNamespaceName(req[r].at, req[r].in.name,
         IF Asks(r, "createAct") THEN {} ELSE {req[r].in.target})
  /\ To(r, IF Asks(r, "createAct") THEN "insert" ELSE "write")

(* The row has a temporary id until the next statement. *)
InsertActivity(r) ==
  /\ At(r, "insert")
  /\ req[r].in.target = Nothing
  /\ \E a \in NewActivityID(req[r].at) :
       /\ CreateActivityRow(req[r].at, a, req[r].in.name)
       /\ req' = [req EXCEPT ![r].pc = "write", ![r].key = a]

(* An id that the request gives is stored as it is. *)
InsertGivenID(r) ==
  /\ At(r, "insert")
  /\ req[r].in.target # Nothing
  /\ CreateActivityRow(req[r].at, req[r].in.target, req[r].in.name)
  /\ Ends(r, "ok")

CreateActivity(r) ==
  /\ Writes(r, "createAct")
  /\ \E a \in NewActivityID(req[r].at) : UpdateActivityID(req[r].at, req[r].key, a)
  /\ Ends(r, "ok")

UpdateActivity(r) ==
  /\ Writes(r, "updateAct")
  /\ UpdateActivityRow(req[r].at, req[r].in.target, req[r].in.name)
  /\ Ends(r, "ok")

DeleteActivity(r) ==
  /\ Writes(r, "deleteAct")
  /\ DeleteActivityRow(req[r].at, req[r].in.target)
  /\ Ends(r, "ok")

-----------------------------------------------------------------------------
(* Sub chains and root chains. *)

(* NextSubChainID: an id without a row. *)
NewSub(r) ==
  /\ Runs(r, "createSub") \/ Runs(r, "buildSub")
  /\ \E s \in Sub :
       /\ sub[req[r].at][s] = Nothing
       /\ req' = [req EXCEPT ![r].key = s, ![r].content = req[r].in.content,
                    ![r].pc = IF Asks(r, "buildSub") THEN "nodes" ELSE "write"]

Rebuild(r) ==
  /\ Runs(r, "rebuildSub") \/ Runs(r, "saveRoot")
  /\ req' = [req EXCEPT ![r].pc = "nodes", ![r].content = req[r].in.content]

(* AssembleSubChain and Build: the nodes are read, then the row written.    *)
(* The sub chains are read as well, but the row lists those of the request. *)
AssembleNodes(r) ==
  /\ At(r, "nodes")
  /\ req' = [req EXCEPT ![r].pc = "write", ![r].content = LiveNodes(req[r].at, @)]

BuildSubChain(r) ==
  /\ Writes(r, "createSub") \/ Writes(r, "buildSub")
  /\ CreateSubRow(req[r].at, req[r].key, req[r].content)
  /\ Ends(r, "ok")

UpdateSubChainBuild(r) ==
  /\ Writes(r, "rebuildSub")
  /\ UpdateSubRow(req[r].at, req[r].in.target, req[r].content)
  /\ Ends(r, "ok")

handleUpdateSubChain(r) ==
  /\ Runs(r, "updateSub")
  /\ UpdateSubRow(req[r].at, req[r].in.target, req[r].in.content)
  /\ Ends(r, "ok")

handleDeleteSubChain(r) ==
  Runs(r, "deleteSub") /\ DeleteSubRow(req[r].at, req[r].in.target) /\ Ends(r, "ok")

handleSaveRootChain(r) ==
  /\ Writes(r, "saveRoot")
  /\ UpdateChainRow(req[r].at, req[r].in.target, req[r].content)
  /\ Ends(r, "ok")

(* Build when there is no such row: Create gives the chain another id. *)
SaveMisses(r) ==
  /\ Writes(r, "saveRoot")
  /\ draft[req[r].at][req[r].in.target] \in NoRow
  /\ To(r, "create")

SaveCreates(r) ==
  /\ At(r, "create")
  /\ \E k \in Chain : CreateChainRow(req[r].at, k, req[r].content)
  /\ Ends(r, "ok")

handleCreateRootChain(r) ==
  /\ Runs(r, "createRoot")
  /\ \E k \in Chain : CreateChainRow(req[r].at, k, NoRefs)
  /\ Ends(r, "ok")

(* The draft a copy or a release is made of. *)
ReadDraft(r) ==
  /\ Runs(r, "copyRoot") \/ Runs(r, "publish")
  /\ LET stored == draft[req[r].at][req[r].in.target]
     IN  /\ stored \notin NoRow
         /\ req' = [req EXCEPT ![r].content = stored,
                      ![r].pc = IF Asks(r, "publish") THEN "write" ELSE "copy"]

CreateCopy(r) ==
  /\ At(r, "copy")
  /\ \E k \in Chain :
       /\ CreateChainRow(req[r].at, k, NoRefs)
       /\ req' = [req EXCEPT ![r].pc = "write", ![r].key = k]

CopyRootChain(r) ==
  /\ Writes(r, "copyRoot")
  /\ UpdateChainRow(req[r].at, req[r].key, req[r].content)
  /\ Ends(r, "ok")

CopyIsUndone(r) ==
  /\ Writes(r, "copyRoot")
  /\ DeleteChainRow(req[r].at, req[r].key)
  /\ Ends(r, "refused")

(* HasReleases, then the row. *)
HasNoReleases(r) ==
  /\ Runs(r, "deleteRoot")
  /\ released[req[r].at][req[r].in.target] = {}
  /\ To(r, "write")

handleDeleteRootChain(r) ==
  /\ Writes(r, "deleteRoot")
  /\ DeleteChainRow(req[r].at, req[r].in.target)
  /\ Ends(r, "ok")

handlePublishRootChain(r) ==
  /\ Writes(r, "publish")
  /\ online[req[r].at][req[r].in.target] # req[r].content
  /\ PublishRows(req[r].at, req[r].in.target, req[r].content)
  /\ Ends(r, "ok")

(* handleRollbackRootChain is the same. *)
handleSetCurrentRelease(r) ==
  /\ Runs(r, "setCurrent")
  /\ SetCurrentRow(req[r].at, req[r].in.target, req[r].in.content)
  /\ Ends(r, "ok")

handleDeleteRootChainRelease(r) ==
  /\ Runs(r, "deleteRelease")
  /\ DeleteReleaseRow(req[r].at, req[r].in.target, req[r].in.content)
  /\ Ends(r, "ok")

-----------------------------------------------------------------------------
(* Test cases and environments. *)

(* NextCaseID, when the request names no case. *)
NewCase(r) ==
  /\ Runs(r, "saveCase")
  /\ req[r].in.target = Nothing
  /\ \E i \in Case \ case[req[r].at] :
       req' = [req EXCEPT ![r].pc = "write", ![r].key = i]

SaveTestCase(r) ==
  /\ \/ Writes(r, "saveCase") /\ CreateCaseRow(req[r].at, req[r].key)
     \/ Runs(r, "saveCase") /\ UpdateCaseRow(req[r].at, req[r].in.target)
  /\ Ends(r, "ok")

handleDeleteTestCase(r) ==
  Runs(r, "deleteCase") /\ DeleteCaseRow(req[r].at, req[r].in.target) /\ Ends(r, "ok")

ReadEnv(r) ==
  /\ Runs(r, "saveEnv")
  /\ req' = [req EXCEPT ![r].pc = "write",
               ![r].secret = RestoreMaskedSecrets(req[r].in.secret, env[req[r].at])]

handleSaveEnvConfig(r) ==
  Writes(r, "saveEnv") /\ UpsertEnv(req[r].at, req[r].secret) /\ Ends(r, "ok")

handleDeleteEnvConfig(r) ==
  Runs(r, "deleteEnv") /\ DeleteEnvRow(req[r].at) /\ Ends(r, "ok")

-----------------------------------------------------------------------------
(* The next-state relation: which tables a step leaves alone. *)

Reading(r) ==
  /\ \/ isPublicRequest(r) \/ GetSession(r) \/ NoCookie(r) \/ authMiddleware(r)
     \/ checkProjectAccessForRequest(r) \/ requireAdmin(r) \/ requireProject(r)
     \/ requireProjectAccess(r) \/ Fail(r) \/ Answer(r) \/ LoginNotBlocked(r)
     \/ ReadUser(r) \/ handleUpdateUser(r) \/ handleBindUserProject(r)
     \/ ReadBinding(r) \/ BindingFails(r) \/ BindingsDone(r)
     \/ CheckNode(r) \/ ReadActivity(r) \/ Unguarded(r) \/ buildPublishedRefIndex(r)
     \/ visit(r) \/ visitFails(r) \/ NotPublished(r)
     \/ ensureBuiltin(r) \/ handleCreateNode(r) \/ NameIsFree(r) \/ NewSub(r)
     \/ Rebuild(r) \/ AssembleNodes(r) \/ SaveMisses(r)
     \/ ReadDraft(r) \/ HasNoReleases(r) \/ NewCase(r) \/ ReadEnv(r)
  /\ UNCHANGED <<catalogueVars, accountVars>>

Changing(r) ==
  \/ /\ LoginWrong(r) \/ LoginRight(r)
     /\ UNCHANGED <<catalogueVars, account, role, session>>
  \/ /\ handleLogin(r) \/ handleLogout(r) \/ EndSessions(r)
     /\ UNCHANGED <<catalogueVars, account, role, fails>>
  \/ /\ WriteUser(r) \/ handleCreateUser(r) \/ handleDeleteUser(r)
     /\ UNCHANGED <<catalogueVars, role, session, fails>>
  \/ /\ DeleteBindings(r) \/ Unbind(r) \/ Bind(r)
     /\ UNCHANGED <<catalogueVars, account, session, fails>>
  \/ /\ \/ /\ handleCreateProject(r) \/ handleUpdateProject(r) \/ handleDeleteProject(r)
           /\ UNCHANGED <<node, builtin, activity, sub, draft, released, online, case, env>>
        \/ /\ ListNodes(r)
           /\ UNCHANGED <<project, node, activity, sub, draft, released, online, case, env>>
        \/ /\ RegisterNode(r) \/ UpdateNode(r) \/ DeleteNode(r)
           /\ UNCHANGED <<project, builtin, activity, sub, draft, released, online, case, env>>
        \/ /\ InsertActivity(r) \/ InsertGivenID(r) \/ CreateActivity(r) \/ UpdateActivity(r)
              \/ DeleteActivity(r)
           /\ UNCHANGED <<project, node, builtin, sub, draft, released, online, case, env>>
        \/ /\ BuildSubChain(r) \/ UpdateSubChainBuild(r) \/ handleUpdateSubChain(r)
              \/ handleDeleteSubChain(r)
           /\ UNCHANGED <<project, node, builtin, activity, draft, released, online, case, env>>
        \/ /\ handleSaveRootChain(r) \/ SaveCreates(r) \/ handleCreateRootChain(r)
              \/ CreateCopy(r) \/ CopyRootChain(r) \/ CopyIsUndone(r)
              \/ handleDeleteRootChain(r)
           /\ UNCHANGED <<project, node, builtin, activity, sub, released, online, case, env>>
        \/ /\ handlePublishRootChain(r)
           /\ UNCHANGED <<project, node, builtin, activity, sub, draft, case, env>>
        \/ /\ handleSetCurrentRelease(r)
           /\ UNCHANGED <<project, node, builtin, activity, sub, draft, released, case, env>>
        \/ /\ handleDeleteRootChainRelease(r)
           /\ UNCHANGED <<project, node, builtin, activity, sub, draft, online, case, env>>
        \/ /\ SaveTestCase(r) \/ handleDeleteTestCase(r)
           /\ UNCHANGED <<project, node, builtin, activity, sub, draft, released, online, env>>
        \/ /\ handleSaveEnvConfig(r) \/ handleDeleteEnvConfig(r)
           /\ UNCHANGED <<project, node, builtin, activity, sub, draft, released, online, case>>
     /\ UNCHANGED accountVars

(* Time passes: a session ends, a window of failed logins is over. *)
Later ==
  /\ \/ (\E t \in Token : Expire(t)) /\ UNCHANGED fails
     \/ (\E u \in User : fails[u] > 0 /\ ResetFails(u)) /\ UNCHANGED session
  /\ UNCHANGED <<catalogueVars, account, role, req>>

-----------------------------------------------------------------------------
(* History. *)

Unseen == [session |-> FALSE, enabled |-> FALSE, admin |-> FALSE, edit |-> {}, view |-> {}]

(* What the tables allow user u, who came with token t, at this moment. *)
Allows(u, t) ==
  [session |-> session[t] = u,
   enabled |-> Enabled(u),
   admin   |-> Enabled(u) /\ account[u].admin,
   edit    |-> {p \in Project : role[u][p] = "editor"},
   view    |-> ListProjectsByUser(u)]

Join(w, v) ==
  [session |-> w.session \/ v.session, enabled |-> w.enabled \/ v.enabled,
   admin |-> w.admin \/ v.admin, edit |-> w.edit \cup v.edit, view |-> w.view \cup v.view]

(* What is online in project p at this moment. *)
OnlineNow(p) ==
  [root |-> [k \in Chain |-> Referred(online[p][k])],
   sub  |-> [s \in Sub |-> Referred(sub[p][s])]]

Meet(a, b) ==
  LET both(x, y) == [things |-> x.things \cap y.things, subs |-> x.subs \cap y.subs]
  IN  [root |-> [k \in Chain |-> both(a.root[k], b.root[k])],
       sub  |-> [s \in Sub |-> both(a.sub[s], b.sub[s])]]

(* The things that the root chains of o use, sub chains followed. *)
Used(o) ==
  LET closed(S) == /\ UNION {o.root[k].subs : k \in Chain} \subseteq S
                   /\ \A s \in S : o.sub[s].subs \subseteq S
      reached == {s \in Sub : \A S \in SUBSET Sub : closed(S) => s \in S}
  IN  (UNION {o.root[k].things : k \in Chain}) \cup (UNION {o.sub[s].things : s \in reached})

IsUser(r) == req[r].who # Nothing

IsGuarded(r) == IsUser(r) /\ req[r].in.op \in Guarded /\ projectParam(req[r].in) # Nothing

Observe ==
  /\ was' = [r \in Req |->
       IF IsUser(r)' THEN Join(was[r], Allows(req[r].who, req[r].in.token)') ELSE Unseen]
  /\ kept' = [r \in Req |->
       IF ~ IsGuarded(r)' THEN Nothing
       ELSE IF kept[r] = Nothing THEN OnlineNow(projectParam(req[r].in))'
       ELSE Meet(kept[r], OnlineNow(projectParam(req[r].in))')]

-----------------------------------------------------------------------------

(* Accounts, roles and rows as an installation has them. *)
Init ==
  /\ AccountsTypeOK
  /\ CatalogueTypeOK
  /\ \A p \in Project, k \in Chain : online[p][k] \in released[p][k] \cup {Nothing}
  /\ req = [r \in Req |-> Blank]
  /\ was = [r \in Req |-> Unseen]
  /\ kept = [r \in Req |-> Nothing]

Next == ((\E r \in Req : Reading(r) \/ Changing(r)) \/ Later) /\ Observe

Spec == Init /\ [][Next]_vars

-----------------------------------------------------------------------------
(* Properties. *)

Stage ==
  {"idle", "user", "check", "run", "password", "write", "sessions", "list",
   "binds", "bind", "unbindAll", "guard", "walk", "exists", "insert", "nodes",
   "create", "copy"} \cup Ended

(* The local variables of request r. *)
RequestOK(r, x) ==
  /\ x.pc \in Stage
  /\ x.in \in Input[r] \cup {Nothing}
  /\ x.who \in User \cup {Nothing}
  /\ x.admin \in BOOLEAN
  /\ x.at \in Project \cup {Nothing}
  /\ x.row \in Account \cup {Nothing}
  /\ x.binds \subseteq Project \X Given
  /\ x.content \in Content \cup {Nothing}
  /\ {x.todo, x.visited} \subseteq SUBSET (Chain \X Sub)

(* The tables hold rows of their kinds, whatever requests store in them,   *)
(* and a request works with what it asked for or has read.                 *)
TypeOK ==
  /\ AccountsTypeOK
  /\ CatalogueTypeOK
  /\ \A r \in Req : RequestOK(r, req[r]) /\ kept[r] \in References \cup {Nothing}

(* A request is past the checks of its session, its account and its role. *)
Admitted == Stage \ ({"idle", "user", "check"} \cup Ended)

Served(r) ==
  /\ req[r].pc \in Admitted
  /\ req[r].in.op \notin PublicOps
  /\ req'[r].pc = "ok" \/ (req'[r] # req[r] /\ <<catalogueVars, accountVars>>' # <<catalogueVars, accountVars>>)

(* The project in which the role of the user counts when q works on p: p,  *)
(* except where the query writes p with blanks around it, which counts as  *)
(* the code it is with them.                                               *)
RoleOf(q, p) == IF q.op \notin PathOps /\ projectParam(q) = p THEN q.query ELSE p

RoleIn(r) == RoleOf(req[r].in, req[r].at)

(* What the operation of r takes. *)
Entitled(r) ==
  LET op == req[r].in.op
  IN  /\ was[r].session /\ was[r].enabled
      /\ op \in AdminOps => was[r].admin
      /\ op \in QueryOps \cup BodyOps \cup PathOps =>
           was[r].admin \/ RoleIn(r) \in (IF isReadRequest(op) THEN was[r].view ELSE was[r].edit)

(* No request changes a table or is answered unless, at some moment since  *)
(* it arrived, its session was valid, its account enabled and its user an  *)
(* administrator, or, for what a project holds, an editor of that project  *)
(* (a viewer, for what viewers may do): the project it works on when it    *)
(* comes from the body, the path, or a query without blanks; of a query    *)
(* with blanks around the code, the role is the one in the code as it was  *)
(* written, and another project is worked on.  So it is whatever happens   *)
(* to session, account and role meanwhile, and when query and body differ  *)
(* (authMiddleware, resolveProject, projectParam).                         *)
Permitted == [][\A r \in Req : Served(r) => Entitled(r)]_vars

(* A node or an activity that online root chains referred to all the time  *)
(* since the request arrived, directly or over sub chains, is neither      *)
(* changed nor deleted by a user who is no administrator, and no activity  *)
(* is renamed to such a name: unless a read of a sub chain failed, or      *)
(* another request renamed the activity in between (published_check.go,    *)
(* UpdateActivity).  It says nothing of a new activity, which asks nobody  *)
(* who refers to its name (CreateActivity).                                *)
UsedUntouched ==
  \A r \in Req :
    LET asked == req[r].in
        used == Used(kept[r])
    IN  (IsGuarded(r) /\ req[r].pc = "write" /\ ~ req[r].admin /\ ~ req[r].missed) =>
          /\ asked.op \in {"updateNode", "deleteNode"} => asked.target \notin used
          /\ (asked.op \in {"updateAct", "deleteAct"}
                /\ activity[req[r].at][asked.target] = req[r].name) => req[r].name \notin used
          /\ asked.op = "updateAct" => asked.name \notin used
=============================================================================
