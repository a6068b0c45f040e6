---------------------------- MODULE ConsoleProofs ----------------------------
(***************************************************************************)
(* Console for any number of requests, users, projects and rows: nothing   *)
(* is changed or answered without permission, the tables hold rows of      *)
(* their kinds, and what is used online is not touched.                    *)
(*                                                                         *)
(* Permission.  Gate says what the checks a request has passed have seen,  *)
(* in terms of its history.  The history only grows while the request goes *)
(* on, so what a check saw stays seen, whatever happens to sessions,       *)
(* accounts and roles; and no step past the checks changes who asks, what  *)
(* for and in which project.                                               *)
(*                                                                         *)
(* Types.  Kind says which operation a request can have where it is and    *)
(* what it holds there, so that a statement stores rows of its table.      *)
(*                                                                         *)
(* Use.  What has been online all the time since a request arrived only    *)
(* shrinks (Below), and what refers to less uses less.  A walk that missed *)
(* nothing has in visited all that the root chains refer to, and in refs   *)
(* what the visited sub chains use (Walked): when nothing is left to visit *)
(* the visited are closed, so refs holds all that is used.                 *)
(***************************************************************************)
EXTENDS Console, TLAPS

Fields == DOMAIN Blank

(* The local variables of a request. *)
Shape(x) == x = [f \in Fields |-> x[f]]

Shapes == req = [r \in Req |-> req[r]] /\ \A r \in Req : Shape(req[r])

View(r) == IF isReadRequest(req[r].in.op) THEN was[r].view ELSE was[r].edit

InProject == QueryOps \cup BodyOps \cup PathOps

Under(r) == req[r].pc \notin Ended \cup {"idle"} /\ req[r].in.op \notin PublicOps

Gate(r) ==
  /\ req[r].pc \in Stage
  /\ req[r].pc \notin Ended \cup {"idle"} => req[r].in \in Input[r]
  /\ Under(r) =>
       /\ req[r].who \in User
       /\ was[r].session
       /\ req[r].pc # "user" => was[r].enabled /\ (req[r].admin => was[r].admin)
       /\ req[r].pc = "check" =>
            \A p \in Checks(req[r].in) \ req[r].checks : req[r].admin \/ p \in View(r)
       /\ req[r].pc \in Admitted =>
            /\ req[r].in.op \in AdminOps => was[r].admin
            /\ req[r].in.op \in InProject => was[r].admin \/ RoleIn(r) \in View(r)

IInv == Shapes /\ \A r \in Req : Gate(r)

-----------------------------------------------------------------------------
(* The history.                                                            *)

LEMMA Remembers ==
  ASSUME NEW r \in Req, Observe, req'[r].who \in User
  PROVE  was'[r] = Join(was[r], Allows(req[r].who, req[r].in.token)')
BY UserAssumption DEF Observe, IsUser

LEMMA Joined ==
  ASSUME NEW w, NEW v, NEW j, j = Join(w, v)
  PROVE  /\ j.session = (w.session \/ v.session)
         /\ j.enabled = (w.enabled \/ v.enabled)
         /\ j.admin = (w.admin \/ v.admin)
         /\ j.edit = w.edit \cup v.edit
         /\ j.view = w.view \cup v.view
<1>1. /\ Join(w, v).session = (w.session \/ v.session)
      /\ Join(w, v).enabled = (w.enabled \/ v.enabled)
      /\ Join(w, v).admin = (w.admin \/ v.admin)
      /\ Join(w, v).edit = w.edit \cup v.edit
      /\ Join(w, v).view = w.view \cup v.view
  BY Zenon DEF Join
<1> QED BY <1>1, Zenon

(* What was seen stays seen. *)
LEMMA HistoryGrows ==
  ASSUME NEW r \in Req, Observe, req'[r].who \in User
  PROVE  /\ was[r].session => was'[r].session
         /\ was[r].enabled => was'[r].enabled
         /\ was[r].admin => was'[r].admin
         /\ was[r].edit \subseteq was'[r].edit
         /\ was[r].view \subseteq was'[r].view
<1>1. PICK v : was'[r] = Join(was[r], v)
  BY Remembers
<1>2. /\ was'[r].session = (was[r].session \/ v.session)
      /\ was'[r].enabled = (was[r].enabled \/ v.enabled)
      /\ was'[r].admin = (was[r].admin \/ v.admin)
      /\ was'[r].edit = was[r].edit \cup v.edit
      /\ was'[r].view = was[r].view \cup v.view
  BY <1>1, Joined
<1> QED BY <1>2

(* What the tables allow after the step has been seen. *)
LEMMA HistorySees ==
  ASSUME NEW r \in Req, Observe, req'[r].who \in User
  PROVE  /\ session'[req'[r].in.token] = req'[r].who => was'[r].session
         /\ Enabled(req[r].who)' => was'[r].enabled
         /\ Enabled(req[r].who)' /\ account'[req'[r].who].admin => was'[r].admin
         /\ \A p \in Project : role'[req'[r].who][p] = "editor" => p \in was'[r].edit
         /\ \A p \in Project : role'[req'[r].who][p] \in Bound => p \in was'[r].view
<1> DEFINE v == Allows(req[r].who, req[r].in.token)'
<1>1. was'[r] = Join(was[r], v)
  BY Remembers
<1>2. /\ v.session = (session'[req'[r].in.token] = req'[r].who)
      /\ v.enabled = Enabled(req[r].who)'
      /\ v.admin = (Enabled(req[r].who)' /\ account'[req'[r].who].admin)
      /\ v.edit = {p \in Project : role'[req'[r].who][p] = "editor"}
      /\ v.view = {p \in Project : role'[req'[r].who][p] \in Bound}
  BY Zenon DEF Allows, ListProjectsByUser
<1> HIDE DEF v
<1>3. /\ was'[r].session = (was[r].session \/ v.session)
      /\ was'[r].enabled = (was[r].enabled \/ v.enabled)
      /\ was'[r].admin = (was[r].admin \/ v.admin)
      /\ was'[r].edit = was[r].edit \cup v.edit
      /\ was'[r].view = was[r].view \cup v.view
  BY <1>1, Joined
<1> QED BY <1>2, <1>3

-----------------------------------------------------------------------------
(* Steps.                                                                  *)

(* A step of r is one of its request alone. *)
Only(r) == Shapes' /\ \A q \in Req \ {r} : req'[q] = req[q]

(* The request goes on past the checks, as itself, or ends. *)
GoesOn(r) ==
  /\ req[r].pc \in Admitted
  /\ \/ req'[r].pc \in Ended
     \/ /\ req'[r].pc \in Admitted
        /\ req'[r].in = req[r].in /\ req'[r].who = req[r].who
        /\ req'[r].admin = req[r].admin /\ req'[r].at = req[r].at

(* Whatever else it does, a request that stays as it is remains entitled. *)
LEMMA GateSame ==
  ASSUME NEW r \in Req, Gate(r), Observe, req'[r] = req[r]
  PROVE  Gate(r)'
<1>1. CASE Under(r)
  <2>1. req'[r].who \in User
    BY <1>1 DEF Gate
  <2>2. View(r) \subseteq View(r)'
    BY <2>1, HistoryGrows DEF View, isReadRequest
  <2>3. RoleIn(r)' = RoleIn(r)
    BY DEF RoleIn
  <2> QED BY <1>1, <2>1, <2>2, <2>3, HistoryGrows DEF Gate, Under
<1>2. CASE ~Under(r)
  BY <1>2 DEF Gate, Under
<1> QED BY <1>1, <1>2

LEMMA GateGoesOn ==
  ASSUME NEW r \in Req, Gate(r), Observe, GoesOn(r)
  PROVE  Gate(r)'
<1>1. Stage = {"idle", "user", "check"} \cup Ended \cup Admitted
  BY DEF Stage, Admitted, Ended
<1>2. CASE req'[r].pc \in Ended
  BY <1>1, <1>2 DEF Gate, Under, Admitted, Ended
<1>3. CASE req'[r].pc \notin Ended
  <2>1. req[r].pc \notin Ended \cup {"idle", "user", "check"} /\ req'[r].pc \notin Ended \cup {"idle", "user", "check"}
    BY <1>3 DEF GoesOn, Admitted
  <2>2. CASE Under(r)
    <3>1. req'[r].who \in User
      BY <1>3, <2>2 DEF Gate, GoesOn
    <3>2. View(r) \subseteq View(r)'
      BY <1>3, <3>1, HistoryGrows DEF View, isReadRequest, GoesOn
    <3>3. RoleIn(r)' = RoleIn(r)
      BY <1>3 DEF RoleIn, GoesOn
    <3> QED BY <1>1, <1>3, <2>1, <2>2, <3>1, <3>2, <3>3, HistoryGrows DEF Gate, Under, GoesOn
  <2>3. CASE ~Under(r)
    BY <1>1, <1>3, <2>1, <2>3 DEF Gate, Under, GoesOn
  <2> QED BY <2>2, <2>3
<1> QED BY <1>2, <1>3

LEMMA FieldsAre ==
  /\ Fields = {"pc", "in", "who", "admin", "checks", "at", "row", "binds", "unbinds", "cur",
               "seen", "content", "key", "secret", "name", "names", "thing", "todo", "visited",
               "refs", "missed"}
  /\ Shape(Blank)
BY DEF Fields, Shape, Blank

(* A request that ends is blank. *)
LEMMA EndsOnly ==
  ASSUME Shapes, NEW r \in Req, NEW s \in Ended, Ends(r, s)
  PROVE  Only(r) /\ req'[r].pc = s
<1>1. req' = [req EXCEPT ![r] = [Blank EXCEPT !.pc = s]]
  BY DEF Ends
<1>2. [Blank EXCEPT !.pc = s].pc = s /\ Shape([Blank EXCEPT !.pc = s])
  BY FieldsAre DEF Shape, Fields
<1> QED BY <1>1, <1>2 DEF Only, Shapes

(* A change of a request's local variables. *)
LEMMA ChangesOnly ==
  ASSUME Shapes, NEW r \in Req, NEW x, Shape(x), req' = [req EXCEPT ![r] = x]
  PROVE  Only(r) /\ req'[r] = x
BY DEF Only, Shapes

LEMMA ToOnly ==
  ASSUME Shapes, NEW r \in Req, NEW s, To(r, s)
  PROVE  /\ Only(r)
         /\ req'[r].pc = s
         /\ \A f \in Fields \ {"pc"} : req'[r][f] = req[r][f]
<1>1. req' = [req EXCEPT ![r] = [req[r] EXCEPT !.pc = s]]
  BY DEF To
<1>2. Shape(req[r])
  BY DEF Shapes
<1>3. Shape([req[r] EXCEPT !.pc = s]) /\ [req[r] EXCEPT !.pc = s].pc = s
      /\ \A f \in Fields \ {"pc"} : [req[r] EXCEPT !.pc = s][f] = req[r][f]
  BY <1>2, FieldsAre DEF Shape
<1> QED BY <1>1, <1>3, ChangesOnly

LEMMA ToGoesOn ==
  ASSUME Shapes, NEW r \in Req, req[r].pc \in Admitted, NEW s \in Admitted, To(r, s)
  PROVE  Only(r) /\ GoesOn(r)
BY ToOnly, FieldsAre DEF GoesOn

LEMMA EndsGoesOn ==
  ASSUME Shapes, NEW r \in Req, req[r].pc \in Admitted, NEW s \in Ended, Ends(r, s)
  PROVE  Only(r) /\ GoesOn(r)
BY EndsOnly DEF GoesOn

(* The local variables but those of F stay as they are. *)
Same(r, F) == \A f \in Fields \ F : req'[r][f] = req[r][f]

LEMMA SameFields ==
  ASSUME NEW r \in Req, NEW F, Same(r, F)
  PROVE  /\ "in" \notin F => req'[r].in = req[r].in
         /\ "who" \notin F => req'[r].who = req[r].who
         /\ "admin" \notin F => req'[r].admin = req[r].admin
         /\ "at" \notin F => req'[r].at = req[r].at
         /\ "row" \notin F => req'[r].row = req[r].row
         /\ "binds" \notin F => req'[r].binds = req[r].binds
         /\ "content" \notin F => req'[r].content = req[r].content
         /\ "todo" \notin F => req'[r].todo = req[r].todo
         /\ "visited" \notin F => req'[r].visited = req[r].visited
         /\ "pc" \notin F => req'[r].pc = req[r].pc
         /\ "name" \notin F => req'[r].name = req[r].name
         /\ "names" \notin F => req'[r].names = req[r].names
         /\ "thing" \notin F => req'[r].thing = req[r].thing
         /\ "refs" \notin F => req'[r].refs = req[r].refs
         /\ "missed" \notin F => req'[r].missed = req[r].missed
BY FieldsAre DEF Same

(* Who asks, for what and where stays. *)
LEMMA SameGoesOn ==
  ASSUME NEW r \in Req, NEW F, Same(r, F), F \cap {"in", "who", "admin", "at"} = {},
         req[r].pc \in Admitted, req'[r].pc \in Admitted \/ "pc" \notin F
  PROVE  GoesOn(r)
BY SameFields DEF GoesOn

LEMMA ReadUserStep ==
  ASSUME Shapes, NEW r \in Req, ReadUser(r)
  PROVE  /\ Only(r) /\ GoesOn(r) /\ Same(r, {"pc", "row"})
         /\ req[r].pc = "run" /\ req[r].in.op \in {"updateUser", "changePassword"}
         /\ req'[r].pc = "write"
         /\ req'[r].row = Changed(account[Subject(r)], req[r].in)
<1>1. req[r].pc = "run" /\ req[r].in.op \in {"updateUser", "changePassword"}
  BY DEF ReadUser, Runs, At, Asks
<1>2. req[r].pc \in Admitted
  BY <1>1 DEF Admitted, Stage, Ended
<1>3. /\ Only(r) /\ Same(r, {"pc", "row"})
      /\ req'[r].pc = "write"
      /\ req'[r].row = Changed(account[Subject(r)], req[r].in)
  BY FieldsAre DEF Shapes, Shape, Same, Only, ReadUser
<1> QED BY <1>1, <1>2, <1>3, SameGoesOn DEF Admitted, Stage, Ended

LEMMA handleUpdateUserStep ==
  ASSUME Shapes, NEW r \in Req, handleUpdateUser(r)
  PROVE  /\ Only(r) /\ GoesOn(r) /\ Same(r, {"pc", "binds", "unbinds"})
         /\ req[r].pc = "list"
         /\ req'[r].pc = "binds"
         /\ req'[r].binds = req[r].in.binds
<1>1. req[r].pc = "list"
  BY DEF handleUpdateUser, Runs, At, Asks
<1>2. req[r].pc \in Admitted
  BY <1>1 DEF Admitted, Stage, Ended
<1>3. /\ Only(r) /\ Same(r, {"pc", "binds", "unbinds"})
      /\ req'[r].pc = "binds"
      /\ req'[r].binds = req[r].in.binds
  BY FieldsAre DEF Shapes, Shape, Same, Only, handleUpdateUser
<1> QED BY <1>1, <1>2, <1>3, SameGoesOn DEF Admitted, Stage, Ended

LEMMA handleBindUserProjectStep ==
  ASSUME Shapes, NEW r \in Req, handleBindUserProject(r)
  PROVE  /\ Only(r) /\ GoesOn(r) /\ Same(r, {"pc", "binds", "unbinds"})
         /\ req[r].pc = "run" /\ req[r].in.op = "bindUser"
         /\ req'[r].pc = "binds"
         /\ req'[r].binds \subseteq req[r].in.binds
<1>1. req[r].pc = "run" /\ req[r].in.op = "bindUser"
  BY DEF handleBindUserProject, Runs, At, Asks
<1>2. req[r].pc \in Admitted
  BY <1>1 DEF Admitted, Stage, Ended
<1>3. /\ Only(r) /\ Same(r, {"pc", "binds", "unbinds"})
      /\ req'[r].pc = "binds"
      /\ req'[r].binds \subseteq req[r].in.binds
  BY FieldsAre DEF Shapes, Shape, Same, Only, handleBindUserProject
<1> QED BY <1>1, <1>2, <1>3, SameGoesOn DEF Admitted, Stage, Ended

LEMMA ReadBindingStep ==
  ASSUME Shapes, NEW r \in Req, ReadBinding(r)
  PROVE  /\ Only(r) /\ GoesOn(r) /\ Same(r, {"pc", "cur", "binds", "seen"})
         /\ req[r].pc = "binds"
         /\ req'[r].pc = "bind"
         /\ req'[r].cur \in req[r].binds
         /\ req'[r].binds \subseteq req[r].binds
<1>1. req[r].pc = "binds"
  BY DEF ReadBinding, Runs, At, Asks
<1>2. req[r].pc \in Admitted
  BY <1>1 DEF Admitted, Stage, Ended
<1>3. PICK b \in req[r].binds : req' = [req EXCEPT ![r].pc = "bind", ![r].cur = b, ![r].binds = @ \ {b},
                          ![r].seen = role[Subject(r)][b[1]]]
  BY DEF ReadBinding
<1>4. /\ Only(r) /\ Same(r, {"pc", "cur", "binds", "seen"})
      /\ req'[r].pc = "bind"
      /\ req'[r].cur \in req[r].binds
      /\ req'[r].binds \subseteq req[r].binds
  BY <1>3, FieldsAre DEF Shapes, Shape, Same, Only
<1> QED BY <1>1, <1>2, <1>4, SameGoesOn DEF Admitted, Stage, Ended

LEMMA CheckNodeStep ==
  ASSUME Shapes, NEW r \in Req, CheckNode(r)
  PROVE  /\ Only(r) /\ GoesOn(r) /\ Same(r, {"pc", "names"})
         /\ req[r].pc = "run" /\ req[r].in.op \in {"updateNode", "deleteNode"}
         /\ req'[r].pc = "guard"
         /\ req'[r].names = {req[r].in.target}
<1>1. req[r].pc = "run" /\ req[r].in.op \in {"updateNode", "deleteNode"}
  BY DEF CheckNode, Runs, At, Asks
<1>2. req[r].pc \in Admitted
  BY <1>1 DEF Admitted, Stage, Ended
<1>3. /\ Only(r) /\ Same(r, {"pc", "names"})
      /\ req'[r].pc = "guard"
      /\ req'[r].names = {req[r].in.target}
  BY FieldsAre DEF Shapes, Shape, Same, Only, CheckNode
<1> QED BY <1>1, <1>2, <1>3, SameGoesOn DEF Admitted, Stage, Ended

LEMMA ReadActivityStep ==
  ASSUME Shapes, NEW r \in Req, ReadActivity(r)
  PROVE  /\ Only(r) /\ GoesOn(r) /\ Same(r, {"pc", "name", "names"})
         /\ req[r].pc = "run" /\ req[r].in.op \in {"updateAct", "deleteAct"}
         /\ req'[r].pc = "guard"
         /\ req'[r].names = CheckedNames(req[r].in, req'[r].name)
<1>1. req[r].pc = "run" /\ req[r].in.op \in {"updateAct", "deleteAct"}
  BY DEF ReadActivity, Runs, At, Asks
<1>2. req[r].pc \in Admitted
  BY <1>1 DEF Admitted, Stage, Ended
<1>3. /\ Only(r) /\ Same(r, {"pc", "name", "names"})
      /\ req'[r].pc = "guard"
      /\ req'[r].names = CheckedNames(req[r].in, req'[r].name)
  BY FieldsAre DEF Shapes, Shape, Same, Only, ReadActivity
<1> QED BY <1>1, <1>2, <1>3, SameGoesOn DEF Admitted, Stage, Ended

LEMMA visitFailsStep ==
  ASSUME Shapes, NEW r \in Req, visitFails(r)
  PROVE  /\ Only(r) /\ GoesOn(r) /\ Same(r, {"todo", "missed"})
         /\ req[r].pc = "walk"
         /\ req'[r].todo \subseteq req[r].todo
         /\ req'[r].missed = TRUE
<1>1. req[r].pc = "walk"
  BY DEF visitFails, Runs, At, Asks
<1>2. req[r].pc \in Admitted
  BY <1>1 DEF Admitted, Stage, Ended
<1>3. PICK v \in req[r].todo : req' = [req EXCEPT ![r].todo = @ \ {v}, ![r].missed = TRUE]
  BY DEF visitFails
<1>4. /\ Only(r) /\ Same(r, {"todo", "missed"})
      /\ req'[r].todo \subseteq req[r].todo
      /\ req'[r].missed = TRUE
  BY <1>3, FieldsAre DEF Shapes, Shape, Same, Only
<1> QED BY <1>1, <1>2, <1>4, SameGoesOn DEF Admitted, Stage, Ended

LEMMA NotPublishedStep ==
  ASSUME Shapes, NEW r \in Req, NotPublished(r)
  PROVE  /\ Only(r) /\ GoesOn(r) /\ Same(r, {"pc", "names", "thing", "refs", "visited"})
         /\ req[r].pc = "walk" /\ req[r].todo = {} /\ req[r].thing \notin req[r].refs
         /\ req'[r].pc = "guard"
         /\ req'[r].names = req[r].names \ {req[r].thing}
         /\ req'[r].visited = {}
<1>1. req[r].pc = "walk" /\ req[r].todo = {} /\ req[r].thing \notin req[r].refs
  BY DEF NotPublished, Runs, At, Asks
<1>2. req[r].pc \in Admitted
  BY <1>1 DEF Admitted, Stage, Ended
<1>3. /\ Only(r) /\ Same(r, {"pc", "names", "thing", "refs", "visited"})
      /\ req'[r].pc = "guard"
      /\ req'[r].names = req[r].names \ {req[r].thing}
      /\ req'[r].visited = {}
  BY FieldsAre DEF Shapes, Shape, Same, Only, NotPublished
<1> QED BY <1>1, <1>2, <1>3, SameGoesOn DEF Admitted, Stage, Ended

LEMMA handleCreateNodeStep ==
  ASSUME Shapes, NEW r \in Req, handleCreateNode(r)
  PROVE  /\ Only(r) /\ GoesOn(r) /\ Same(r, {"pc", "key"})
         /\ req[r].pc = "run" /\ req[r].in.op = "createNode"
         /\ req'[r].pc = "write"
<1>1. req[r].pc = "run" /\ req[r].in.op = "createNode"
  BY DEF handleCreateNode, Runs, At, Asks
<1>2. req[r].pc \in Admitted
  BY <1>1 DEF Admitted, Stage, Ended
<1>3. PICK n : req' = [req EXCEPT ![r].pc = "write", ![r].key = n]
  BY DEF handleCreateNode
<1>4. /\ Only(r) /\ Same(r, {"pc", "key"})
      /\ req'[r].pc = "write"
  BY <1>3, FieldsAre DEF Shapes, Shape, Same, Only
<1> QED BY <1>1, <1>2, <1>4, SameGoesOn DEF Admitted, Stage, Ended

LEMMA NewSubStep ==
  ASSUME Shapes, NEW r \in Req, NewSub(r)
  PROVE  /\ Only(r) /\ GoesOn(r) /\ Same(r, {"pc", "key", "content"})
         /\ req[r].pc = "run" /\ req[r].in.op \in {"createSub", "buildSub"}
         /\ req'[r].pc \in {"nodes", "write"}
         /\ req'[r].content = req[r].in.content
<1>1. req[r].pc = "run" /\ req[r].in.op \in {"createSub", "buildSub"}
  BY DEF NewSub, Runs, At, Asks
<1>2. req[r].pc \in Admitted
  BY <1>1 DEF Admitted, Stage, Ended
<1>3. PICK s : req' = [req EXCEPT ![r].key = s, ![r].content = req[r].in.content,
                    ![r].pc = IF Asks(r, "buildSub") THEN "nodes" ELSE "write"]
  BY DEF NewSub
<1>4. /\ Only(r) /\ Same(r, {"pc", "key", "content"})
      /\ req'[r].pc \in {"nodes", "write"}
      /\ req'[r].content = req[r].in.content
  BY <1>3, FieldsAre DEF Shapes, Shape, Same, Only
<1> QED BY <1>1, <1>2, <1>4, SameGoesOn DEF Admitted, Stage, Ended

LEMMA RebuildStep ==
  ASSUME Shapes, NEW r \in Req, Rebuild(r)
  PROVE  /\ Only(r) /\ GoesOn(r) /\ Same(r, {"pc", "content"})
         /\ req[r].pc = "run" /\ req[r].in.op \in {"rebuildSub", "saveRoot"}
         /\ req'[r].pc = "nodes"
         /\ req'[r].content = req[r].in.content
<1>1. req[r].pc = "run" /\ req[r].in.op \in {"rebuildSub", "saveRoot"}
  BY DEF Rebuild, Runs, At, Asks
<1>2. req[r].pc \in Admitted
  BY <1>1 DEF Admitted, Stage, Ended
<1>3. /\ Only(r) /\ Same(r, {"pc", "content"})
      /\ req'[r].pc = "nodes"
      /\ req'[r].content = req[r].in.content
  BY FieldsAre DEF Shapes, Shape, Same, Only, Rebuild
<1> QED BY <1>1, <1>2, <1>3, SameGoesOn DEF Admitted, Stage, Ended

LEMMA AssembleNodesStep ==
  ASSUME Shapes, NEW r \in Req, AssembleNodes(r)
  PROVE  /\ Only(r) /\ GoesOn(r) /\ Same(r, {"pc", "content"})
         /\ req[r].pc = "nodes"
         /\ req'[r].pc = "write"
         /\ req'[r].content = LiveNodes(req[r].at, req[r].content)
<1>1. req[r].pc = "nodes"
  BY DEF AssembleNodes, Runs, At, Asks
<1>2. req[r].pc \in Admitted
  BY <1>1 DEF Admitted, Stage, Ended
<1>3. /\ Only(r) /\ Same(r, {"pc", "content"})
      /\ req'[r].pc = "write"
      /\ req'[r].content = LiveNodes(req[r].at, req[r].content)
  BY FieldsAre DEF Shapes, Shape, Same, Only, AssembleNodes
<1> QED BY <1>1, <1>2, <1>3, SameGoesOn DEF Admitted, Stage, Ended

LEMMA ReadDraftStep ==
  ASSUME Shapes, NEW r \in Req, ReadDraft(r)
  PROVE  /\ Only(r) /\ GoesOn(r) /\ Same(r, {"pc", "content"})
         /\ req[r].pc = "run" /\ req[r].in.op \in {"copyRoot", "publish"}
         /\ req'[r].pc = (IF Asks(r, "publish") THEN "write" ELSE "copy")
         /\ req'[r].content = draft[req[r].at][req[r].in.target]
         /\ req'[r].content \notin NoRow
<1>1. req[r].pc = "run" /\ req[r].in.op \in {"copyRoot", "publish"}
  BY DEF ReadDraft, Runs, At, Asks
<1>2. req[r].pc \in Admitted
  BY <1>1 DEF Admitted, Stage, Ended
<1>3. /\ Only(r) /\ Same(r, {"pc", "content"})
      /\ req'[r].pc = (IF Asks(r, "publish") THEN "write" ELSE "copy")
      /\ req'[r].content = draft[req[r].at][req[r].in.target]
  BY FieldsAre DEF Shapes, Shape, Same, Only, ReadDraft
<1>4. req'[r].content \notin NoRow
  BY <1>3 DEF ReadDraft
<1> QED BY <1>1, <1>2, <1>3, <1>4, SameGoesOn DEF Admitted, Stage, Ended

LEMMA NewCaseStep ==
  ASSUME Shapes, NEW r \in Req, NewCase(r)
  PROVE  /\ Only(r) /\ GoesOn(r) /\ Same(r, {"pc", "key"})
         /\ req[r].pc = "run" /\ req[r].in.op = "saveCase"
         /\ req'[r].pc = "write"
         /\ req'[r].key \in Case
<1>1. req[r].pc = "run" /\ req[r].in.op = "saveCase"
  BY DEF NewCase, Runs, At, Asks
<1>2. req[r].pc \in Admitted
  BY <1>1 DEF Admitted, Stage, Ended
<1>3. PICK i \in Case \ case[req[r].at] : req' = [req EXCEPT ![r].pc = "write", ![r].key = i]
  BY DEF NewCase
<1>4. /\ Only(r) /\ Same(r, {"pc", "key"})
      /\ req'[r].pc = "write"
      /\ req'[r].key \in Case
  BY <1>3, FieldsAre DEF Shapes, Shape, Same, Only
<1> QED BY <1>1, <1>2, <1>4, SameGoesOn DEF Admitted, Stage, Ended

LEMMA ReadEnvStep ==
  ASSUME Shapes, NEW r \in Req, ReadEnv(r)
  PROVE  /\ Only(r) /\ GoesOn(r) /\ Same(r, {"pc", "secret"})
         /\ req[r].pc = "run" /\ req[r].in.op = "saveEnv"
         /\ req'[r].pc = "write"
         /\ req'[r].secret = RestoreMaskedSecrets(req[r].in.secret, env[req[r].at])
<1>1. req[r].pc = "run" /\ req[r].in.op = "saveEnv"
  BY DEF ReadEnv, Runs, At, Asks
<1>2. req[r].pc \in Admitted
  BY <1>1 DEF Admitted, Stage, Ended
<1>3. /\ Only(r) /\ Same(r, {"pc", "secret"})
      /\ req'[r].pc = "write"
      /\ req'[r].secret = RestoreMaskedSecrets(req[r].in.secret, env[req[r].at])
  BY FieldsAre DEF Shapes, Shape, Same, Only, ReadEnv
<1> QED BY <1>1, <1>2, <1>3, SameGoesOn DEF Admitted, Stage, Ended

LEMMA handleCreateUserStep ==
  ASSUME Shapes, NEW r \in Req, handleCreateUser(r)
  PROVE  /\ Only(r) /\ GoesOn(r) /\ Same(r, {"pc", "binds"})
         /\ req[r].pc = "run" /\ req[r].in.op = "createUser"
         /\ req'[r].pc = "binds"
         /\ req'[r].binds = req[r].in.binds
<1>1. req[r].pc = "run" /\ req[r].in.op = "createUser"
  BY DEF handleCreateUser, Runs, At, Asks
<1>2. req[r].pc \in Admitted
  BY <1>1 DEF Admitted, Stage, Ended
<1>3. /\ Only(r) /\ Same(r, {"pc", "binds"})
      /\ req'[r].pc = "binds"
      /\ req'[r].binds = req[r].in.binds
  BY FieldsAre DEF Shapes, Shape, Same, Only, handleCreateUser
<1> QED BY <1>1, <1>2, <1>3, SameGoesOn DEF Admitted, Stage, Ended

LEMMA handleCreateProjectStep ==
  ASSUME Shapes, NEW r \in Req, handleCreateProject(r)
  PROVE  /\ Only(r) /\ GoesOn(r) /\ Same(r, {"pc", "binds"})
         /\ req[r].pc = "run" /\ req[r].in.op = "createProject"
         /\ req'[r].pc = "binds"
         /\ req'[r].binds = {<<req[r].at, "editor">>}
<1>1. req[r].pc = "run" /\ req[r].in.op = "createProject"
  BY DEF handleCreateProject, Runs, At, Asks
<1>2. req[r].pc \in Admitted
  BY <1>1 DEF Admitted, Stage, Ended
<1>3. /\ Only(r) /\ Same(r, {"pc", "binds"})
      /\ req'[r].pc = "binds"
      /\ req'[r].binds = {<<req[r].at, "editor">>}
  BY FieldsAre DEF Shapes, Shape, Same, Only, handleCreateProject
<1> QED BY <1>1, <1>2, <1>3, SameGoesOn DEF Admitted, Stage, Ended

LEMMA UnbindStep ==
  ASSUME Shapes, NEW r \in Req, Unbind(r)
  PROVE  /\ Only(r) /\ GoesOn(r) /\ Same(r, {"unbinds"})
         /\ req[r].pc = "binds"
<1>1. req[r].pc = "binds"
  BY DEF Unbind, Runs, At, Asks
<1>2. req[r].pc \in Admitted
  BY <1>1 DEF Admitted, Stage, Ended
<1>3. PICK p : req' = [req EXCEPT ![r].unbinds = @ \ {p}]
  BY DEF Unbind
<1>4. /\ Only(r) /\ Same(r, {"unbinds"})
  BY <1>3, FieldsAre DEF Shapes, Shape, Same, Only
<1> QED BY <1>1, <1>2, <1>4, SameGoesOn DEF Admitted, Stage, Ended

LEMMA InsertActivityStep ==
  ASSUME Shapes, NEW r \in Req, InsertActivity(r)
  PROVE  /\ Only(r) /\ GoesOn(r) /\ Same(r, {"pc", "key"})
         /\ req[r].pc = "insert"
         /\ req'[r].pc = "write"
<1>1. req[r].pc = "insert"
  BY DEF InsertActivity, Runs, At, Asks
<1>2. req[r].pc \in Admitted
  BY <1>1 DEF Admitted, Stage, Ended
<1>3. PICK a : req' = [req EXCEPT ![r].pc = "write", ![r].key = a]
  BY DEF InsertActivity
<1>4. /\ Only(r) /\ Same(r, {"pc", "key"})
      /\ req'[r].pc = "write"
  BY <1>3, FieldsAre DEF Shapes, Shape, Same, Only
<1> QED BY <1>1, <1>2, <1>4, SameGoesOn DEF Admitted, Stage, Ended

LEMMA CreateCopyStep ==
  ASSUME Shapes, NEW r \in Req, CreateCopy(r)
  PROVE  /\ Only(r) /\ GoesOn(r) /\ Same(r, {"pc", "key"})
         /\ req[r].pc = "copy"
         /\ req'[r].pc = "write"
<1>1. req[r].pc = "copy"
  BY DEF CreateCopy, Runs, At, Asks
<1>2. req[r].pc \in Admitted
  BY <1>1 DEF Admitted, Stage, Ended
<1>3. PICK k : req' = [req EXCEPT ![r].pc = "write", ![r].key = k]
  BY DEF CreateCopy
<1>4. /\ Only(r) /\ Same(r, {"pc", "key"})
      /\ req'[r].pc = "write"
  BY <1>3, FieldsAre DEF Shapes, Shape, Same, Only
<1> QED BY <1>1, <1>2, <1>4, SameGoesOn DEF Admitted, Stage, Ended

LEMMA buildPublishedRefIndexStep ==
  ASSUME Shapes, NEW r \in Req, buildPublishedRefIndex(r)
  PROVE  /\ Only(r) /\ GoesOn(r) /\ Same(r, {"pc", "thing", "refs", "todo", "visited"})
         /\ req[r].pc = "guard" /\ ~ req[r].admin
         /\ req'[r].pc = "walk" /\ req'[r].thing \in req[r].names
         /\ LET current == [k \in Chain |-> Referred(online[req[r].at][k])]
                todo == {v \in Chain \X Sub : v[2] \in current[v[1]].subs}
            IN  /\ req'[r].refs = UNION {current[k].things : k \in Chain}
                /\ req'[r].todo = todo /\ req'[r].visited = todo
<1> DEFINE current == [k \in Chain |-> Referred(online[req[r].at][k])]
           todo == {v \in Chain \X Sub : v[2] \in current[v[1]].subs}
           refs == UNION {current[k].things : k \in Chain}
<1>1. PICK x \in req[r].names :
        req' = [req EXCEPT ![r].pc = "walk", ![r].thing = x, ![r].refs = refs,
                          ![r].todo = todo, ![r].visited = todo]
  BY DEF buildPublishedRefIndex
<1> HIDE DEF todo, refs
<1>2. /\ Only(r) /\ Same(r, {"pc", "thing", "refs", "todo", "visited"})
      /\ req'[r].pc = "walk" /\ req'[r].thing \in req[r].names
      /\ req'[r].refs = refs /\ req'[r].todo = todo /\ req'[r].visited = todo
  BY <1>1, FieldsAre DEF Shapes, Shape, Same, Only
<1>3. req[r].pc = "guard" /\ ~ req[r].admin /\ req[r].pc \in Admitted
  BY DEF buildPublishedRefIndex, At, Admitted, Stage, Ended
<1>4. GoesOn(r)
  BY <1>2, <1>3, SameGoesOn DEF Admitted, Stage, Ended
<1> QED BY <1>2, <1>3, <1>4 DEF todo, refs

LEMMA visitStep ==
  ASSUME Shapes, NEW r \in Req, visit(r)
  PROVE  /\ Only(r) /\ GoesOn(r) /\ Same(r, {"todo", "visited", "refs"})
         /\ req[r].pc = "walk"
         /\ \E v \in req[r].todo :
              LET found == Referred(sub[req[r].at][v[2]])
                  next == ({v[1]} \X found.subs) \ req[r].visited
              IN  /\ req'[r].todo = (req[r].todo \ {v}) \cup next
                  /\ req'[r].visited = req[r].visited \cup next
                  /\ req'[r].refs = req[r].refs \cup found.things
<1> DEFINE found(v) == Referred(sub[req[r].at][v[2]])
           next(v) == ({v[1]} \X found(v).subs) \ req[r].visited
<1>1. PICK v \in req[r].todo :
        req' = [req EXCEPT ![r].todo = (@ \ {v}) \cup next(v), ![r].visited = @ \cup next(v),
                          ![r].refs = @ \cup found(v).things]
  BY DEF visit
<1> HIDE DEF found, next
<1>2. /\ Only(r) /\ Same(r, {"todo", "visited", "refs"})
      /\ req'[r].todo = (req[r].todo \ {v}) \cup next(v)
      /\ req'[r].visited = req[r].visited \cup next(v)
      /\ req'[r].refs = req[r].refs \cup found(v).things
  BY <1>1, FieldsAre DEF Shapes, Shape, Same, Only
<1>3. req[r].pc = "walk" /\ req[r].pc \in Admitted
  BY DEF visit, At, Admitted, Stage, Ended
<1>4. GoesOn(r)
  BY <1>2, <1>3, SameGoesOn
<1> QED BY <1>2, <1>3, <1>4 DEF found, next

-----------------------------------------------------------------------------
(* Steps of a handler that only move on, or end the request. *)
MovesOn(r) ==
  /\ req[r].pc \in Admitted
  /\ (\E s \in Admitted : To(r, s)) \/ (\E s \in Ended : Ends(r, s))

LEMMA MovesGoOn ==
  ASSUME Shapes, NEW r \in Req, MovesOn(r)
  PROVE  Only(r) /\ GoesOn(r)
BY ToGoesOn, EndsGoesOn DEF MovesOn

LEMMA AccountSteps ==
  ASSUME NEW r \in Req,
         \/ Answer(r) \/ LoginNotBlocked(r) \/ BindingFails(r) \/ BindingsDone(r)
         \/ LoginWrong(r) \/ LoginRight(r) \/ handleLogin(r) \/ handleLogout(r) \/ EndSessions(r)
         \/ WriteUser(r) \/ handleDeleteUser(r) \/ DeleteBindings(r) \/ Bind(r)
         \/ handleUpdateProject(r) \/ handleDeleteProject(r)
  PROVE  MovesOn(r)
<1> USE DEF MovesOn, Runs, Writes, At, Admitted, Stage, Ended
<1>1. CASE Answer(r) \/ LoginNotBlocked(r) \/ BindingFails(r) \/ BindingsDone(r)
  BY <1>1 DEF Answer, LoginNotBlocked, BindingFails, BindingsDone
<1>2. CASE LoginWrong(r) \/ LoginRight(r) \/ handleLogin(r) \/ handleLogout(r)
  BY <1>2 DEF LoginWrong, LoginRight, handleLogin, handleLogout
<1>3. CASE EndSessions(r) \/ WriteUser(r) \/ handleDeleteUser(r)
  BY <1>3 DEF EndSessions, WriteUser, AfterSessions, handleDeleteUser
<1>4. CASE DeleteBindings(r) \/ Bind(r) \/ handleUpdateProject(r) \/ handleDeleteProject(r)
  BY <1>4 DEF DeleteBindings, Bind, handleUpdateProject, handleDeleteProject
<1> QED BY <1>1, <1>2, <1>3, <1>4

LEMMA ThingSteps ==
  ASSUME NEW r \in Req,
         \/ Unguarded(r) \/ ensureBuiltin(r) \/ NameIsFree(r) \/ ListNodes(r) \/ RegisterNode(r)
         \/ UpdateNode(r) \/ DeleteNode(r) \/ InsertGivenID(r) \/ CreateActivity(r) \/ UpdateActivity(r)
         \/ DeleteActivity(r) \/ SaveTestCase(r) \/ handleDeleteTestCase(r)
         \/ handleSaveEnvConfig(r) \/ handleDeleteEnvConfig(r)
  PROVE  MovesOn(r)
<1> USE DEF MovesOn, Runs, Writes, At, Admitted, Stage, Ended
<1>1. CASE Unguarded(r) \/ ensureBuiltin(r) \/ NameIsFree(r)
  BY <1>1 DEF Unguarded, ensureBuiltin, NameIsFree
<1>2. CASE ListNodes(r) \/ RegisterNode(r) \/ UpdateNode(r) \/ DeleteNode(r)
  BY <1>2 DEF ListNodes, RegisterNode, UpdateNode, DeleteNode
<1>3. CASE InsertGivenID(r) \/ CreateActivity(r) \/ UpdateActivity(r) \/ DeleteActivity(r)
  BY <1>3 DEF InsertGivenID, CreateActivity, UpdateActivity, DeleteActivity
<1>4. CASE \/ SaveTestCase(r) \/ handleDeleteTestCase(r)
           \/ handleSaveEnvConfig(r) \/ handleDeleteEnvConfig(r)
  BY <1>4 DEF SaveTestCase, handleDeleteTestCase, handleSaveEnvConfig, handleDeleteEnvConfig
<1> QED BY <1>1, <1>2, <1>3, <1>4

LEMMA ChainSteps ==
  ASSUME NEW r \in Req,
         \/ SaveMisses(r) \/ HasNoReleases(r) \/ BuildSubChain(r) \/ UpdateSubChainBuild(r)
         \/ handleUpdateSubChain(r) \/ handleDeleteSubChain(r) \/ handleSaveRootChain(r)
         \/ SaveCreates(r) \/ handleCreateRootChain(r) \/ CopyRootChain(r) \/ CopyIsUndone(r)
         \/ handleDeleteRootChain(r) \/ handlePublishRootChain(r) \/ handleSetCurrentRelease(r)
         \/ handleDeleteRootChainRelease(r)
  PROVE  MovesOn(r)
<1> USE DEF MovesOn, Runs, Writes, At, Admitted, Stage, Ended
<1>1. CASE SaveMisses(r) \/ HasNoReleases(r) \/ BuildSubChain(r) \/ UpdateSubChainBuild(r)
  BY <1>1 DEF SaveMisses, HasNoReleases, BuildSubChain, UpdateSubChainBuild
<1>2. CASE \/ handleUpdateSubChain(r) \/ handleDeleteSubChain(r) \/ handleSaveRootChain(r)
           \/ SaveCreates(r) \/ handleCreateRootChain(r)
  BY <1>2 DEF handleUpdateSubChain, handleDeleteSubChain, handleSaveRootChain, SaveCreates,
              handleCreateRootChain
<1>3. CASE CopyRootChain(r) \/ CopyIsUndone(r) \/ handleDeleteRootChain(r)
  BY <1>3 DEF CopyRootChain, CopyIsUndone, handleDeleteRootChain
<1>4. CASE \/ handlePublishRootChain(r) \/ handleSetCurrentRelease(r)
           \/ handleDeleteRootChainRelease(r)
  BY <1>4 DEF handlePublishRootChain, handleSetCurrentRelease, handleDeleteRootChainRelease
<1> QED BY <1>1, <1>2, <1>3, <1>4

(* The checks themselves. *)
Checking(r) ==
  \/ isPublicRequest(r) \/ GetSession(r) \/ NoCookie(r) \/ authMiddleware(r)
  \/ checkProjectAccessForRequest(r) \/ requireAdmin(r) \/ requireProject(r)
  \/ requireProjectAccess(r) \/ (Fail(r) /\ req[r].pc \in {"user", "check"})

LEMMA HandlerSteps ==
  ASSUME Shapes, NEW r \in Req, \A q \in Req : req[q].pc \in Stage,
         Reading(r) \/ Changing(r), ~Checking(r)
  PROVE  Only(r) /\ GoesOn(r)
<1>1. CASE Fail(r)
  <2>1. req[r].pc \in Admitted
    BY <1>1 DEF Checking, Fail, Admitted
  <2>2. "refused" \in Ended /\ Ends(r, "refused")
    BY <1>1 DEF Fail, Ended
  <2> QED BY <2>1, <2>2, EndsGoesOn
<1>2. CASE \/ Answer(r) \/ LoginNotBlocked(r) \/ BindingFails(r) \/ BindingsDone(r)
           \/ LoginWrong(r) \/ LoginRight(r) \/ handleLogin(r) \/ handleLogout(r)
           \/ EndSessions(r) \/ WriteUser(r) \/ handleDeleteUser(r) \/ DeleteBindings(r)
           \/ Bind(r) \/ handleUpdateProject(r) \/ handleDeleteProject(r)
  BY <1>2, AccountSteps, MovesGoOn
<1>3. CASE \/ Unguarded(r) \/ ensureBuiltin(r) \/ NameIsFree(r) \/ ListNodes(r)
           \/ RegisterNode(r) \/ UpdateNode(r) \/ DeleteNode(r) \/ InsertGivenID(r)
           \/ CreateActivity(r) \/ UpdateActivity(r) \/ DeleteActivity(r) \/ SaveTestCase(r)
           \/ handleDeleteTestCase(r) \/ handleSaveEnvConfig(r) \/ handleDeleteEnvConfig(r)
  BY <1>3, ThingSteps, MovesGoOn
<1>4. CASE \/ SaveMisses(r) \/ HasNoReleases(r) \/ BuildSubChain(r) \/ UpdateSubChainBuild(r)
           \/ handleUpdateSubChain(r) \/ handleDeleteSubChain(r) \/ handleSaveRootChain(r)
           \/ SaveCreates(r) \/ handleCreateRootChain(r) \/ CopyRootChain(r)
           \/ CopyIsUndone(r) \/ handleDeleteRootChain(r) \/ handlePublishRootChain(r)
           \/ handleSetCurrentRelease(r) \/ handleDeleteRootChainRelease(r)
  BY <1>4, ChainSteps, MovesGoOn
<1>5. CASE \/ ReadUser(r) \/ handleUpdateUser(r) \/ handleBindUserProject(r) \/ ReadBinding(r)
           \/ handleCreateUser(r) \/ handleCreateProject(r) \/ Unbind(r)
  BY <1>5, ReadUserStep, handleUpdateUserStep, handleBindUserProjectStep, ReadBindingStep,
     handleCreateUserStep, handleCreateProjectStep, UnbindStep
<1>6. CASE \/ CheckNode(r) \/ ReadActivity(r) \/ buildPublishedRefIndex(r) \/ visit(r)
           \/ visitFails(r) \/ NotPublished(r) \/ handleCreateNode(r) \/ InsertActivity(r)
  BY <1>6, CheckNodeStep, ReadActivityStep, buildPublishedRefIndexStep, visitStep, visitFailsStep,
     NotPublishedStep, handleCreateNodeStep, InsertActivityStep
<1>7. CASE \/ NewSub(r) \/ Rebuild(r) \/ AssembleNodes(r) \/ ReadDraft(r) \/ NewCase(r)
           \/ ReadEnv(r) \/ CreateCopy(r)
  BY <1>7, NewSubStep, RebuildStep, AssembleNodesStep, ReadDraftStep, NewCaseStep, ReadEnvStep,
     CreateCopyStep
<1> QED BY <1>1, <1>2, <1>3, <1>4, <1>5, <1>6, <1>7 DEF Reading, Changing, Checking

-----------------------------------------------------------------------------
(* The checks.                                                             *)

LEMMA InputProjects ==
  ASSUME NEW r \in Req, NEW q \in Input[r]
  PROVE  /\ q.query \in Project \cup {Nothing}
         /\ {projectParam(q), bodyProject(q)} \subseteq Project \cup {Nothing}
         /\ q.query = Nothing => projectParam(q) = Nothing
         /\ q.op \notin BodyOps => bodyProject(q) = Nothing
         /\ q.op \in PathOps => q.target \in Project
<1>1. InputOK(q)
  BY InputAssumption
<1> QED BY <1>1, TrimAssumption DEF InputOK, projectParam, bodyProject

(* Where the role of a request that works on a project is looked up. *)
LEMMA ResolvedIsChecked ==
  ASSUME NEW r \in Req, NEW q \in Input[r]
  PROVE  /\ q.op \in QueryOps \cup BodyOps /\ resolveProject(q) # Nothing =>
              /\ resolveProject(q) \in Project
              /\ RoleOf(q, resolveProject(q)) \in Checks(q)
         /\ q.op \in PathOps => RoleOf(q, q.target) \in Checks(q)
<1>1. CASE q.op \in QueryOps \cup BodyOps
  <2>1. ~ isProjectAgnosticPath(q.op) /\ q.op \notin PathOps
    BY <1>1 DEF QueryOps, BodyOps, PathOps, isProjectAgnosticPath, AdminOps, OwnOps
  <2>2. CASE projectParam(q) = Nothing
    BY <1>1, <2>1, <2>2, InputProjects DEF resolveProject, Checks, RoleOf
  <2>3. CASE projectParam(q) # Nothing
    BY <1>1, <2>1, <2>3, InputProjects DEF resolveProject, Checks, RoleOf
  <2> QED BY <2>1, <2>2, <2>3
<1>2. CASE q.op \in PathOps
  <2>1. q.op \notin QueryOps \cup BodyOps
    BY <1>2 DEF QueryOps, BodyOps, PathOps
  <2> QED BY <1>2, <2>1, InputProjects DEF Checks, RoleOf
<1> QED BY <1>1, <1>2

(* Before the session: a public request, or one whose session was found. *)
LEMMA ArrivalStep ==
  ASSUME Shapes, NEW r \in Req, Observe, UNCHANGED session,
         isPublicRequest(r) \/ GetSession(r) \/ NoCookie(r) \/ Fail(r)
  PROVE  Only(r) /\ Gate(r)'
<1>1. CASE NoCookie(r) \/ Fail(r)
  <2>1. "refused" \in Ended /\ Ends(r, "refused")
    BY <1>1 DEF NoCookie, Fail, Ended
  <2> QED BY <2>1, EndsOnly DEF Gate, Under, Ended, Stage
<1>2. CASE isPublicRequest(r)
  <2>1. PICK q \in Input[r] : q.op \in PublicOps /\ Begin(r, q, "run")
    BY <1>2 DEF isPublicRequest
  <2> DEFINE changed == [Blank EXCEPT !.pc = "run", !.in = q, !.who = Nothing]
  <2>2. Shape(changed) /\ changed.pc = "run" /\ changed.in = q
    BY FieldsAre DEF Shape, Blank
  <2>3. req' = [req EXCEPT ![r] = changed]
    BY <2>1 DEF Begin
  <2> HIDE DEF changed
  <2>4. Only(r) /\ req'[r] = changed
    BY <2>2, <2>3, ChangesOnly
  <2>5. req'[r].pc = "run" /\ req'[r].in = q
    BY <2>2, <2>4
  <2> QED BY <2>1, <2>4, <2>5 DEF Gate, Under, Stage
<1>3. CASE GetSession(r)
  <2>1. PICK q \in Input[r] : /\ q.op \notin PublicOps
                              /\ q.token # Nothing /\ session[q.token] \in User
                              /\ Begin(r, q, "user")
    BY <1>3 DEF GetSession
  <2> DEFINE changed == [Blank EXCEPT !.pc = "user", !.in = q, !.who = session[q.token]]
  <2>2. Shape(changed) /\ changed.pc = "user" /\ changed.in = q /\ changed.who = session[q.token]
    BY FieldsAre DEF Shape, Blank
  <2>3. req' = [req EXCEPT ![r] = changed]
    BY <2>1 DEF Begin
  <2> HIDE DEF changed
  <2>4. Only(r) /\ req'[r] = changed
    BY <2>2, <2>3, ChangesOnly
  <2>5. req'[r].pc = "user" /\ req'[r].in = q /\ req'[r].who = session[q.token]
    BY <2>2, <2>4
  <2>6. was'[r].session
    BY <2>1, <2>5, HistorySees
  <2> QED BY <2>1, <2>4, <2>5, <2>6 DEF Gate, Under, Stage, Admitted, Ended
<1> QED BY <1>1, <1>2, <1>3

(* The account, as it is when its row is read. *)
LEMMA AccountStep ==
  ASSUME Shapes, NEW r \in Req, Gate(r), Observe, UNCHANGED account, authMiddleware(r)
  PROVE  Only(r) /\ Gate(r)'
<1> DEFINE changed == [req[r] EXCEPT !.pc = "check", !.admin = account[req[r].who].admin,
              !.checks = IF account[req[r].who].admin THEN {} ELSE Checks(req[r].in)]
<1>1. Shape(req[r]) /\ req[r].pc = "user" /\ Enabled(req[r].who)
  BY DEF Shapes, authMiddleware, At
<1>2. /\ Shape(changed) /\ changed.pc = "check" /\ changed.in = req[r].in
      /\ changed.who = req[r].who /\ changed.admin = account[req[r].who].admin
      /\ ~ changed.admin => changed.checks = Checks(req[r].in)
  BY <1>1, FieldsAre DEF Shape
<1>3. req' = [req EXCEPT ![r] = changed]
  BY DEF authMiddleware
<1> HIDE DEF changed
<1>4. Only(r) /\ req'[r] = changed
  BY <1>2, <1>3, ChangesOnly
<1>5. req'[r].pc = "check" /\ req'[r].in = req[r].in /\ req'[r].who = req[r].who
      /\ req'[r].admin = account[req[r].who].admin
      /\ (~ req'[r].admin => req'[r].checks = Checks(req[r].in))
  BY <1>2, <1>4
<1>6. CASE req[r].in.op \in PublicOps
  BY <1>1, <1>4, <1>5, <1>6 DEF Gate, Under, Stage, Ended
<1>7. CASE req[r].in.op \notin PublicOps
  <2>1. req'[r].who \in User /\ was[r].session
    BY <1>1, <1>5, <1>7 DEF Gate, Under, Ended
  <2>2. Enabled(req[r].who)' /\ account'[req'[r].who].admin = req'[r].admin
    BY <1>1, <1>5 DEF Enabled, LiveUser
  <2>3. was'[r].session /\ was'[r].enabled /\ (req'[r].admin => was'[r].admin)
    BY <2>1, <2>2, HistoryGrows, HistorySees
  <2> QED BY <1>1, <1>4, <1>5, <2>1, <2>3 DEF Gate, Under, Stage, Admitted, Ended
<1> QED BY <1>6, <1>7

(* The role in one project, as it is when its row is read. *)
LEMMA RoleStep ==
  ASSUME Shapes, NEW r \in Req, Gate(r), Observe, UNCHANGED role,
         checkProjectAccessForRequest(r)
  PROVE  Only(r) /\ Gate(r)'
<1>1. PICK p \in req[r].checks :
        /\ role[req[r].who][p] \in (IF isReadRequest(req[r].in.op) THEN Bound ELSE {"editor"})
        /\ req' = [req EXCEPT ![r].checks = @ \ {p}]
  BY DEF checkProjectAccessForRequest
<1> DEFINE changed == [req[r] EXCEPT !.checks = @ \ {p}]
<1>2. Shape(req[r]) /\ req[r].pc = "check"
  BY DEF Shapes, checkProjectAccessForRequest, At
<1>3. /\ Shape(changed) /\ changed.pc = "check" /\ changed.in = req[r].in
      /\ changed.who = req[r].who /\ changed.admin = req[r].admin
      /\ changed.checks = req[r].checks \ {p}
  BY <1>2, FieldsAre DEF Shape
<1>4. req' = [req EXCEPT ![r] = changed]
  BY <1>1
<1> HIDE DEF changed
<1>5. Only(r) /\ req'[r] = changed
  BY <1>3, <1>4, ChangesOnly
<1>6. req'[r].pc = "check" /\ req'[r].in = req[r].in /\ req'[r].who = req[r].who
      /\ req'[r].admin = req[r].admin /\ req'[r].checks = req[r].checks \ {p}
  BY <1>3, <1>5
<1>7. CASE req[r].in.op \in PublicOps
  BY <1>2, <1>5, <1>6, <1>7 DEF Gate, Under, Stage, Ended
<1>8. CASE req[r].in.op \notin PublicOps
  <2>1. req'[r].who \in User /\ was[r].session /\ was[r].enabled /\ (req[r].admin => was[r].admin)
        /\ \A k \in Checks(req[r].in) \ req[r].checks : req[r].admin \/ k \in View(r)
    BY <1>2, <1>6, <1>8 DEF Gate, Under, Ended
  <2>2. was'[r].session /\ was'[r].enabled /\ (req'[r].admin => was'[r].admin)
        /\ View(r) \subseteq View(r)'
    BY <1>6, <2>1, HistoryGrows DEF View, isReadRequest
  <2>3. p \in Project => p \in View(r)'
    <3>1. role'[req'[r].who][p] \in (IF isReadRequest(req[r].in.op) THEN Bound ELSE {"editor"})
      BY <1>1, <1>6
    <3> QED BY <1>6, <2>1, <3>1, HistorySees DEF View, isReadRequest
  <2>4. \A k \in Checks(req'[r].in) \ req'[r].checks : req'[r].admin \/ k \in View(r)'
    BY <1>6, <2>1, <2>2, <2>3 DEF Checks
  <2> QED BY <1>2, <1>5, <1>6, <1>8, <2>1, <2>2, <2>4 DEF Gate, Under, Stage, Admitted, Ended
<1> QED BY <1>7, <1>8

(* All checks passed: every project the request names was seen, and the    *)
(* one it works in is one of them.                                         *)
LEMMA PassStep ==
  ASSUME Shapes, NEW r \in Req, Gate(r), Observe,
         requireAdmin(r) \/ requireProject(r) \/ requireProjectAccess(r)
  PROVE  Only(r) /\ Gate(r)'
<1>1. Shape(req[r]) /\ req[r].pc = "check" /\ req[r].checks = {}
  BY DEF Shapes, requireAdmin, requireProject, requireProjectAccess, At
<1>2. PICK k : req' = [req EXCEPT ![r] = [req[r] EXCEPT !.pc = "run", !.at = k]]
               /\ (req[r].in.op \in InProject => RoleOf(req[r].in, k) \in Checks(req[r].in))
               /\ (req[r].in.op \in AdminOps => req[r].admin)
  <2>1. req[r].in \in Input[r]
    BY <1>1 DEF Gate, Ended
  <2>2. CASE requireAdmin(r)
    <3>1. req' = [req EXCEPT ![r] = [req[r] EXCEPT !.pc = "run", !.at = req[r].at]]
      BY <1>1, <2>2, FieldsAre DEF requireAdmin, To, Shapes, Shape
    <3>2. req[r].in.op \in AdminOps /\ req[r].admin /\ req[r].in.op \notin InProject
      BY <2>2 DEF requireAdmin, AdminOps, InProject, QueryOps, BodyOps, PathOps
    <3> QED BY <3>1, <3>2
  <2>3. CASE requireProject(r)
    <3>1. req[r].in.op \in QueryOps \cup BodyOps /\ resolveProject(req[r].in) # Nothing
          /\ req' = [req EXCEPT ![r] = [req[r] EXCEPT !.pc = "run", !.at = resolveProject(req[r].in)]]
      BY <2>3 DEF requireProject
    <3>2. req[r].in.op \notin AdminOps
      BY <3>1 DEF AdminOps, QueryOps, BodyOps
    <3> QED BY <2>1, <3>1, <3>2, ResolvedIsChecked
  <2>4. CASE requireProjectAccess(r)
    <3>1. req[r].in.op \in PathOps \cup OwnOps
          /\ req' = [req EXCEPT ![r] = [req[r] EXCEPT !.pc = "run", !.at = req[r].in.target]]
      BY <2>4 DEF requireProjectAccess
    <3>2. req[r].in.op \notin AdminOps /\ (req[r].in.op \in InProject => req[r].in.op \in PathOps)
      BY <3>1 DEF AdminOps, InProject, QueryOps, BodyOps, PathOps, OwnOps
    <3> QED BY <2>1, <3>1, <3>2, ResolvedIsChecked
  <2> QED BY <2>2, <2>3, <2>4
<1> DEFINE changed == [req[r] EXCEPT !.pc = "run", !.at = k]
<1>3. Shape(changed) /\ changed.pc = "run" /\ changed.at = k /\ changed.in = req[r].in
      /\ changed.who = req[r].who /\ changed.admin = req[r].admin
  BY <1>1, FieldsAre DEF Shape
<1>4. req' = [req EXCEPT ![r] = changed]
  BY <1>2
<1> HIDE DEF changed
<1>5. Only(r) /\ req'[r] = changed
  BY <1>3, <1>4, ChangesOnly
<1>6. req'[r].pc = "run" /\ req'[r].at = k /\ req'[r].in = req[r].in
      /\ req'[r].who = req[r].who /\ req'[r].admin = req[r].admin
  BY <1>3, <1>5
<1>7. CASE req[r].in.op \in PublicOps
  BY <1>1, <1>5, <1>6, <1>7 DEF Gate, Under, Stage, Ended
<1>8. CASE req[r].in.op \notin PublicOps
  <2>1. req'[r].who \in User /\ was[r].session /\ was[r].enabled /\ (req[r].admin => was[r].admin)
        /\ \A p \in Checks(req[r].in) : req[r].admin \/ p \in View(r)
    BY <1>1, <1>6, <1>8 DEF Gate, Under, Ended
  <2>2. was'[r].session /\ was'[r].enabled /\ (req'[r].admin => was'[r].admin)
        /\ View(r) \subseteq View(r)'
    BY <1>6, <2>1, HistoryGrows DEF View, isReadRequest
  <2>3. req'[r].in.op \in AdminOps => was'[r].admin
    BY <1>2, <1>6, <2>2
  <2>4. req'[r].in.op \in InProject => was'[r].admin \/ RoleIn(r)' \in View(r)'
    BY <1>2, <1>6, <2>1, <2>2 DEF RoleIn
  <2> QED BY <1>1, <1>5, <1>6, <1>8, <2>1, <2>2, <2>3, <2>4 DEF Gate, Under, Stage, Admitted, Ended
<1> QED BY <1>7, <1>8

-----------------------------------------------------------------------------
(* The invariant.                                                          *)

(* What changes a table is past the checks. *)
LEMMA ChangingIsAdmitted ==
  ASSUME NEW r \in Req, Changing(r)
  PROVE  req[r].pc \notin {"idle", "user", "check"}
<1> USE DEF Runs, Writes, At
<1>1. CASE \/ LoginWrong(r) \/ LoginRight(r) \/ handleLogin(r) \/ handleLogout(r)
           \/ EndSessions(r) \/ WriteUser(r) \/ handleCreateUser(r) \/ handleDeleteUser(r)
           \/ DeleteBindings(r) \/ Unbind(r) \/ Bind(r)
  BY <1>1 DEF LoginWrong, LoginRight, handleLogin, handleLogout, EndSessions, WriteUser,
     handleCreateUser, handleDeleteUser, DeleteBindings, Unbind, Bind
<1>2. CASE \/ handleCreateProject(r) \/ handleUpdateProject(r) \/ handleDeleteProject(r)
           \/ ListNodes(r) \/ RegisterNode(r) \/ UpdateNode(r) \/ DeleteNode(r)
           \/ InsertActivity(r) \/ InsertGivenID(r) \/ CreateActivity(r)
           \/ UpdateActivity(r) \/ DeleteActivity(r)
  BY <1>2 DEF handleCreateProject, handleUpdateProject, handleDeleteProject, ListNodes,
     RegisterNode, UpdateNode, DeleteNode, InsertActivity, InsertGivenID, CreateActivity,
     UpdateActivity, DeleteActivity
<1>3. CASE \/ BuildSubChain(r) \/ UpdateSubChainBuild(r) \/ handleUpdateSubChain(r)
           \/ handleDeleteSubChain(r) \/ handleSaveRootChain(r) \/ SaveCreates(r)
           \/ handleCreateRootChain(r) \/ CreateCopy(r) \/ CopyRootChain(r) \/ CopyIsUndone(r)
           \/ handleDeleteRootChain(r)
  BY <1>3 DEF BuildSubChain, UpdateSubChainBuild, handleUpdateSubChain, handleDeleteSubChain,
     handleSaveRootChain, SaveCreates, handleCreateRootChain, CreateCopy, CopyRootChain,
     CopyIsUndone, handleDeleteRootChain
<1>4. CASE \/ handlePublishRootChain(r) \/ handleSetCurrentRelease(r)
           \/ handleDeleteRootChainRelease(r) \/ SaveTestCase(r) \/ handleDeleteTestCase(r)
           \/ handleSaveEnvConfig(r) \/ handleDeleteEnvConfig(r)
  BY <1>4 DEF handlePublishRootChain, handleSetCurrentRelease, handleDeleteRootChainRelease,
     SaveTestCase, handleDeleteTestCase, handleSaveEnvConfig, handleDeleteEnvConfig
<1> QED BY <1>1, <1>2, <1>3, <1>4 DEF Changing

(* A step of a request is one of this request alone, and it keeps its gate. *)
LEMMA RequestStep ==
  ASSUME IInv, NEW r \in Req, Reading(r) \/ Changing(r), Observe
  PROVE  Only(r) /\ Gate(r)'
<1>1. CASE ~ Checking(r)
  <2>1. \A q \in Req : req[q].pc \in Stage
    BY DEF IInv, Gate
  <2>2. Only(r) /\ GoesOn(r)
    BY <1>1, <2>1, HandlerSteps DEF IInv
  <2> QED BY <2>2, GateGoesOn DEF IInv
<1>2. CASE Checking(r) /\ Reading(r)
  <2>1. UNCHANGED <<account, role, session>>
    BY <1>2 DEF Reading, accountVars
  <2>2. CASE \/ isPublicRequest(r) \/ GetSession(r) \/ NoCookie(r) \/ Fail(r)
    BY <2>1, <2>2, ArrivalStep DEF IInv
  <2>3. CASE authMiddleware(r)
    BY <2>1, <2>3, AccountStep DEF IInv
  <2>4. CASE checkProjectAccessForRequest(r)
    BY <2>1, <2>4, RoleStep DEF IInv
  <2>5. CASE requireAdmin(r) \/ requireProject(r) \/ requireProjectAccess(r)
    BY <2>5, PassStep DEF IInv
  <2> QED BY <1>2, <2>2, <2>3, <2>4, <2>5 DEF Checking
<1>3. CASE Checking(r) /\ Changing(r)
  <2>1. req[r].pc \notin {"idle", "user", "check"}
    BY ChangingIsAdmitted, <1>3
  <2>2. FALSE
    BY <1>3, <2>1 DEF Checking, isPublicRequest, GetSession, NoCookie, authMiddleware,
       checkProjectAccessForRequest, requireAdmin, requireProject, requireProjectAccess, At
  <2> QED BY <2>2
<1> QED BY <1>1, <1>2, <1>3

LEMMA NextInv == IInv /\ [Next]_vars => IInv'
<1> SUFFICES ASSUME IInv, [Next]_vars PROVE IInv'
  OBVIOUS
<1>1. ASSUME NEW r \in Req, Reading(r) \/ Changing(r), Observe PROVE IInv'
  <2>1. Only(r) /\ Gate(r)'
    BY <1>1, RequestStep
  <2>2. \A q \in Req \ {r} : Gate(q)'
    BY <1>1, <2>1, GateSame DEF Only, IInv
  <2> QED BY <2>1, <2>2 DEF IInv, Only
<1>2. CASE Later /\ Observe
  <2>1. req' = req
    BY <1>2 DEF Later
  <2>2. \A q \in Req : Gate(q)'
    BY <1>2, <2>1, GateSame DEF IInv
  <2> QED BY <2>1, <2>2 DEF IInv, Shapes, Shape
<1>3. CASE UNCHANGED vars
  BY <1>3 DEF vars, IInv, Shapes, Shape, Gate, Under, View, RoleIn
<1> QED BY <1>1, <1>2, <1>3 DEF Next

LEMMA InitInv == Init => IInv
<1> SUFFICES ASSUME Init PROVE IInv
  OBVIOUS
<1>1. req = [r \in Req |-> Blank] /\ Blank.pc = "idle"
  BY DEF Init, Blank
<1>2. Shapes
  BY <1>1, FieldsAre DEF Shapes
<1>3. \A r \in Req : Gate(r)
  BY <1>1 DEF Gate, Under, Stage
<1> QED BY <1>2, <1>3 DEF IInv

LEMMA GateEntitles ==
  ASSUME NEW r \in Req, Gate(r), Served(r)
  PROVE  Entitled(r)
<1>1. req[r].pc \in Admitted /\ req[r].pc # "user" /\ Under(r)
  BY DEF Served, Admitted, Under
<1>2. /\ was[r].session /\ was[r].enabled
      /\ req[r].in.op \in AdminOps => was[r].admin
      /\ req[r].in.op \in InProject => was[r].admin \/ RoleIn(r) \in View(r)
  BY <1>1 DEF Gate
<1> QED BY <1>2 DEF Entitled, InProject, View

(* The checks a request has passed are never forgotten: IInv.              *)
THEOREM InvHolds == Spec => []IInv
<1> QED BY InitInv, NextInv, PTL DEF Spec

(* Nothing is changed or answered without a session, an enabled account    *)
(* and the role it takes, held at some moment since the request arrived,   *)
(* whatever other requests do meanwhile: a role in the project worked on,  *)
(* or, when the query writes its code with blanks, in the code with them   *)
(* (authMiddleware, resolveProject, projectParam).                         *)
THEOREM NothingUnpermitted == Spec => Permitted
<1>1. IInv /\ [Next]_vars => [\A r \in Req : Served(r) => Entitled(r)]_vars
  BY GateEntitles DEF IInv
<1> QED BY <1>1, InvHolds, PTL DEF Spec, Permitted

-----------------------------------------------------------------------------
(* Types.                                                                  *)

(* The operations that write the content of a chain. *)
ContentOps == {"createSub", "buildSub", "rebuildSub", "saveRoot", "copyRoot", "publish"}

(* Which operations a request may have where it is. *)
Course(x) ==
  /\ x.pc \in Ended \cup {"idle"} => x.who = Nothing
  /\ x.pc \in {"user", "check"} => x.in.op \notin PublicOps
  /\ x.pc = "password" => x.in.op = "login"
  /\ x.pc \in {"guard", "walk"} => x.in.op \in Guarded
  /\ x.pc = "exists" => x.in.op = "updateAct"
  /\ x.pc = "insert" => x.in.op = "createAct"
  /\ x.pc \in {"nodes", "create", "copy"} => x.in.op \in ContentOps
  /\ x.pc \in Admitted /\ x.in.op \in Guarded =>
       x.pc \in {"run", "guard", "walk", "exists", "write"} /\ x.at = projectParam(x.in)

(* What it has in hand there. *)
Holds(x) ==
  /\ x.pc \in Admitted /\ x.in.op \in InProject \cup {"createProject"} => x.at \in Project
  /\ x.pc \in {"nodes", "create", "copy", "write"} /\ x.in.op \in ContentOps => x.content \in Content
  /\ x.pc = "write" /\ x.in.op \in {"updateUser", "changePassword"} => x.row \in Account
  /\ x.pc = "write" /\ x.in.op = "saveCase" => x.key \in Case
  /\ x.pc = "write" /\ x.in.op = "saveEnv" => x.secret \in Secret \cup {Unset}
  /\ x.pc = "bind" => x.cur \in Project \X Given

Kind(r, x) == RequestOK(r, x) /\ Course(x) /\ Holds(x)

TypeInv == TypeOK /\ \A r \in Req : Kind(r, req[r])

(* Everything o refers to is referred to in b. *)
Below(o, b) ==
  /\ \A k \in Chain : o.root[k].things \subseteq b.root[k].things /\ o.root[k].subs \subseteq b.root[k].subs
  /\ \A s \in Sub : o.sub[s].things \subseteq b.sub[s].things /\ o.sub[s].subs \subseteq b.sub[s].subs

LEMMA InputIsOK ==
  ASSUME NEW r \in Req, NEW q \in Input[r]
  PROVE  InputOK(q)
BY InputAssumption

(* A request that has not begun or has ended. *)
LEMMA BlankKind ==
  ASSUME NEW r \in Req, NEW x, x.pc \in Ended \cup {"idle"}, x.in = Nothing, x.who = Nothing,
         x.admin = FALSE, x.at = Nothing, x.row = Nothing, x.binds = {}, x.content = Nothing,
         x.todo = {}, x.visited = {}
  PROVE  Kind(r, x)
<1>1. x.pc \in Stage /\ x.pc \notin Admitted
      /\ x.pc \notin {"user", "check", "password", "guard", "walk", "exists", "insert", "nodes",
                     "create", "copy", "write", "bind"}
  BY DEF Ended, Stage, Admitted
<1>2. RequestOK(r, x)
  BY <1>1 DEF RequestOK
<1>3. Course(x) /\ Holds(x)
  BY <1>1 DEF Course, Holds
<1> QED BY <1>2, <1>3 DEF Kind

LEMMA EndsKind ==
  ASSUME Shapes, NEW r \in Req, NEW s \in Ended, Ends(r, s)
  PROVE  Kind(r, req'[r])
<1> DEFINE x == [Blank EXCEPT !.pc = s]
<1>1. req'[r] = x
  BY DEF Ends, Shapes
<1>2. /\ x.pc = s /\ x.in = Nothing /\ x.who = Nothing /\ x.admin = FALSE /\ x.at = Nothing
      /\ x.row = Nothing /\ x.binds = {} /\ x.content = Nothing /\ x.todo = {} /\ x.visited = {}
  BY DEF Blank
<1> HIDE DEF x
<1> QED BY <1>1, <1>2, BlankKind

(* A step to s that keeps the local variables. *)
LEMMA ToKind ==
  ASSUME Shapes, NEW r \in Req, NEW s \in Admitted, To(r, s), Kind(r, req[r]),
         req[r].pc \in Admitted,
         \/ s \in {"list", "sessions", "binds", "unbindAll"} /\ req[r].in.op \notin Guarded
         \/ s = "password" /\ req[r].in.op = "login"
         \/ s = "exists" /\ req[r].in.op = "updateAct"
         \/ s = "insert" /\ req[r].in.op = "createAct"
         \/ s = "create" /\ req[r].pc = "write" /\ req[r].in.op = "saveRoot"
         \/ s = "write" /\ req[r].in.op \in Guarded \cup {"login", "listNodes", "deleteRoot"}
  PROVE  Kind(r, req'[r])
<1>1. /\ req'[r].pc = s /\ \A f \in Fields \ {"pc"} : req'[r][f] = req[r][f]
  BY ToOnly
<1>2. /\ req'[r].in = req[r].in /\ req'[r].who = req[r].who /\ req'[r].admin = req[r].admin
      /\ req'[r].at = req[r].at /\ req'[r].row = req[r].row /\ req'[r].binds = req[r].binds
      /\ req'[r].content = req[r].content /\ req'[r].todo = req[r].todo
      /\ req'[r].visited = req[r].visited
  BY <1>1, FieldsAre
<1>3. RequestOK(r, req'[r])
  <2>1. s \in Stage
    BY DEF Admitted
  <2> QED BY <1>1, <1>2, <2>1 DEF Kind, RequestOK
<1> QED BY <1>1, <1>2, <1>3 DEF Kind, Course, Holds, Guarded, ContentOps, Ended, Admitted,
     Stage

LEMMA AccountStepsKind ==
  ASSUME Shapes, NEW r \in Req, Kind(r, req[r]),
         \/ Answer(r) \/ LoginNotBlocked(r) \/ BindingFails(r) \/ BindingsDone(r)
         \/ LoginWrong(r) \/ LoginRight(r) \/ handleLogin(r) \/ handleLogout(r) \/ EndSessions(r)
         \/ WriteUser(r) \/ handleDeleteUser(r) \/ DeleteBindings(r) \/ Bind(r)
         \/ handleUpdateProject(r) \/ handleDeleteProject(r)
  PROVE  Kind(r, req'[r])
<1>1. \A s \in Ended : Ends(r, s) => Kind(r, req'[r])
  BY EndsKind
<1>2. "ok" \in Ended /\ "refused" \in Ended
  BY DEF Ended
<1>3. ASSUME To(r, "list") \/ To(r, "sessions") \/ To(r, "binds") \/ To(r, "unbindAll"),
             req[r].pc \in Admitted, req[r].in.op \notin Guarded
      PROVE  Kind(r, req'[r])
  BY <1>3, ToKind DEF Admitted, Stage, Ended
<1>4. CASE LoginNotBlocked(r)
  BY <1>4, ToKind DEF LoginNotBlocked, Runs, At, Asks, Admitted, Stage, Ended
<1>5. CASE LoginRight(r)
  <2>1. req[r].pc \in Admitted /\ req[r].in.op = "login"
    BY <1>5 DEF LoginRight, At, Kind, Course, Admitted, Stage, Ended
  <2>2. "write" \in Admitted
    BY DEF Admitted, Stage, Ended
  <2> QED BY <1>1, <1>2, <1>5, <2>1, <2>2, ToKind DEF LoginRight
<1>6. CASE BindingFails(r) \/ Bind(r) \/ EndSessions(r) \/ WriteUser(r) \/ handleDeleteUser(r)
  <2>1. req[r].pc \in Admitted /\ req[r].in.op \notin Guarded
    BY <1>6 DEF BindingFails, Bind, EndSessions, WriteUser, handleDeleteUser, Runs, Writes, At,
       Asks, Kind, Course, Guarded, Admitted, Stage, Ended
  <2> QED BY <1>1, <1>2, <1>3, <1>6, <2>1 DEF BindingFails, Bind, EndSessions, WriteUser,
       handleDeleteUser, AfterSessions
<1> QED BY <1>1, <1>2, <1>4, <1>5, <1>6 DEF Answer, BindingsDone, LoginWrong, handleLogin,
     handleLogout, DeleteBindings, handleUpdateProject, handleDeleteProject

LEMMA ThingStepsKind ==
  ASSUME Shapes, NEW r \in Req, Kind(r, req[r]),
         \/ Unguarded(r) \/ ensureBuiltin(r) \/ NameIsFree(r) \/ ListNodes(r) \/ RegisterNode(r)
         \/ UpdateNode(r) \/ DeleteNode(r) \/ InsertGivenID(r) \/ CreateActivity(r) \/ UpdateActivity(r)
         \/ DeleteActivity(r) \/ SaveTestCase(r) \/ handleDeleteTestCase(r)
         \/ handleSaveEnvConfig(r) \/ handleDeleteEnvConfig(r)
  PROVE  Kind(r, req'[r])
<1>1. Ends(r, "ok") => Kind(r, req'[r])
  BY EndsKind DEF Ended
<1>2. {"write", "exists", "insert", "run", "guard"} \subseteq Admitted
  BY DEF Admitted, Stage, Ended
<1>3. CASE Unguarded(r)
  <2>1. req[r].pc = "guard" /\ req[r].in.op \in Guarded
    BY <1>3 DEF Unguarded, At, Kind, Course
  <2> QED BY <1>2, <1>3, <2>1, ToKind DEF Unguarded, Asks
<1>4. CASE ensureBuiltin(r)
  BY <1>1, <1>2, <1>4, ToKind DEF ensureBuiltin, Runs, At, Asks
<1>5. CASE NameIsFree(r)
  <2>1. \/ req[r].pc = "run" /\ req[r].in.op = "createAct"
        \/ req[r].pc = "exists" /\ req[r].in.op = "updateAct"
    BY <1>5 DEF NameIsFree, Runs, At, Asks, Kind, Course
  <2>2. req[r].pc \in Admitted /\ "updateAct" \in Guarded
    BY <1>2, <2>1 DEF Admitted, Stage, Ended, Guarded
  <2> QED BY <1>2, <1>5, <2>1, <2>2, ToKind DEF NameIsFree, Asks
<1> QED BY <1>1, <1>3, <1>4, <1>5 DEF ListNodes, RegisterNode, UpdateNode, DeleteNode,
     InsertGivenID, CreateActivity, UpdateActivity, DeleteActivity, SaveTestCase,
     handleDeleteTestCase, handleSaveEnvConfig, handleDeleteEnvConfig

LEMMA ChainStepsKind ==
  ASSUME Shapes, NEW r \in Req, Kind(r, req[r]),
         \/ SaveMisses(r) \/ HasNoReleases(r) \/ BuildSubChain(r) \/ UpdateSubChainBuild(r)
         \/ handleUpdateSubChain(r) \/ handleDeleteSubChain(r) \/ handleSaveRootChain(r)
         \/ SaveCreates(r) \/ handleCreateRootChain(r) \/ CopyRootChain(r) \/ CopyIsUndone(r)
         \/ handleDeleteRootChain(r) \/ handlePublishRootChain(r) \/ handleSetCurrentRelease(r)
         \/ handleDeleteRootChainRelease(r)
  PROVE  Kind(r, req'[r])
<1>1. Ends(r, "ok") \/ Ends(r, "refused") => Kind(r, req'[r])
  BY EndsKind DEF Ended
<1>2. {"write", "create", "run"} \subseteq Admitted
  BY DEF Admitted, Stage, Ended
<1>3. CASE SaveMisses(r)
  BY <1>2, <1>3, ToKind DEF SaveMisses, Writes, At, Asks
<1>4. CASE HasNoReleases(r)
  BY <1>2, <1>4, ToKind DEF HasNoReleases, Runs, At, Asks
<1> QED BY <1>1, <1>3, <1>4 DEF BuildSubChain, UpdateSubChainBuild, handleUpdateSubChain,
     handleDeleteSubChain, handleSaveRootChain, SaveCreates, handleCreateRootChain, CopyRootChain,
     CopyIsUndone, handleDeleteRootChain, handlePublishRootChain, handleSetCurrentRelease,
     handleDeleteRootChainRelease

(* What the tables hold where a request reads them. *)
LEMMA RowsRead ==
  ASSUME TypeOK, NEW p \in Project
  PROVE  /\ \A k : Referred(online[p][k]) \in Content \/ k \notin Chain
         /\ \A s : Referred(sub[p][s]) \in Content \/ s \notin Sub
         /\ \A k \in Chain : draft[p][k] \in Content \cup NoRow
         /\ env[p] \in Secret \cup {Unset, Nothing}
<1>1. NoRefs \in Content
  BY DEF NoRefs, Content
<1>2. \A k \in Chain : online[p][k] \in Content \cup {Nothing}
  BY DEF TypeOK, CatalogueTypeOK
<1>3. \A s \in Sub : sub[p][s] \in Content \cup NoRow
  BY DEF TypeOK, CatalogueTypeOK
<1> QED BY <1>1, <1>2, <1>3 DEF Referred, NoRow, TypeOK, CatalogueTypeOK

(* A step of a handler keeps the types of what it does not assign. *)
LEMMA HandlerOK ==
  ASSUME NEW r \in Req, Kind(r, req[r]), GoesOn(r), NEW F, Same(r, F),
         req'[r].pc \in Admitted,
         "row" \in F => req'[r].row \in Account \cup {Nothing},
         "binds" \in F => req'[r].binds \subseteq Project \X Given,
         "content" \in F => req'[r].content \in Content \cup {Nothing},
         "todo" \in F => req'[r].todo \subseteq Chain \X Sub,
         "visited" \in F => req'[r].visited \subseteq Chain \X Sub
  PROVE  /\ RequestOK(r, req'[r])
         /\ req'[r].in = req[r].in /\ req'[r].at = req[r].at
<1>1. req'[r].pc \in Stage /\ req'[r].pc \notin Ended
  BY DEF Admitted
<1>2. req'[r].in = req[r].in /\ req'[r].who = req[r].who /\ req'[r].admin = req[r].admin
      /\ req'[r].at = req[r].at
  BY <1>1 DEF GoesOn
<1>3. /\ req'[r].row \in Account \cup {Nothing}
      /\ req'[r].binds \subseteq Project \X Given
      /\ req'[r].content \in Content \cup {Nothing}
      /\ req'[r].todo \subseteq Chain \X Sub
      /\ req'[r].visited \subseteq Chain \X Sub
  BY SameFields DEF Kind, RequestOK
<1>4. RequestOK(r, req'[r])
  BY <1>1, <1>2, <1>3 DEF Kind, RequestOK
<1> QED BY <1>2, <1>4

LEMMA ReadUserKind ==
  ASSUME Shapes, TypeOK, NEW r \in Req, Gate(r), Kind(r, req[r]), ReadUser(r)
  PROVE  Kind(r, req'[r])
<1>1. req[r].in \in Input[r] /\ InputOK(req[r].in)
  BY ReadUserStep, InputIsOK DEF Gate, Ended
<1>2. Subject(r) \in User
  BY <1>1, ReadUserStep DEF Subject, InputOK, AdminOps, OwnOps, Gate, Under, PublicOps, Ended
<1>3. req'[r].row \in Account
  <2>1. account[Subject(r)] \in Account
    BY <1>2 DEF TypeOK, AccountsTypeOK
  <2>2. Changed(account[Subject(r)], req[r].in) \in Account
    BY <2>1 DEF Changed, Account
  <2> QED BY <2>2, ReadUserStep
<1>4. /\ RequestOK(r, req'[r])
      /\ req'[r].in = req[r].in /\ req'[r].at = req[r].at
  <2>1. Same(r, {"pc", "row"}) /\ GoesOn(r) /\ req'[r].pc \in Admitted
    BY <1>1, <1>3, ReadUserStep DEF Kind, RequestOK, Admitted, Stage, Ended
  <2> QED BY <1>1, <1>3, <2>1, HandlerOK
<1>5. Course(req'[r])
  BY <1>1, <1>3, <1>4, ReadUserStep DEF Kind, Course, Guarded, ContentOps, Admitted, Stage, Ended
<1>6. Holds(req'[r])
  BY <1>1, <1>3, <1>4, ReadUserStep, SameFields
     DEF Kind, Holds, Guarded, ContentOps, Admitted, Stage, Ended
<1> QED BY <1>4, <1>5, <1>6 DEF Kind

LEMMA handleUpdateUserKind ==
  ASSUME Shapes, TypeOK, NEW r \in Req, Gate(r), Kind(r, req[r]), handleUpdateUser(r)
  PROVE  Kind(r, req'[r])
<1>1. req[r].in \in Input[r] /\ InputOK(req[r].in)
  BY handleUpdateUserStep, InputIsOK DEF Gate, Ended
<1>2. req'[r].binds \subseteq Project \X Given
  BY <1>1, handleUpdateUserStep DEF InputOK
<1>3. /\ RequestOK(r, req'[r])
      /\ req'[r].in = req[r].in /\ req'[r].at = req[r].at
  <2>1. Same(r, {"pc", "binds", "unbinds"}) /\ GoesOn(r) /\ req'[r].pc \in Admitted
    BY <1>1, <1>2, handleUpdateUserStep DEF Kind, RequestOK, Admitted, Stage, Ended
  <2> QED BY <1>1, <1>2, <2>1, HandlerOK
<1>4. Course(req'[r])
  BY <1>1, <1>2, <1>3, handleUpdateUserStep
     DEF Kind, Course, Guarded, ContentOps, Admitted, Stage, Ended
<1>5. Holds(req'[r])
  BY <1>1, <1>2, <1>3, handleUpdateUserStep, SameFields
     DEF Kind, Holds, Guarded, ContentOps, Admitted, Stage, Ended
<1> QED BY <1>3, <1>4, <1>5 DEF Kind

LEMMA handleBindUserProjectKind ==
  ASSUME Shapes, TypeOK, NEW r \in Req, Gate(r), Kind(r, req[r]), handleBindUserProject(r)
  PROVE  Kind(r, req'[r])
<1>1. req[r].in \in Input[r] /\ InputOK(req[r].in)
  BY handleBindUserProjectStep, InputIsOK DEF Gate, Ended
<1>2. req'[r].binds \subseteq Project \X Given
  BY <1>1, handleBindUserProjectStep DEF InputOK
<1>3. /\ RequestOK(r, req'[r])
      /\ req'[r].in = req[r].in /\ req'[r].at = req[r].at
  <2>1. Same(r, {"pc", "binds", "unbinds"}) /\ GoesOn(r) /\ req'[r].pc \in Admitted
    BY <1>1, <1>2, handleBindUserProjectStep DEF Kind, RequestOK, Admitted, Stage, Ended
  <2> QED BY <1>1, <1>2, <2>1, HandlerOK
<1>4. Course(req'[r])
  BY <1>1, <1>2, <1>3, handleBindUserProjectStep
     DEF Kind, Course, Guarded, ContentOps, Admitted, Stage, Ended
<1>5. Holds(req'[r])
  BY <1>1, <1>2, <1>3, handleBindUserProjectStep, SameFields
     DEF Kind, Holds, Guarded, ContentOps, Admitted, Stage, Ended
<1> QED BY <1>3, <1>4, <1>5 DEF Kind

LEMMA handleCreateUserKind ==
  ASSUME Shapes, TypeOK, NEW r \in Req, Gate(r), Kind(r, req[r]), handleCreateUser(r)
  PROVE  Kind(r, req'[r])
<1>1. req[r].in \in Input[r] /\ InputOK(req[r].in)
  BY handleCreateUserStep, InputIsOK DEF Gate, Ended
<1>2. req'[r].binds \subseteq Project \X Given
  BY <1>1, handleCreateUserStep DEF InputOK
<1>3. /\ RequestOK(r, req'[r])
      /\ req'[r].in = req[r].in /\ req'[r].at = req[r].at
  <2>1. Same(r, {"pc", "binds"}) /\ GoesOn(r) /\ req'[r].pc \in Admitted
    BY <1>1, <1>2, handleCreateUserStep DEF Kind, RequestOK, Admitted, Stage, Ended
  <2> QED BY <1>1, <1>2, <2>1, HandlerOK
<1>4. Course(req'[r])
  BY <1>1, <1>2, <1>3, handleCreateUserStep
     DEF Kind, Course, Guarded, ContentOps, Admitted, Stage, Ended
<1>5. Holds(req'[r])
  BY <1>1, <1>2, <1>3, handleCreateUserStep, SameFields
     DEF Kind, Holds, Guarded, ContentOps, Admitted, Stage, Ended
<1> QED BY <1>3, <1>4, <1>5 DEF Kind

LEMMA handleCreateProjectKind ==
  ASSUME Shapes, TypeOK, NEW r \in Req, Gate(r), Kind(r, req[r]), handleCreateProject(r)
  PROVE  Kind(r, req'[r])
<1>1. req'[r].binds \subseteq Project \X Given
  <2>1. req[r].at \in Project
    BY handleCreateProjectStep DEF Kind, Holds, Admitted, Stage, Ended
  <2>2. <<req[r].at, "editor">> \in Project \X Given
    BY <2>1 DEF Given
  <2> QED BY <2>2, handleCreateProjectStep
<1>2. /\ RequestOK(r, req'[r])
      /\ req'[r].in = req[r].in /\ req'[r].at = req[r].at
  <2>1. Same(r, {"pc", "binds"}) /\ GoesOn(r) /\ req'[r].pc \in Admitted
    BY <1>1, handleCreateProjectStep DEF Kind, RequestOK, Admitted, Stage, Ended
  <2> QED BY <1>1, <2>1, HandlerOK
<1>3. Course(req'[r])
  BY <1>1, <1>2, handleCreateProjectStep
     DEF Kind, Course, Guarded, ContentOps, Admitted, Stage, Ended
<1>4. Holds(req'[r])
  BY <1>1, <1>2, handleCreateProjectStep, SameFields
     DEF Kind, Holds, Guarded, ContentOps, Admitted, Stage, Ended
<1> QED BY <1>2, <1>3, <1>4 DEF Kind

LEMMA ReadBindingKind ==
  ASSUME Shapes, TypeOK, NEW r \in Req, Gate(r), Kind(r, req[r]), ReadBinding(r)
  PROVE  Kind(r, req'[r])
<1>1. req[r].binds \subseteq Project \X Given
  BY DEF Kind, RequestOK
<1>2. req'[r].binds \subseteq Project \X Given /\ req'[r].cur \in Project \X Given
  BY <1>1, ReadBindingStep
<1>3. /\ RequestOK(r, req'[r])
      /\ req'[r].in = req[r].in /\ req'[r].at = req[r].at
  <2>1. Same(r, {"pc", "cur", "binds", "seen"}) /\ GoesOn(r) /\ req'[r].pc \in Admitted
    BY <1>2, ReadBindingStep DEF Kind, RequestOK, Admitted, Stage, Ended
  <2> QED BY <1>2, <2>1, HandlerOK
<1>4. Course(req'[r])
  BY <1>2, <1>3, ReadBindingStep DEF Kind, Course, Guarded, ContentOps, Admitted, Stage, Ended
<1>5. Holds(req'[r])
  BY <1>2, <1>3, ReadBindingStep, SameFields
     DEF Kind, Holds, Guarded, ContentOps, Admitted, Stage, Ended
<1> QED BY <1>3, <1>4, <1>5 DEF Kind

LEMMA UnbindKind ==
  ASSUME Shapes, TypeOK, NEW r \in Req, Gate(r), Kind(r, req[r]), Unbind(r)
  PROVE  Kind(r, req'[r])
<1>1. req'[r].pc = "binds"
  BY UnbindStep, SameFields
<1>2. /\ RequestOK(r, req'[r])
      /\ req'[r].in = req[r].in /\ req'[r].at = req[r].at
  <2>1. Same(r, {"unbinds"}) /\ GoesOn(r) /\ req'[r].pc \in Admitted
    BY <1>1, UnbindStep DEF Kind, RequestOK, Admitted, Stage, Ended
  <2> QED BY <1>1, <2>1, HandlerOK
<1>3. Course(req'[r])
  BY <1>1, <1>2, UnbindStep DEF Kind, Course, Guarded, ContentOps, Admitted, Stage, Ended
<1>4. Holds(req'[r])
  BY <1>1, <1>2, UnbindStep, SameFields DEF Kind, Holds, Guarded, ContentOps, Admitted, Stage, Ended
<1> QED BY <1>2, <1>3, <1>4 DEF Kind

LEMMA CheckNodeKind ==
  ASSUME Shapes, TypeOK, NEW r \in Req, Gate(r), Kind(r, req[r]), CheckNode(r)
  PROVE  Kind(r, req'[r])
<1>1. /\ RequestOK(r, req'[r])
      /\ req'[r].in = req[r].in /\ req'[r].at = req[r].at
  <2>1. Same(r, {"pc", "names"}) /\ GoesOn(r) /\ req'[r].pc \in Admitted
    BY CheckNodeStep, SameFields DEF Admitted, Stage, Ended
  <2> QED BY <2>1, HandlerOK
<1>2. Course(req'[r])
  BY <1>1, CheckNodeStep, SameFields DEF Kind, Course, Guarded, ContentOps, Admitted, Stage, Ended
<1>3. Holds(req'[r])
  BY <1>1, CheckNodeStep, SameFields DEF Kind, Holds, Guarded, ContentOps, Admitted, Stage, Ended
<1> QED BY <1>1, <1>2, <1>3 DEF Kind

LEMMA ReadActivityKind ==
  ASSUME Shapes, TypeOK, NEW r \in Req, Gate(r), Kind(r, req[r]), ReadActivity(r)
  PROVE  Kind(r, req'[r])
<1>1. /\ RequestOK(r, req'[r])
      /\ req'[r].in = req[r].in /\ req'[r].at = req[r].at
  <2>1. Same(r, {"pc", "name", "names"}) /\ GoesOn(r) /\ req'[r].pc \in Admitted
    BY ReadActivityStep, SameFields DEF Admitted, Stage, Ended
  <2> QED BY <2>1, HandlerOK
<1>2. Course(req'[r])
  BY <1>1, ReadActivityStep, SameFields
     DEF Kind, Course, Guarded, ContentOps, Admitted, Stage, Ended
<1>3. Holds(req'[r])
  BY <1>1, ReadActivityStep, SameFields DEF Kind, Holds, Guarded, ContentOps, Admitted, Stage, Ended
<1> QED BY <1>1, <1>2, <1>3 DEF Kind

LEMMA visitFailsKind ==
  ASSUME Shapes, TypeOK, NEW r \in Req, Gate(r), Kind(r, req[r]), visitFails(r)
  PROVE  Kind(r, req'[r])
<1>1. req'[r].todo \subseteq Chain \X Sub
  BY visitFailsStep DEF Kind, RequestOK
<1>2. req'[r].pc = "walk" /\ req[r].pc = "walk"
  <2>1. Same(r, {"todo", "missed"}) /\ req[r].pc = "walk"
    BY visitFailsStep
  <2> QED BY <2>1, SameFields
<1>3. /\ RequestOK(r, req'[r])
      /\ req'[r].in = req[r].in /\ req'[r].at = req[r].at
  <2>1. Same(r, {"todo", "missed"}) /\ GoesOn(r) /\ req'[r].pc \in Admitted
    BY <1>1, <1>2, visitFailsStep, SameFields DEF Admitted, Stage, Ended
  <2> QED BY <1>1, <1>2, <2>1, HandlerOK
<1>4. Course(req'[r])
  BY <1>1, <1>2, <1>3, visitFailsStep, SameFields
     DEF Kind, Course, Guarded, ContentOps, Admitted, Stage, Ended
<1>5. Holds(req'[r])
  BY <1>1, <1>2, <1>3, visitFailsStep, SameFields
     DEF Kind, Holds, Guarded, ContentOps, Admitted, Stage, Ended
<1> QED BY <1>3, <1>4, <1>5 DEF Kind

LEMMA NotPublishedKind ==
  ASSUME Shapes, TypeOK, NEW r \in Req, Gate(r), Kind(r, req[r]), NotPublished(r)
  PROVE  Kind(r, req'[r])
<1>1. req'[r].visited \subseteq Chain \X Sub
  BY NotPublishedStep
<1>2. /\ RequestOK(r, req'[r])
      /\ req'[r].in = req[r].in /\ req'[r].at = req[r].at
  <2>1. Same(r, {"pc", "names", "thing", "refs", "visited"}) /\ GoesOn(r) /\ req'[r].pc \in Admitted
    BY <1>1, NotPublishedStep, SameFields DEF Admitted, Stage, Ended
  <2> QED BY <1>1, <2>1, HandlerOK
<1>3. Course(req'[r])
  BY <1>1, <1>2, NotPublishedStep, SameFields
     DEF Kind, Course, Guarded, ContentOps, Admitted, Stage, Ended
<1>4. Holds(req'[r])
  BY <1>1, <1>2, NotPublishedStep, SameFields
     DEF Kind, Holds, Guarded, ContentOps, Admitted, Stage, Ended
<1> QED BY <1>2, <1>3, <1>4 DEF Kind

LEMMA buildPublishedRefIndexKind ==
  ASSUME Shapes, TypeOK, NEW r \in Req, Gate(r), Kind(r, req[r]), buildPublishedRefIndex(r)
  PROVE  Kind(r, req'[r])
<1>1. req'[r].todo \subseteq Chain \X Sub /\ req'[r].visited \subseteq Chain \X Sub
  BY buildPublishedRefIndexStep
<1>2. req'[r].pc = "walk" /\ req[r].pc = "guard"
  BY buildPublishedRefIndexStep
<1>3. /\ RequestOK(r, req'[r])
      /\ req'[r].in = req[r].in /\ req'[r].at = req[r].at
  <2>1. Same(r, {"pc", "thing", "refs", "todo", "visited"}) /\ GoesOn(r) /\ req'[r].pc \in Admitted
    BY <1>1, <1>2, buildPublishedRefIndexStep, SameFields DEF Admitted, Stage, Ended
  <2> QED BY <1>1, <1>2, <2>1, HandlerOK
<1>4. Course(req'[r])
  BY <1>1, <1>2, <1>3, buildPublishedRefIndexStep, SameFields
     DEF Kind, Course, Guarded, ContentOps, Admitted, Stage, Ended
<1>5. Holds(req'[r])
  BY <1>1, <1>2, <1>3, buildPublishedRefIndexStep, SameFields
     DEF Kind, Holds, Guarded, ContentOps, Admitted, Stage, Ended
<1> QED BY <1>3, <1>4, <1>5 DEF Kind

LEMMA visitKind ==
  ASSUME Shapes, TypeOK, NEW r \in Req, Gate(r), Kind(r, req[r]), visit(r)
  PROVE  Kind(r, req'[r])
<1>1. req[r].at \in Project
  BY visitStep DEF Kind, Course, Holds, InProject, QueryOps, Guarded, Admitted, Stage, Ended
<1>2. req'[r].todo \subseteq Chain \X Sub /\ req'[r].visited \subseteq Chain \X Sub
  <2>1. PICK v \in req[r].todo :
          LET found == Referred(sub[req[r].at][v[2]])
              next == ({v[1]} \X found.subs) \ req[r].visited
          IN  /\ req'[r].todo = (req[r].todo \ {v}) \cup next
              /\ req'[r].visited = req[r].visited \cup next
    BY visitStep
  <2>2. req[r].todo \subseteq Chain \X Sub /\ req[r].visited \subseteq Chain \X Sub
    BY DEF Kind, RequestOK
  <2>3. v[1] \in Chain /\ v[2] \in Sub
    BY <2>1, <2>2
  <2>4. Referred(sub[req[r].at][v[2]]).subs \subseteq Sub
    BY <1>1, <2>3, RowsRead DEF Content
  <2>5. {v[1]} \X Referred(sub[req[r].at][v[2]]).subs \subseteq Chain \X Sub
    BY <2>3, <2>4
  <2> QED BY <2>1, <2>2, <2>5
<1>3. req'[r].pc = "walk" /\ req[r].pc = "walk"
  BY visitStep, SameFields
<1>4. /\ RequestOK(r, req'[r])
      /\ req'[r].in = req[r].in /\ req'[r].at = req[r].at
  <2>1. Same(r, {"todo", "visited", "refs"}) /\ GoesOn(r) /\ req'[r].pc \in Admitted
    BY <1>2, <1>3, visitStep, SameFields DEF Admitted, Stage, Ended
  <2> QED BY <1>2, <1>3, <2>1, HandlerOK
<1>5. Course(req'[r])
  BY <1>2, <1>3, <1>4, visitStep, SameFields
     DEF Kind, Course, Guarded, ContentOps, Admitted, Stage, Ended
<1>6. Holds(req'[r])
  BY <1>2, <1>3, <1>4, visitStep, SameFields
     DEF Kind, Holds, Guarded, ContentOps, Admitted, Stage, Ended
<1> QED BY <1>4, <1>5, <1>6 DEF Kind

LEMMA handleCreateNodeKind ==
  ASSUME Shapes, TypeOK, NEW r \in Req, Gate(r), Kind(r, req[r]), handleCreateNode(r)
  PROVE  Kind(r, req'[r])
<1>1. /\ RequestOK(r, req'[r])
      /\ req'[r].in = req[r].in /\ req'[r].at = req[r].at
  <2>1. Same(r, {"pc", "key"}) /\ GoesOn(r) /\ req'[r].pc \in Admitted
    BY handleCreateNodeStep, SameFields DEF Admitted, Stage, Ended
  <2> QED BY <2>1, HandlerOK
<1>2. Course(req'[r])
  BY <1>1, handleCreateNodeStep, SameFields
     DEF Kind, Course, Guarded, ContentOps, Admitted, Stage, Ended
<1>3. Holds(req'[r])
  BY <1>1, handleCreateNodeStep, SameFields
     DEF Kind, Holds, Guarded, ContentOps, Admitted, Stage, Ended
<1> QED BY <1>1, <1>2, <1>3 DEF Kind

LEMMA NewSubKind ==
  ASSUME Shapes, TypeOK, NEW r \in Req, Gate(r), Kind(r, req[r]), NewSub(r)
  PROVE  Kind(r, req'[r])
<1>1. req[r].in \in Input[r] /\ InputOK(req[r].in)
  BY NewSubStep, InputIsOK DEF Gate, Ended
<1>2. req'[r].content \in Content
  BY <1>1, NewSubStep DEF InputOK
<1>3. /\ RequestOK(r, req'[r])
      /\ req'[r].in = req[r].in /\ req'[r].at = req[r].at
  <2>1. Same(r, {"pc", "key", "content"}) /\ GoesOn(r) /\ req'[r].pc \in Admitted
    BY <1>1, <1>2, NewSubStep, SameFields DEF Admitted, Stage, Ended
  <2> QED BY <1>1, <1>2, <2>1, HandlerOK
<1>4. Course(req'[r])
  BY <1>1, <1>2, <1>3, NewSubStep, SameFields
     DEF Kind, Course, Guarded, ContentOps, Admitted, Stage, Ended
<1>5. Holds(req'[r])
  BY <1>1, <1>2, <1>3, NewSubStep, SameFields
     DEF Kind, Holds, Guarded, ContentOps, Admitted, Stage, Ended
<1> QED BY <1>3, <1>4, <1>5 DEF Kind

LEMMA RebuildKind ==
  ASSUME Shapes, TypeOK, NEW r \in Req, Gate(r), Kind(r, req[r]), Rebuild(r)
  PROVE  Kind(r, req'[r])
<1>1. req[r].in \in Input[r] /\ InputOK(req[r].in)
  BY RebuildStep, InputIsOK DEF Gate, Ended
<1>2. req'[r].content \in Content
  BY <1>1, RebuildStep DEF InputOK
<1>3. /\ RequestOK(r, req'[r])
      /\ req'[r].in = req[r].in /\ req'[r].at = req[r].at
  <2>1. Same(r, {"pc", "content"}) /\ GoesOn(r) /\ req'[r].pc \in Admitted
    BY <1>1, <1>2, RebuildStep, SameFields DEF Admitted, Stage, Ended
  <2> QED BY <1>1, <1>2, <2>1, HandlerOK
<1>4. Course(req'[r])
  BY <1>1, <1>2, <1>3, RebuildStep, SameFields
     DEF Kind, Course, Guarded, ContentOps, Admitted, Stage, Ended
<1>5. Holds(req'[r])
  BY <1>1, <1>2, <1>3, RebuildStep, SameFields
     DEF Kind, Holds, Guarded, ContentOps, Admitted, Stage, Ended
<1> QED BY <1>3, <1>4, <1>5 DEF Kind

LEMMA AssembleNodesKind ==
  ASSUME Shapes, TypeOK, NEW r \in Req, Gate(r), Kind(r, req[r]), AssembleNodes(r)
  PROVE  Kind(r, req'[r])
<1>1. req[r].content \in Content /\ req[r].in.op \in ContentOps
  BY AssembleNodesStep DEF Kind, Course, Holds
<1>2. req'[r].content \in Content
  <2>1. LiveNodes(req[r].at, req[r].content) \in Content
    BY <1>1 DEF LiveNodes, Content
  <2> QED BY <2>1, AssembleNodesStep
<1>3. /\ RequestOK(r, req'[r])
      /\ req'[r].in = req[r].in /\ req'[r].at = req[r].at
  <2>1. Same(r, {"pc", "content"}) /\ GoesOn(r) /\ req'[r].pc \in Admitted
    BY <1>1, <1>2, AssembleNodesStep, SameFields DEF Admitted, Stage, Ended
  <2> QED BY <1>1, <1>2, <2>1, HandlerOK
<1>4. Course(req'[r])
  BY <1>1, <1>2, <1>3, AssembleNodesStep, SameFields
     DEF Kind, Course, Guarded, ContentOps, Admitted, Stage, Ended
<1>5. Holds(req'[r])
  BY <1>1, <1>2, <1>3, AssembleNodesStep, SameFields
     DEF Kind, Holds, Guarded, ContentOps, Admitted, Stage, Ended
<1> QED BY <1>3, <1>4, <1>5 DEF Kind

LEMMA ReadDraftKind ==
  ASSUME Shapes, TypeOK, NEW r \in Req, Gate(r), Kind(r, req[r]), ReadDraft(r)
  PROVE  Kind(r, req'[r])
<1>1. req[r].in \in Input[r] /\ InputOK(req[r].in)
  BY ReadDraftStep, InputIsOK DEF Gate, Ended
<1>2. req'[r].content \in Content
  <2>1. req[r].at \in Project
    BY ReadDraftStep DEF Kind, Holds, InProject, QueryOps, Admitted, Stage, Ended
  <2>2. req[r].in.target \in Chain
    BY <1>1, ReadDraftStep DEF InputOK
  <2>3. draft[req[r].at][req[r].in.target] \in Content \cup NoRow
    BY <2>1, <2>2, RowsRead
  <2> QED BY <2>3, ReadDraftStep
<1>3. req'[r].pc \in {"write", "copy"}
  BY ReadDraftStep
<1>4. /\ RequestOK(r, req'[r])
      /\ req'[r].in = req[r].in /\ req'[r].at = req[r].at
  <2>1. Same(r, {"pc", "content"}) /\ GoesOn(r) /\ req'[r].pc \in Admitted
    BY <1>1, <1>2, <1>3, ReadDraftStep, SameFields DEF Admitted, Stage, Ended
  <2> QED BY <1>1, <1>2, <1>3, <2>1, HandlerOK
<1>5. Course(req'[r])
  BY <1>1, <1>2, <1>3, <1>4, ReadDraftStep, SameFields
     DEF Kind, Course, Guarded, ContentOps, Admitted, Stage, Ended
<1>6. Holds(req'[r])
  BY <1>1, <1>2, <1>3, <1>4, ReadDraftStep, SameFields
     DEF Kind, Holds, Guarded, ContentOps, Admitted, Stage, Ended
<1> QED BY <1>4, <1>5, <1>6 DEF Kind

LEMMA NewCaseKind ==
  ASSUME Shapes, TypeOK, NEW r \in Req, Gate(r), Kind(r, req[r]), NewCase(r)
  PROVE  Kind(r, req'[r])
<1>1. /\ RequestOK(r, req'[r])
      /\ req'[r].in = req[r].in /\ req'[r].at = req[r].at
  <2>1. Same(r, {"pc", "key"}) /\ GoesOn(r) /\ req'[r].pc \in Admitted
    BY NewCaseStep, SameFields DEF Admitted, Stage, Ended
  <2> QED BY <2>1, HandlerOK
<1>2. Course(req'[r])
  BY <1>1, NewCaseStep, SameFields DEF Kind, Course, Guarded, ContentOps, Admitted, Stage, Ended
<1>3. Holds(req'[r])
  BY <1>1, NewCaseStep, SameFields DEF Kind, Holds, Guarded, ContentOps, Admitted, Stage, Ended
<1> QED BY <1>1, <1>2, <1>3 DEF Kind

LEMMA ReadEnvKind ==
  ASSUME Shapes, TypeOK, NEW r \in Req, Gate(r), Kind(r, req[r]), ReadEnv(r)
  PROVE  Kind(r, req'[r])
<1>1. req'[r].secret \in Secret \cup {Unset}
  <2>1. req[r].at \in Project
    BY ReadEnvStep DEF Kind, Holds, InProject, BodyOps, Admitted, Stage, Ended
  <2>2. env[req[r].at] \in Secret \cup {Unset, Nothing}
    BY <2>1, RowsRead
  <2> QED BY <2>2, ReadEnvStep DEF RestoreMaskedSecrets
<1>2. /\ RequestOK(r, req'[r])
      /\ req'[r].in = req[r].in /\ req'[r].at = req[r].at
  <2>1. Same(r, {"pc", "secret"}) /\ GoesOn(r) /\ req'[r].pc \in Admitted
    BY <1>1, ReadEnvStep, SameFields DEF Admitted, Stage, Ended
  <2> QED BY <1>1, <2>1, HandlerOK
<1>3. Course(req'[r])
  BY <1>1, <1>2, ReadEnvStep, SameFields
     DEF Kind, Course, Guarded, ContentOps, Admitted, Stage, Ended
<1>4. Holds(req'[r])
  BY <1>1, <1>2, ReadEnvStep, SameFields
     DEF Kind, Holds, Guarded, ContentOps, Admitted, Stage, Ended
<1> QED BY <1>2, <1>3, <1>4 DEF Kind

LEMMA InsertActivityKind ==
  ASSUME Shapes, TypeOK, NEW r \in Req, Gate(r), Kind(r, req[r]), InsertActivity(r)
  PROVE  Kind(r, req'[r])
<1>1. req[r].in.op = "createAct"
  BY InsertActivityStep DEF Kind, Course
<1>2. /\ RequestOK(r, req'[r])
      /\ req'[r].in = req[r].in /\ req'[r].at = req[r].at
  <2>1. Same(r, {"pc", "key"}) /\ GoesOn(r) /\ req'[r].pc \in Admitted
    BY <1>1, InsertActivityStep, SameFields DEF Admitted, Stage, Ended
  <2> QED BY <1>1, <2>1, HandlerOK
<1>3. Course(req'[r])
  BY <1>1, <1>2, InsertActivityStep, SameFields
     DEF Kind, Course, Guarded, ContentOps, Admitted, Stage, Ended
<1>4. Holds(req'[r])
  BY <1>1, <1>2, InsertActivityStep, SameFields
     DEF Kind, Holds, Guarded, ContentOps, Admitted, Stage, Ended
<1> QED BY <1>2, <1>3, <1>4 DEF Kind

LEMMA CreateCopyKind ==
  ASSUME Shapes, TypeOK, NEW r \in Req, Gate(r), Kind(r, req[r]), CreateCopy(r)
  PROVE  Kind(r, req'[r])
<1>1. req[r].content \in Content /\ req[r].in.op \in ContentOps
  BY CreateCopyStep DEF Kind, Course, Holds
<1>2. /\ RequestOK(r, req'[r])
      /\ req'[r].in = req[r].in /\ req'[r].at = req[r].at
  <2>1. Same(r, {"pc", "key"}) /\ GoesOn(r) /\ req'[r].pc \in Admitted
    BY <1>1, CreateCopyStep, SameFields DEF Admitted, Stage, Ended
  <2> QED BY <1>1, <2>1, HandlerOK
<1>3. Course(req'[r])
  BY <1>1, <1>2, CreateCopyStep, SameFields
     DEF Kind, Course, Guarded, ContentOps, Admitted, Stage, Ended
<1>4. Holds(req'[r])
  BY <1>1, <1>2, CreateCopyStep, SameFields
     DEF Kind, Holds, Guarded, ContentOps, Admitted, Stage, Ended
<1> QED BY <1>2, <1>3, <1>4 DEF Kind

(* The checks before a handler. *)
LEMMA ChecksKind ==
  ASSUME Shapes, TypeOK, NEW r \in Req, Gate(r), Kind(r, req[r]), Checking(r)
  PROVE  Kind(r, req'[r])
<1>1. CASE NoCookie(r) \/ Fail(r)
  BY <1>1, EndsKind DEF NoCookie, Fail, Ended
<1>2. CASE isPublicRequest(r) \/ GetSession(r)
  <2>1. PICK q \in Input[r], s \in {"run", "user"} :
          /\ Begin(r, q, s)
          /\ s = "run" => q.op \in PublicOps
          /\ s = "user" => q.op \notin PublicOps /\ session[q.token] \in User
    BY <1>2 DEF isPublicRequest, GetSession
  <2> DEFINE x == [Blank EXCEPT !.pc = s, !.in = q,
                     !.who = IF s = "user" THEN session[q.token] ELSE Nothing]
  <2>2. req'[r] = x
    BY <2>1 DEF Begin, Shapes
  <2>3. /\ x.pc = s /\ x.in = q /\ x.admin = FALSE /\ x.at = Nothing
        /\ x.row = Nothing /\ x.binds = {} /\ x.content = Nothing /\ x.todo = {} /\ x.visited = {}
        /\ x.who = IF s = "user" THEN session[q.token] ELSE Nothing
    BY DEF Blank
  <2> HIDE DEF x
  <2>4. RequestOK(r, x)
    BY <2>1, <2>3 DEF RequestOK, Stage
  <2>5. Course(x)
    BY <2>1, <2>3 DEF Course, PublicOps, Guarded, Ended, Admitted
  <2>6. Holds(x)
    BY <2>1, <2>3 DEF Holds, PublicOps, InProject, QueryOps, BodyOps, PathOps, Admitted
  <2> QED BY <2>2, <2>4, <2>5, <2>6 DEF Kind
<1>3. CASE authMiddleware(r)
  <2>1. req[r].who \in User
    BY <1>3 DEF authMiddleware, At, Kind, Course, Gate, Under, Ended
  <2>2. account[req[r].who].admin \in BOOLEAN
    BY <2>1 DEF TypeOK, AccountsTypeOK, Account
  <2>3. Same(r, {"pc", "admin", "checks"}) /\ req'[r].pc = "check" /\ req[r].pc = "user"
        /\ req'[r].admin = account[req[r].who].admin
    BY <1>3, FieldsAre DEF Shapes, Shape, Same, authMiddleware, At
  <2> QED BY <2>2, <2>3, SameFields
    DEF Kind, RequestOK, Course, Holds, Admitted, Stage, Ended
<1>4. CASE checkProjectAccessForRequest(r)
  <2>1. PICK p : req' = [req EXCEPT ![r].checks = @ \ {p}]
    BY <1>4 DEF checkProjectAccessForRequest
  <2>2. Same(r, {"checks"})
    BY <2>1, FieldsAre DEF Shapes, Shape, Same
  <2>3. req'[r].pc = "check" /\ req[r].pc = "check"
    BY <1>4, <2>2, SameFields DEF checkProjectAccessForRequest, At
  <2> QED BY <2>2, <2>3, SameFields
    DEF Kind, RequestOK, Course, Holds, Admitted, Stage, Ended
<1>5. CASE requireAdmin(r) \/ requireProject(r) \/ requireProjectAccess(r)
  <2>1. req[r].pc = "check" /\ req[r].in \in Input[r] /\ InputOK(req[r].in)
    BY <1>5, InputIsOK DEF requireAdmin, requireProject, requireProjectAccess, At, Gate, Ended
  <2>2. PICK k : /\ Same(r, {"pc", "at"}) /\ req'[r].pc = "run" /\ req'[r].at = k
                 /\ k \in Project \cup {Nothing}
                 /\ req[r].in.op \in InProject \cup {"createProject"} => k \in Project
                 /\ req[r].in.op \in Guarded => k = projectParam(req[r].in)
    <3>1. CASE requireAdmin(r)
      <4>1. Same(r, {"pc"}) /\ req'[r].pc = "run"
        BY <3>1, ToOnly DEF requireAdmin, Same
      <4>2. req[r].in.op \notin InProject \cup {"createProject"} /\ req[r].in.op \notin Guarded
        BY <3>1 DEF requireAdmin, AdminOps, InProject, QueryOps, BodyOps, PathOps, Guarded
      <4>3. req[r].at \in Project \cup {Nothing} /\ req'[r].at = req[r].at
        BY <4>1, SameFields DEF Kind, RequestOK
      <4> QED BY <4>1, <4>2, <4>3 DEF Same
    <3>2. CASE requireProject(r)
      <4> DEFINE k == resolveProject(req[r].in)
      <4>1. k # Nothing /\ req[r].in.op \in QueryOps \cup BodyOps
            /\ req' = [req EXCEPT ![r].pc = "run", ![r].at = k]
        BY <3>2 DEF requireProject
      <4>2. k \in Project
        BY <2>1, <4>1, ResolvedIsChecked
      <4>3. req[r].in.op \in Guarded => k = projectParam(req[r].in)
        BY <2>1, <4>1, InputProjects DEF resolveProject, Guarded, BodyOps
      <4> HIDE DEF k
      <4>4. Same(r, {"pc", "at"}) /\ req'[r].pc = "run" /\ req'[r].at = k
        BY <4>1, FieldsAre DEF Shapes, Shape, Same
      <4> QED BY <4>2, <4>3, <4>4
    <3>3. CASE requireProjectAccess(r)
      <4>1. req[r].in.op \in PathOps \cup OwnOps
            /\ req' = [req EXCEPT ![r].pc = "run", ![r].at = req[r].in.target]
        BY <3>3 DEF requireProjectAccess
      <4>2. /\ req[r].in.target \in Project \cup {Nothing}
            /\ req[r].in.op \in InProject \cup {"createProject"} => req[r].in.target \in Project
            /\ req[r].in.op \notin Guarded
        BY <2>1, <4>1 DEF InputOK, PathOps, OwnOps, InProject, QueryOps, BodyOps, Guarded
      <4>3. Same(r, {"pc", "at"}) /\ req'[r].pc = "run" /\ req'[r].at = req[r].in.target
        BY <4>1, FieldsAre DEF Shapes, Shape, Same
      <4> QED BY <4>2, <4>3
    <3> QED BY <1>5, <3>1, <3>2, <3>3
  <2>3. RequestOK(r, req'[r])
    BY <2>2, SameFields DEF Kind, RequestOK, Stage
  <2>4. Course(req'[r]) /\ Holds(req'[r])
    BY <2>2, SameFields DEF Course, Holds, Ended
  <2> QED BY <2>3, <2>4 DEF Kind
<1> QED BY <1>1, <1>2, <1>3, <1>4, <1>5 DEF Checking

(* Statements that write accounts, roles, sessions and counters. *)
LEMMA FailsKept ==
  ASSUME AccountsTypeOK, NEW u, CountFail(u) \/ ResetFails(u)
  PROVE  fails' \in [User -> 0 .. FailLimit]
<1>1. \A v \in User : fails[v] \in 0 .. FailLimit /\ 0 \in 0 .. FailLimit
  BY FailLimitAssumption DEF AccountsTypeOK
<1>2. CASE ResetFails(u)
  BY <1>1, <1>2 DEF ResetFails, AccountsTypeOK
<1>3. CASE CountFail(u)
  <2>1. CASE u \in User /\ ~ Blocked(u)
    <3>1. fails[u] + 1 \in 0 .. FailLimit
      BY <1>1, <2>1, FailLimitAssumption DEF Blocked
    <3> QED BY <1>3, <2>1, <3>1 DEF CountFail, AccountsTypeOK
  <2>2. CASE u \notin User \/ Blocked(u)
    BY <1>3, <2>2 DEF CountFail, AccountsTypeOK
  <2> QED BY <2>1, <2>2
<1> QED BY <1>2, <1>3

LEMMA SessionsKept ==
  ASSUME AccountsTypeOK
  PROVE  /\ \A T : EndAll(T) => session' \in [Token -> NoSession \cup User]
         /\ \A t \in Token, u \in User : CreateSession(t, u) => session' \in [Token -> NoSession \cup User]
BY DEF AccountsTypeOK, EndAll, CreateSession, NoSession

LEMMA AccountRowsKept ==
  ASSUME AccountsTypeOK, NEW u
  PROVE  /\ \A row \in Account : UpdateUser(u, row) => account' \in [User -> Account]
         /\ \A admin \in BOOLEAN : CreateUser(u, admin) => account' \in [User -> Account]
         /\ DeleteUser(u) => account' \in [User -> Account]
<1>1. \A row \in Account : [account EXCEPT ![u] = row] \in [User -> Account]
  BY DEF AccountsTypeOK
<1>2. \A admin \in BOOLEAN : [row |-> "live", on |-> TRUE, admin |-> admin] \in Account
  BY DEF Account
<1>3. u \in User => [account[u] EXCEPT !.row = "deleted"] \in Account
  BY DEF Account, AccountsTypeOK
<1>4. [account EXCEPT ![u].row = "deleted"] \in [User -> Account]
  BY <1>3 DEF AccountsTypeOK
<1>5. account \in [User -> Account]
  BY DEF AccountsTypeOK
<1>6. \A row \in Account : UpdateUser(u, row) => account' \in [User -> Account]
  BY <1>1, <1>5 DEF UpdateUser
<1>7. \A admin \in BOOLEAN : CreateUser(u, admin) => account' \in [User -> Account]
  <2>1. SUFFICES ASSUME NEW admin \in BOOLEAN, CreateUser(u, admin)
                 PROVE  account' \in [User -> Account]
    OBVIOUS
  <2>2. account' = [account EXCEPT ![u] = [row |-> "live", on |-> TRUE, admin |-> admin]]
    BY <2>1 DEF CreateUser
  <2> QED BY <1>1, <1>2, <2>2
<1>8. DeleteUser(u) => account' \in [User -> Account]
  BY <1>4, <1>5 DEF DeleteUser
<1> QED BY <1>6, <1>7, <1>8

LEMMA RolesKept ==
  ASSUME AccountsTypeOK, NEW u
  PROVE  /\ UnbindAll(u) => role' \in [User -> [Project -> Role]]
         /\ \A p : UnbindProject(u, p) => role' \in [User -> [Project -> Role]]
         /\ \A p, seen : \A given \in Given :
              BindProject(u, p, seen, given) => role' \in [User -> [Project -> Role]]
<1>1. \A p : \A new \in Role : [role EXCEPT ![u][p] = new] \in [User -> [Project -> Role]]
  <2>1. SUFFICES ASSUME NEW p, NEW new \in Role
                 PROVE  [role EXCEPT ![u][p] = new] \in [User -> [Project -> Role]]
    OBVIOUS
  <2>2. u \in User => [role[u] EXCEPT ![p] = new] \in [Project -> Role]
    BY DEF AccountsTypeOK
  <2> QED BY <2>2 DEF AccountsTypeOK
<1>2. ASSUME UnbindAll(u) PROVE role' \in [User -> [Project -> Role]]
  <2>1. u \in User => [p \in Project |-> IF role[u][p] \in Bound THEN "unbound" ELSE role[u][p]]
                        \in [Project -> Role]
    BY DEF AccountsTypeOK, Role
  <2> QED BY <1>2, <2>1 DEF UnbindAll, AccountsTypeOK
<1>3. ASSUME NEW p, UnbindProject(u, p) PROVE role' \in [User -> [Project -> Role]]
  BY <1>1, <1>3 DEF UnbindProject, AccountsTypeOK, Role
<1>4. ASSUME NEW p, NEW seen, NEW given \in Given, BindProject(u, p, seen, given)
      PROVE  role' \in [User -> [Project -> Role]]
  <2>1. (IF given = "" THEN "viewer" ELSE given) \in Role
    BY DEF Given, Role
  <2> QED BY <1>1, <1>4, <2>1 DEF BindProject, AccountsTypeOK
<1> QED BY <1>2, <1>3, <1>4

LEMMA AccountsKept ==
  ASSUME TypeOK, NEW r \in Req, Gate(r), Kind(r, req[r]), Changing(r)
  PROVE  AccountsTypeOK'
<1>1. AccountsTypeOK
  BY DEF TypeOK
<1>2. \/ (LoginWrong(r) \/ LoginRight(r)) /\ UNCHANGED <<account, role, session>>
      \/ (handleLogin(r) \/ handleLogout(r) \/ EndSessions(r)) /\ UNCHANGED <<account, role, fails>>
      \/ (WriteUser(r) \/ handleCreateUser(r) \/ handleDeleteUser(r)) /\ UNCHANGED <<role, session, fails>>
      \/ (DeleteBindings(r) \/ Unbind(r) \/ Bind(r)) /\ UNCHANGED <<account, session, fails>>
      \/ UNCHANGED accountVars
  BY Zenon DEF Changing
<1>3. CASE (LoginWrong(r) \/ LoginRight(r)) /\ UNCHANGED <<account, role, session>>
  <2>1. fails' \in [User -> 0 .. FailLimit]
    BY <1>1, <1>3, FailsKept DEF LoginWrong, LoginRight
  <2> QED BY <1>1, <1>3, <2>1 DEF AccountsTypeOK
<1>4. CASE (handleLogin(r) \/ handleLogout(r) \/ EndSessions(r)) /\ UNCHANGED <<account, role, fails>>
  <2>1. ASSUME handleLogin(r) PROVE session' \in [Token -> NoSession \cup User]
    <3>1. req[r].in.target \in User
      <4>1. req[r].in.op = "login" /\ req[r].in \in Input[r]
        BY <2>1 DEF handleLogin, Writes, At, Asks, Gate, Ended
      <4> QED BY <4>1, InputIsOK DEF InputOK
    <3>2. PICK t \in Token : CreateSession(t, req[r].in.target)
      BY <2>1 DEF handleLogin
    <3> QED BY <1>1, <3>1, <3>2, SessionsKept
  <2>2. ASSUME handleLogout(r) \/ EndSessions(r) PROVE session' \in [Token -> NoSession \cup User]
    BY <1>1, <2>2, SessionsKept DEF handleLogout, EndSessions, DeleteSession, DeleteUserSessions,
       AccountsTypeOK
  <2> QED BY <1>1, <1>4, <2>1, <2>2 DEF AccountsTypeOK
<1>5. CASE (WriteUser(r) \/ handleCreateUser(r) \/ handleDeleteUser(r)) /\ UNCHANGED <<role, session, fails>>
  <2>1. ASSUME WriteUser(r) PROVE account' \in [User -> Account]
    <3>1. req[r].row \in Account
      BY <2>1 DEF WriteUser, Writes, At, Asks, Kind, Holds
    <3> QED BY <1>1, <2>1, <3>1, AccountRowsKept DEF WriteUser
  <2>2. ASSUME handleCreateUser(r) PROVE account' \in [User -> Account]
    BY <1>1, <2>2, AccountRowsKept DEF handleCreateUser
  <2>3. ASSUME handleDeleteUser(r) PROVE account' \in [User -> Account]
    BY <1>1, <2>3, AccountRowsKept DEF handleDeleteUser
  <2> QED BY <1>1, <1>5, <2>1, <2>2, <2>3 DEF AccountsTypeOK
<1>6. CASE (DeleteBindings(r) \/ Unbind(r) \/ Bind(r)) /\ UNCHANGED <<account, session, fails>>
  <2>1. ASSUME Bind(r) PROVE role' \in [User -> [Project -> Role]]
    <3>1. req[r].cur[2] \in Given
      BY <2>1 DEF Bind, At, Kind, Holds
    <3> QED BY <1>1, <2>1, <3>1, RolesKept DEF Bind
  <2>2. ASSUME DeleteBindings(r) \/ Unbind(r) PROVE role' \in [User -> [Project -> Role]]
    BY <1>1, <2>2, RolesKept DEF DeleteBindings, Unbind
  <2> QED BY <1>1, <1>6, <2>1, <2>2 DEF AccountsTypeOK
<1>7. CASE UNCHANGED accountVars
  BY <1>1, <1>7 DEF accountVars, AccountsTypeOK
<1> QED BY <1>2, <1>3, <1>4, <1>5, <1>6, <1>7

(* Statements that write the tables of the catalogue. *)
LEMMA PutKept ==
  ASSUME NEW S, NEW B, NEW table \in [Project -> [S -> B]], NEW p, NEW k, NEW v \in B
  PROVE  Put(table, p, k, v) \in [Project -> [S -> B]]
<1>1. p \in Project => [table[p] EXCEPT ![k] = v] \in [S -> B]
  OBVIOUS
<1> QED BY <1>1 DEF Put

LEMMA NodesKept ==
  ASSUME TypeOK, NEW p, NEW n,
         CreateNodeRow(p, n) \/ UpdateNodeRow(p, n) \/ DeleteNodeRow(p, n)
  PROVE  node' \in [Project -> [Node -> Row]]
<1>1. node \in [Project -> [Node -> Row]]
  BY DEF TypeOK, CatalogueTypeOK
<1>2. "live" \in Row /\ "deleted" \in Row
  BY DEF Row
<1>3. node' = Put(node, p, n, "live") \/ node' = node \/ node' = Put(node, p, n, "deleted")
  BY DEF CreateNodeRow, UpdateNodeRow, DeleteNodeRow
<1>4. \A v \in Row : Put(node, p, n, v) \in [Project -> [Node -> Row]]
  BY <1>1, PutKept
<1> QED BY <1>1, <1>2, <1>3, <1>4

LEMMA ActivitiesKept ==
  ASSUME TypeOK, NEW p \in Project
  PROVE  LET typed == activity' \in [Project -> [Activity -> Name \cup NoRow]]
         IN  /\ \A a : \A name \in Name : CreateActivityRow(p, a, name) => typed
             /\ \A old : \A new \in Activity : UpdateActivityID(p, old, new) => typed
             /\ \A a : \A name \in Name : UpdateActivityRow(p, a, name) => typed
             /\ \A a : DeleteActivityRow(p, a) => typed
<1> DEFINE B == Name \cup NoRow
<1>1. activity \in [Project -> [Activity -> B]] /\ Gone \in B
  BY DEF TypeOK, CatalogueTypeOK, NoRow
<1>2. Name \subseteq B
  OBVIOUS
<1> HIDE DEF B
<1>3. \A a : \A v \in B : Put(activity, p, a, v) \in [Project -> [Activity -> B]]
  BY <1>1, PutKept
<1>4. \A a : \A name \in Name : CreateActivityRow(p, a, name) => activity' \in [Project -> [Activity -> B]]
  BY <1>2, <1>3 DEF CreateActivityRow
<1>5. \A old : \A new \in Activity : UpdateActivityID(p, old, new) => activity' \in [Project -> [Activity -> B]]
  <2>1. SUFFICES ASSUME NEW old, NEW new \in Activity, UpdateActivityID(p, old, new)
                 PROVE  activity' \in [Project -> [Activity -> B]]
    OBVIOUS
  <2>2. activity[p][old] \in B
    BY <1>2, <2>1 DEF UpdateActivityID
  <2> DEFINE T == Put(activity, p, new, activity[p][old])
  <2>3. T \in [Project -> [Activity -> B]]
    BY <1>3, <2>2
  <2>4. activity' = Put(T, p, old, Gone)
    BY <2>1 DEF UpdateActivityID
  <2> HIDE DEF T
  <2> QED BY <1>1, <2>3, <2>4, PutKept
<1>6. \A a : \A name \in Name : UpdateActivityRow(p, a, name) => activity' \in [Project -> [Activity -> B]]
  BY <1>2, <1>3 DEF UpdateActivityRow
<1>7. \A a : DeleteActivityRow(p, a) => activity' \in [Project -> [Activity -> B]]
  BY <1>1, <1>3 DEF DeleteActivityRow
<1> QED BY <1>4, <1>5, <1>6, <1>7 DEF B

LEMMA SubsKept ==
  ASSUME TypeOK, NEW p, NEW s
  PROVE  /\ \A c \in Content : CreateSubRow(p, s, c) \/ UpdateSubRow(p, s, c)
                => sub' \in [Project -> [Sub -> Content \cup NoRow]]
         /\ DeleteSubRow(p, s) => sub' \in [Project -> [Sub -> Content \cup NoRow]]
<1> DEFINE B == Content \cup NoRow
<1>1. sub \in [Project -> [Sub -> B]] /\ Gone \in B /\ Content \subseteq B
  BY DEF TypeOK, CatalogueTypeOK, NoRow
<1> HIDE DEF B
<1>2. \A v \in B : Put(sub, p, s, v) \in [Project -> [Sub -> B]]
  BY <1>1, PutKept
<1>3. \A c \in Content : CreateSubRow(p, s, c) \/ UpdateSubRow(p, s, c) => sub' \in [Project -> [Sub -> B]]
  BY <1>1, <1>2 DEF CreateSubRow, UpdateSubRow
<1>4. DeleteSubRow(p, s) => sub' \in [Project -> [Sub -> B]]
  BY <1>1, <1>2 DEF DeleteSubRow
<1> QED BY <1>3, <1>4 DEF B

LEMMA DraftsKept ==
  ASSUME TypeOK, NEW p, NEW k
  PROVE  /\ \A c \in Content : CreateChainRow(p, k, c) \/ UpdateChainRow(p, k, c)
                => draft' \in [Project -> [Chain -> Content \cup NoRow]]
         /\ DeleteChainRow(p, k) => draft' \in [Project -> [Chain -> Content \cup NoRow]]
<1> DEFINE B == Content \cup NoRow
<1>1. draft \in [Project -> [Chain -> B]] /\ Gone \in B /\ Content \subseteq B
  BY DEF TypeOK, CatalogueTypeOK, NoRow
<1> HIDE DEF B
<1>2. \A v \in B : Put(draft, p, k, v) \in [Project -> [Chain -> B]]
  BY <1>1, PutKept
<1>3. \A c \in Content : CreateChainRow(p, k, c) \/ UpdateChainRow(p, k, c) => draft' \in [Project -> [Chain -> B]]
  BY <1>1, <1>2 DEF CreateChainRow, UpdateChainRow
<1>4. DeleteChainRow(p, k) => draft' \in [Project -> [Chain -> B]]
  BY <1>1, <1>2 DEF DeleteChainRow
<1> QED BY <1>3, <1>4 DEF B

LEMMA ReleasesKept ==
  ASSUME TypeOK, NEW p \in Project, NEW k \in Chain, NEW c \in Content
  PROVE  LET rows == released' \in [Project -> [Chain -> SUBSET Content]]
             current == online' \in [Project -> [Chain -> Content \cup {Nothing}]]
         IN  /\ PublishRows(p, k, c) => rows /\ current
             /\ SetCurrentRow(p, k, c) => current
             /\ DeleteReleaseRow(p, k, c) => rows
<1> DEFINE B == SUBSET Content
           O == Content \cup {Nothing}
<1>1. released \in [Project -> [Chain -> B]] /\ online \in [Project -> [Chain -> O]]
  BY DEF TypeOK, CatalogueTypeOK
<1>2. c \in O /\ released[p][k] \cup {c} \in B /\ released[p][k] \ {c} \in B
  <2>1. released[p][k] \in B
    BY <1>1
  <2> QED BY <2>1
<1> HIDE DEF B, O
<1>3. Put(online, p, k, c) \in [Project -> [Chain -> O]]
  BY <1>1, <1>2, PutKept
<1>4. /\ Put(released, p, k, released[p][k] \cup {c}) \in [Project -> [Chain -> B]]
      /\ Put(released, p, k, released[p][k] \ {c}) \in [Project -> [Chain -> B]]
  BY <1>1, <1>2, PutKept
<1> QED BY <1>3, <1>4 DEF PublishRows, SetCurrentRow, DeleteReleaseRow, B, O

LEMMA RestKept ==
  ASSUME TypeOK, NEW p
  PROVE  /\ CreateProject(p) \/ UpdateProject(p) \/ DeleteProject(p) => project' \in [Project -> Row]
         /\ \A i \in Case : CreateCaseRow(p, i) => case' \in [Project -> SUBSET Case]
         /\ \A i : UpdateCaseRow(p, i) \/ DeleteCaseRow(p, i) => case' \in [Project -> SUBSET Case]
         /\ \A s \in Secret \cup {Unset} : UpsertEnv(p, s) => env' \in [Project -> Secret \cup {Unset, Nothing}]
         /\ DeleteEnvRow(p) => env' \in [Project -> Secret \cup {Unset, Nothing}]
<1>1. /\ project \in [Project -> Row] /\ case \in [Project -> SUBSET Case]
      /\ env \in [Project -> Secret \cup {Unset, Nothing}]
  BY DEF TypeOK, CatalogueTypeOK
<1>2. CreateProject(p) \/ UpdateProject(p) \/ DeleteProject(p) => project' \in [Project -> Row]
  BY <1>1 DEF CreateProject, UpdateProject, DeleteProject, Row
<1>3. \A i \in Case : CreateCaseRow(p, i) => case' \in [Project -> SUBSET Case]
  BY <1>1 DEF CreateCaseRow
<1>4. \A i : UpdateCaseRow(p, i) \/ DeleteCaseRow(p, i) => case' \in [Project -> SUBSET Case]
  BY <1>1 DEF UpdateCaseRow, DeleteCaseRow
<1>5. /\ \A s \in Secret \cup {Unset} : UpsertEnv(p, s) => env' \in [Project -> Secret \cup {Unset, Nothing}]
      /\ DeleteEnvRow(p) => env' \in [Project -> Secret \cup {Unset, Nothing}]
  BY <1>1 DEF UpsertEnv, DeleteEnvRow
<1> QED BY <1>2, <1>3, <1>4, <1>5

(* What a request works with when it changes a table. *)
LEMMA HandIsOK ==
  ASSUME NEW r \in Req, Gate(r), Kind(r, req[r]), req[r].pc \in Admitted
  PROVE  /\ InputOK(req[r].in)
         /\ req[r].in.op \in InProject \cup {"createProject"} => req[r].at \in Project
         /\ req[r].pc = "write" /\ req[r].in.op \in ContentOps => req[r].content \in Content
<1>1. req[r].in \in Input[r]
  BY DEF Gate, Admitted, Ended
<1> QED BY <1>1, InputIsOK DEF Kind, Holds

LEMMA NodeChanges ==
  ASSUME TypeOK, NEW r \in Req, RegisterNode(r) \/ UpdateNode(r) \/ DeleteNode(r)
  PROVE  node' \in [Project -> [Node -> Row]]
<1>1. CASE RegisterNode(r)
  BY <1>1, NodesKept DEF RegisterNode
<1>2. CASE UpdateNode(r)
  BY <1>2, NodesKept DEF UpdateNode
<1>3. CASE DeleteNode(r)
  BY <1>3, NodesKept DEF DeleteNode
<1> QED BY <1>1, <1>2, <1>3

LEMMA ActivityChanges ==
  ASSUME TypeOK, NEW r \in Req, Gate(r), Kind(r, req[r]),
         \/ InsertActivity(r) \/ InsertGivenID(r) \/ CreateActivity(r)
         \/ UpdateActivity(r) \/ DeleteActivity(r)
  PROVE  activity' \in [Project -> [Activity -> Name \cup NoRow]]
<1>1. /\ req[r].pc \in {"insert", "write"}
      /\ req[r].in.op \in {"createAct", "updateAct", "deleteAct"}
      /\ InsertActivity(r) \/ InsertGivenID(r) \/ UpdateActivity(r) =>
           req[r].in.op \in {"createAct", "updateAct"}
  BY DEF InsertActivity, InsertGivenID, CreateActivity, UpdateActivity, DeleteActivity, Writes,
         At, Asks, Kind, Course
<1>2. req[r].pc \in Admitted /\ req[r].in.op \in InProject
  BY <1>1 DEF Admitted, Stage, Ended, InProject, QueryOps
<1>3. req[r].at \in Project /\ InputOK(req[r].in)
  BY <1>2, HandIsOK
<1>4. InsertActivity(r) \/ InsertGivenID(r) \/ UpdateActivity(r) => req[r].in.name \in Name
  BY <1>1, <1>3 DEF InputOK
<1>5. CASE InsertActivity(r) \/ InsertGivenID(r)
  BY <1>3, <1>4, <1>5, ActivitiesKept DEF InsertActivity, InsertGivenID
<1>6. CASE CreateActivity(r)
  BY <1>3, <1>6, ActivitiesKept DEF CreateActivity, NewActivityID
<1>7. CASE UpdateActivity(r)
  BY <1>3, <1>4, <1>7, ActivitiesKept DEF UpdateActivity
<1>8. CASE DeleteActivity(r)
  BY <1>3, <1>8, ActivitiesKept DEF DeleteActivity
<1> QED BY <1>5, <1>6, <1>7, <1>8

LEMMA SubChanges ==
  ASSUME TypeOK, NEW r \in Req, Gate(r), Kind(r, req[r]),
         BuildSubChain(r) \/ UpdateSubChainBuild(r) \/ handleUpdateSubChain(r) \/ handleDeleteSubChain(r)
  PROVE  sub' \in [Project -> [Sub -> Content \cup NoRow]]
<1>1. BuildSubChain(r) \/ UpdateSubChainBuild(r) => req[r].content \in Content
  BY DEF BuildSubChain, UpdateSubChainBuild, Writes, At, Asks, Kind, Holds, ContentOps
<1>2. handleUpdateSubChain(r) => req[r].in.content \in Content
  <2>1. SUFFICES ASSUME handleUpdateSubChain(r) PROVE req[r].in.content \in Content
    OBVIOUS
  <2>2. req[r].pc = "run" /\ req[r].in.op = "updateSub"
    BY <2>1 DEF handleUpdateSubChain, Runs, At, Asks
  <2>3. InputOK(req[r].in)
    BY <2>2, HandIsOK DEF Admitted, Stage, Ended
  <2> QED BY <2>2, <2>3 DEF InputOK
<1>3. CASE BuildSubChain(r)
  BY <1>1, <1>3, SubsKept DEF BuildSubChain
<1>4. CASE UpdateSubChainBuild(r)
  BY <1>1, <1>4, SubsKept DEF UpdateSubChainBuild
<1>5. CASE handleUpdateSubChain(r)
  BY <1>2, <1>5, SubsKept DEF handleUpdateSubChain
<1>6. CASE handleDeleteSubChain(r)
  BY <1>6, SubsKept DEF handleDeleteSubChain
<1> QED BY <1>3, <1>4, <1>5, <1>6

LEMMA DraftChanges ==
  ASSUME TypeOK, NEW r \in Req, Gate(r), Kind(r, req[r]),
         \/ handleSaveRootChain(r) \/ SaveCreates(r) \/ handleCreateRootChain(r) \/ CreateCopy(r)
         \/ CopyRootChain(r) \/ CopyIsUndone(r) \/ handleDeleteRootChain(r)
  PROVE  draft' \in [Project -> [Chain -> Content \cup NoRow]]
<1>1. handleSaveRootChain(r) \/ SaveCreates(r) \/ CopyRootChain(r) => req[r].content \in Content
  BY DEF handleSaveRootChain, SaveCreates, CopyRootChain, Writes, At, Asks, Kind, Course, Holds,
     ContentOps
<1>2. NoRefs \in Content
  BY DEF NoRefs, Content
<1>3. CASE handleSaveRootChain(r)
  BY <1>1, <1>3, DraftsKept DEF handleSaveRootChain
<1>4. CASE SaveCreates(r)
  BY <1>1, <1>4, DraftsKept DEF SaveCreates
<1>5. CASE handleCreateRootChain(r)
  BY <1>2, <1>5, DraftsKept DEF handleCreateRootChain
<1>6. CASE CreateCopy(r)
  BY <1>2, <1>6, DraftsKept DEF CreateCopy
<1>7. CASE CopyRootChain(r)
  BY <1>1, <1>7, DraftsKept DEF CopyRootChain
<1>8. CASE CopyIsUndone(r)
  BY <1>8, DraftsKept DEF CopyIsUndone
<1>9. CASE handleDeleteRootChain(r)
  BY <1>9, DraftsKept DEF handleDeleteRootChain
<1> QED BY <1>3, <1>4, <1>5, <1>6, <1>7, <1>8, <1>9

LEMMA ReleaseChanges ==
  ASSUME TypeOK, NEW r \in Req, Gate(r), Kind(r, req[r])
  PROVE  LET rows == released' \in [Project -> [Chain -> SUBSET Content]]
             current == online' \in [Project -> [Chain -> Content \cup {Nothing}]]
         IN  /\ handlePublishRootChain(r) => rows /\ current
             /\ handleSetCurrentRelease(r) => current
             /\ handleDeleteRootChainRelease(r) => rows
<1>1. ASSUME handlePublishRootChain(r) \/ handleSetCurrentRelease(r) \/ handleDeleteRootChainRelease(r)
      PROVE  /\ req[r].at \in Project
             /\ req[r].in.target \in Chain
             /\ IF handlePublishRootChain(r) THEN req[r].content \in Content
                ELSE req[r].in.content \in Content
  <2>1. /\ req[r].pc \in {"run", "write"} /\ req[r].in.op \in {"publish", "setCurrent", "deleteRelease"}
        /\ handlePublishRootChain(r) => req[r].pc = "write" /\ req[r].in.op = "publish"
        /\ ~ handlePublishRootChain(r) => req[r].in.op # "publish"
    BY <1>1 DEF handlePublishRootChain, handleSetCurrentRelease, handleDeleteRootChainRelease, Runs,
       Writes, At, Asks
  <2>2. req[r].pc \in Admitted /\ req[r].in.op \in InProject
    BY <2>1 DEF Admitted, Stage, Ended, InProject, QueryOps
  <2>3. /\ InputOK(req[r].in) /\ req[r].at \in Project
        /\ handlePublishRootChain(r) => req[r].content \in Content
    BY <2>1, <2>2, HandIsOK DEF ContentOps
  <2> QED BY <2>1, <2>3 DEF InputOK
<1>2. handlePublishRootChain(r) => PublishRows(req[r].at, req[r].in.target, req[r].content)
  BY DEF handlePublishRootChain
<1>3. handleSetCurrentRelease(r) => SetCurrentRow(req[r].at, req[r].in.target, req[r].in.content)
  BY DEF handleSetCurrentRelease
<1>4. handleDeleteRootChainRelease(r) => DeleteReleaseRow(req[r].at, req[r].in.target, req[r].in.content)
  BY DEF handleDeleteRootChainRelease
<1>5. ~ (handlePublishRootChain(r) /\ handleSetCurrentRelease(r))
      /\ ~ (handlePublishRootChain(r) /\ handleDeleteRootChainRelease(r))
  BY
     DEF handlePublishRootChain, handleSetCurrentRelease, handleDeleteRootChainRelease, Runs,
         Writes, Asks
<1> QED BY <1>1, <1>2, <1>3, <1>4, <1>5, ReleasesKept

LEMMA RestChanges ==
  ASSUME TypeOK, NEW r \in Req, Kind(r, req[r])
  PROVE  /\ handleCreateProject(r) \/ handleUpdateProject(r) \/ handleDeleteProject(r)
              => project' \in [Project -> Row]
         /\ ListNodes(r) => builtin' \in [Project -> Nat]
         /\ SaveTestCase(r) \/ handleDeleteTestCase(r) => case' \in [Project -> SUBSET Case]
         /\ handleSaveEnvConfig(r) \/ handleDeleteEnvConfig(r)
              => env' \in [Project -> Secret \cup {Unset, Nothing}]
<1>1. handleCreateProject(r) \/ handleUpdateProject(r) \/ handleDeleteProject(r) => project' \in [Project -> Row]
  BY RestKept DEF handleCreateProject, handleUpdateProject, handleDeleteProject
<1>2. ListNodes(r) => builtin' \in [Project -> Nat]
  <2>1. builtin \in [Project -> Nat]
    BY DEF TypeOK, CatalogueTypeOK
  <2>2. req[r].at \in Project => builtin[req[r].at] + 1 \in Nat
    BY <2>1
  <2> QED BY <2>1, <2>2 DEF ListNodes
<1>3. SaveTestCase(r) \/ handleDeleteTestCase(r) => case' \in [Project -> SUBSET Case]
  <2>1. Writes(r, "saveCase") => req[r].key \in Case
    BY DEF Writes, At, Asks, Kind, Holds
  <2> QED BY <2>1, RestKept DEF SaveTestCase, handleDeleteTestCase
<1>4. handleSaveEnvConfig(r) \/ handleDeleteEnvConfig(r) => env' \in [Project -> Secret \cup {Unset, Nothing}]
  <2>1. Writes(r, "saveEnv") => req[r].secret \in Secret \cup {Unset}
    BY DEF Writes, At, Asks, Kind, Holds
  <2> QED BY <2>1, RestKept DEF handleSaveEnvConfig, handleDeleteEnvConfig
<1> QED BY <1>1, <1>2, <1>3, <1>4

LEMMA CatalogueKept ==
  ASSUME TypeOK, NEW r \in Req, Gate(r), Kind(r, req[r]), Changing(r)
  PROVE  CatalogueTypeOK'
<1>1. CatalogueTypeOK
  BY DEF TypeOK
<1>2. /\ project' = project \/ project' \in [Project -> Row]
      /\ node' = node \/ node' \in [Project -> [Node -> Row]]
      /\ builtin' = builtin \/ builtin' \in [Project -> Nat]
      /\ activity' = activity \/ activity' \in [Project -> [Activity -> Name \cup NoRow]]
      /\ sub' = sub \/ sub' \in [Project -> [Sub -> Content \cup NoRow]]
      /\ draft' = draft \/ draft' \in [Project -> [Chain -> Content \cup NoRow]]
      /\ released' = released \/ released' \in [Project -> [Chain -> SUBSET Content]]
      /\ online' = online \/ online' \in [Project -> [Chain -> Content \cup {Nothing}]]
      /\ case' = case \/ case' \in [Project -> SUBSET Case]
      /\ env' = env \/ env' \in [Project -> Secret \cup {Unset, Nothing}]
  BY NodeChanges, ActivityChanges, SubChanges, DraftChanges, ReleaseChanges, RestChanges, Zenon
     DEF Changing, catalogueVars
<1> QED BY <1>1, <1>2 DEF CatalogueTypeOK

LEMMA RequestKind ==
  ASSUME Shapes, TypeOK, NEW r \in Req, Gate(r), Kind(r, req[r]), Reading(r) \/ Changing(r)
  PROVE  Kind(r, req'[r])
<1>1. CASE Checking(r)
  BY <1>1, ChecksKind
<1>2. CASE Fail(r)
  BY <1>2, EndsKind DEF Fail, Ended
<1>3. CASE \/ Answer(r) \/ LoginNotBlocked(r) \/ BindingFails(r) \/ BindingsDone(r)
           \/ LoginWrong(r) \/ LoginRight(r) \/ handleLogin(r) \/ handleLogout(r)
           \/ EndSessions(r) \/ WriteUser(r) \/ handleDeleteUser(r) \/ DeleteBindings(r)
           \/ Bind(r) \/ handleUpdateProject(r) \/ handleDeleteProject(r)
  BY <1>3, AccountStepsKind
<1>4. CASE \/ Unguarded(r) \/ ensureBuiltin(r) \/ NameIsFree(r) \/ ListNodes(r)
           \/ RegisterNode(r) \/ UpdateNode(r) \/ DeleteNode(r) \/ InsertGivenID(r)
           \/ CreateActivity(r) \/ UpdateActivity(r) \/ DeleteActivity(r) \/ SaveTestCase(r)
           \/ handleDeleteTestCase(r) \/ handleSaveEnvConfig(r) \/ handleDeleteEnvConfig(r)
  BY <1>4, ThingStepsKind
<1>5. CASE \/ SaveMisses(r) \/ HasNoReleases(r) \/ BuildSubChain(r) \/ UpdateSubChainBuild(r)
           \/ handleUpdateSubChain(r) \/ handleDeleteSubChain(r) \/ handleSaveRootChain(r)
           \/ SaveCreates(r) \/ handleCreateRootChain(r) \/ CopyRootChain(r)
           \/ CopyIsUndone(r) \/ handleDeleteRootChain(r) \/ handlePublishRootChain(r)
           \/ handleSetCurrentRelease(r) \/ handleDeleteRootChainRelease(r)
  BY <1>5, ChainStepsKind
<1>6. CASE \/ ReadUser(r) \/ handleUpdateUser(r) \/ handleBindUserProject(r) \/ ReadBinding(r)
           \/ handleCreateUser(r) \/ handleCreateProject(r) \/ Unbind(r)
  BY <1>6, ReadUserKind, handleUpdateUserKind, handleBindUserProjectKind, ReadBindingKind,
     handleCreateUserKind, handleCreateProjectKind, UnbindKind
<1>7. CASE \/ CheckNode(r) \/ ReadActivity(r) \/ buildPublishedRefIndex(r) \/ visit(r)
           \/ visitFails(r) \/ NotPublished(r) \/ handleCreateNode(r) \/ InsertActivity(r)
  BY <1>7, CheckNodeKind, ReadActivityKind, buildPublishedRefIndexKind, visitKind, visitFailsKind,
     NotPublishedKind, handleCreateNodeKind, InsertActivityKind
<1>8. CASE \/ NewSub(r) \/ Rebuild(r) \/ AssembleNodes(r) \/ ReadDraft(r) \/ NewCase(r)
           \/ ReadEnv(r) \/ CreateCopy(r)
  BY <1>8, NewSubKind, RebuildKind, AssembleNodesKind, ReadDraftKind, NewCaseKind, ReadEnvKind,
     CreateCopyKind
<1> QED BY <1>1, <1>2, <1>3, <1>4, <1>5, <1>6, <1>7, <1>8 DEF Reading, Changing, Checking

(* Time passes. *)
LEMMA LaterKeepsTables ==
  ASSUME TypeOK, Later
  PROVE  AccountsTypeOK' /\ CatalogueTypeOK'
<1>1. AccountsTypeOK /\ CatalogueTypeOK /\ UNCHANGED <<catalogueVars, account, role>>
  BY DEF TypeOK, Later
<1>2. session' \in [Token -> NoSession \cup User]
  BY <1>1, SessionsKept DEF Later, Expire, AccountsTypeOK
<1>3. fails' \in [User -> 0 .. FailLimit]
  BY <1>1, FailsKept DEF Later, AccountsTypeOK
<1> QED BY <1>1, <1>2, <1>3 DEF AccountsTypeOK, CatalogueTypeOK, catalogueVars

(* What chains refer to, read from the tables. *)
LEMMA ReferencesRead ==
  ASSUME NEW on \in [Chain -> Content \cup {Nothing}], NEW found \in [Sub -> Content \cup NoRow]
  PROVE  [root |-> [k \in Chain |-> Referred(on[k])], sub |-> [s \in Sub |-> Referred(found[s])]]
           \in References
<1>1. NoRefs \in Content
  BY DEF NoRefs, Content
<1>2. \A k \in Chain : Referred(on[k]) \in Content
  BY <1>1 DEF Referred, NoRow
<1>3. \A s \in Sub : Referred(found[s]) \in Content
  BY <1>1 DEF Referred, NoRow
<1> QED BY <1>2, <1>3 DEF References

LEMMA MeetIsBelow ==
  ASSUME NEW a \in References, NEW b \in References
  PROVE  Meet(a, b) \in References /\ Below(Meet(a, b), a) /\ Below(Meet(a, b), b)
<1> DEFINE both(x, y) == [things |-> x.things \cap y.things, subs |-> x.subs \cap y.subs]
           m == Meet(a, b)
<1>1. \A x, y \in Content : both(x, y) \in Content
  BY DEF Content
<1>2. /\ \A k \in Chain : a.root[k] \in Content /\ b.root[k] \in Content
      /\ \A s \in Sub : a.sub[s] \in Content /\ b.sub[s] \in Content
  BY DEF References
<1>3. /\ \A k \in Chain : m.root[k] = both(a.root[k], b.root[k])
      /\ \A s \in Sub : m.sub[s] = both(a.sub[s], b.sub[s])
  BY DEF Meet
<1>4. m \in References
  BY <1>1, <1>2 DEF Meet, References
<1>5. \A x, y : both(x, y).things = x.things \cap y.things /\ both(x, y).subs = x.subs \cap y.subs
  OBVIOUS
<1> HIDE DEF both, m
<1>6. Below(m, a) /\ Below(m, b)
  BY <1>3, <1>5 DEF Below
<1> QED BY <1>4, <1>6 DEF m

(* A guarded request: who asks, what for and where. *)
LEMMA GuardedAsks ==
  ASSUME NEW r \in Req, Gate(r), Kind(r, req[r]), IsGuarded(r)
  PROVE  req[r].in \in Input[r] /\ projectParam(req[r].in) \in Project
<1>1. req[r].pc \notin Ended \cup {"idle"}
  BY DEF IsGuarded, IsUser, Kind, Course
<1>2. req[r].in \in Input[r]
  BY <1>1 DEF Gate
<1> QED BY <1>2, InputProjects DEF IsGuarded

LEMMA KeptStep ==
  ASSUME TypeOK, CatalogueTypeOK', NEW r \in Req, Gate(r)', Kind(r, req[r])', Observe
  PROVE  /\ kept'[r] \in References \cup {Nothing}
         /\ IsGuarded(r)' => /\ kept'[r] \in References
                             /\ Below(kept'[r], OnlineNow(projectParam(req[r].in))')
                             /\ kept[r] \in References => Below(kept'[r], kept[r])
<1> DEFINE now == OnlineNow(projectParam(req[r].in))'
<1>1. kept'[r] = IF ~ IsGuarded(r)' THEN Nothing
                 ELSE IF kept[r] = Nothing THEN now ELSE Meet(kept[r], now)
  BY DEF Observe
<1>2. CASE ~ IsGuarded(r)'
  BY <1>1, <1>2
<1>3. CASE IsGuarded(r)'
  <2>1. projectParam(req'[r].in) \in Project
    <3>1. req'[r].pc \notin Ended \cup {"idle"}
      BY <1>3 DEF IsGuarded, IsUser, Kind, Course
    <3>2. req'[r].in \in Input[r]
      BY <3>1 DEF Gate
    <3> QED BY <1>3, <3>2, InputProjects DEF IsGuarded
  <2>2. now \in References
    BY <2>1, ReferencesRead DEF OnlineNow, CatalogueTypeOK
  <2>3. kept[r] \in References \cup {Nothing}
    BY DEF TypeOK
  <2>4. \A o \in References : Below(o, o)
    BY DEF Below
  <2> HIDE DEF now
  <2> QED BY <1>1, <1>3, <2>2, <2>3, <2>4, MeetIsBelow, ReferencesAssumption DEF now
<1> QED BY <1>2, <1>3

LEMMA NextTypeInv == IInv /\ IInv' /\ TypeInv /\ [Next]_vars => TypeInv'
<1> SUFFICES ASSUME IInv, IInv', TypeInv, [Next]_vars PROVE TypeInv'
  OBVIOUS
<1>1. CASE Next
  <2>1. \A r \in Req : Kind(r, req'[r])
    <3>1. ASSUME NEW r \in Req, Reading(r) \/ Changing(r) PROVE \A q \in Req : Kind(q, req'[q])
      <4>1. Kind(r, req'[r])
        BY <3>1, RequestKind DEF IInv, TypeInv
      <4>2. \A q \in Req \ {r} : req'[q] = req[q]
        BY <1>1, <3>1, RequestStep DEF Only, Next
      <4> QED BY <4>1, <4>2 DEF TypeInv
    <3>2. CASE Later
      BY <3>2 DEF Later, TypeInv
    <3> QED BY <1>1, <3>1, <3>2 DEF Next
  <2>2. AccountsTypeOK' /\ CatalogueTypeOK'
    <3>1. ASSUME NEW r \in Req, Reading(r) PROVE AccountsTypeOK' /\ CatalogueTypeOK'
      BY <3>1
         DEF Reading, catalogueVars, accountVars, TypeInv, TypeOK, AccountsTypeOK, CatalogueTypeOK
    <3>2. ASSUME NEW r \in Req, Changing(r) PROVE AccountsTypeOK' /\ CatalogueTypeOK'
      BY <3>2, AccountsKept, CatalogueKept DEF IInv, TypeInv
    <3> QED BY <1>1, <3>1, <3>2, LaterKeepsTables DEF Next, TypeInv
  <2>3. \A r \in Req : Kind(r, req[r])' /\ RequestOK(r, req[r])'
    BY <2>1 DEF Kind, RequestOK, Course, Holds
  <2>4. \A r \in Req : kept'[r] \in References \cup {Nothing}
    BY <1>1, <2>2, <2>3, KeptStep DEF IInv, TypeInv, Next
  <2> QED BY <2>2, <2>3, <2>4 DEF TypeInv, TypeOK
<1>2. CASE UNCHANGED vars
  BY <1>2 DEF vars, catalogueVars, accountVars, TypeInv, TypeOK, AccountsTypeOK, CatalogueTypeOK,
     Kind, RequestOK, Course, Holds
<1> QED BY <1>1, <1>2

LEMMA InitTypeInv == Init => TypeInv
<1> SUFFICES ASSUME Init PROVE TypeInv
  OBVIOUS
<1>1. \A r \in Req : req[r] = Blank /\ kept[r] = Nothing
  BY DEF Init
<1>2. /\ Blank.pc = "idle" /\ Blank.in = Nothing /\ Blank.who = Nothing /\ Blank.admin = FALSE
      /\ Blank.at = Nothing /\ Blank.row = Nothing /\ Blank.binds = {} /\ Blank.content = Nothing
      /\ Blank.todo = {} /\ Blank.visited = {}
  BY DEF Blank
<1>3. \A r \in Req : Kind(r, req[r])
  BY <1>1, <1>2, BlankKind
<1> QED BY <1>1, <1>3 DEF TypeInv, TypeOK, Init, Kind

(* Whatever users ask for at the same time, the tables hold rows of their  *)
(* kinds: no request stores what it has not been given or has not read     *)
(* (the handlers of WebServer and the services they call).                 *)
THEOREM TypeCorrect == Spec => []TypeOK
<1>1. Spec => []TypeInv
  BY InitTypeInv, NextTypeInv, InvHolds, PTL DEF Spec
<1>2. TypeInv => TypeOK
  BY DEF TypeInv
<1> QED BY <1>1, <1>2, PTL

-----------------------------------------------------------------------------
(* The publish check.                                                      *)

(* What the check of a request has to find unused. *)
Asked(x) ==
  IF x.in.op \in {"updateNode", "deleteNode"} THEN {x.in.target} ELSE CheckedNames(x.in, x.name)

(* What a walk that has missed nothing has gathered of o. *)
Walked(x, o) ==
  /\ x.todo \subseteq x.visited
  /\ \A k \in Chain : /\ o.root[k].things \subseteq x.refs
                      /\ \A s \in o.root[k].subs : <<k, s>> \in x.visited
  /\ \A v \in x.visited \ x.todo : /\ o.sub[v[2]].things \subseteq x.refs
                                   /\ \A s \in o.sub[v[2]].subs : <<v[1], s>> \in x.visited

(* What was asked about and is no longer in names is not used in o. *)
Watch(x, o) ==
  /\ x.pc = "walk" => x.thing \in x.names /\ Walked(x, o)
  /\ x.pc \in {"guard", "walk"} => (Asked(x) \ x.names) \cap Used(o) = {}
  /\ x.pc \in {"exists", "write"} => Asked(x) \cap Used(o) = {}

Watched(r) ==
  IsGuarded(r) =>
    /\ kept[r] \in References
    /\ Below(kept[r], OnlineNow(projectParam(req[r].in)))
    /\ ~ req[r].admin /\ ~ req[r].missed => Watch(req[r], kept[r])

GuardInv == \A r \in Req : Watched(r)

-----------------------------------------------------------------------------
(* What is used.                                                           *)

(* S holds every sub chain that the root chains of o lead to. *)
ClosedIn(o, S) ==
  /\ UNION {o.root[k].subs : k \in Chain} \subseteq S
  /\ \A s \in S : o.sub[s].subs \subseteq S

LEMMA UsedIs ==
  ASSUME NEW o
  PROVE  \A x : x \in Used(o) <=>
           \/ \E k \in Chain : x \in o.root[k].things
           \/ \E s \in Sub : x \in o.sub[s].things /\ \A S \in SUBSET Sub : ClosedIn(o, S) => s \in S
<1> DEFINE reached == {s \in Sub : \A S \in SUBSET Sub : ClosedIn(o, S) => s \in S}
           roots == UNION {o.root[k].things : k \in Chain}
           subs == UNION {o.sub[s].things : s \in reached}
<1>1. Used(o) = roots \cup subs
  BY DEF Used, ClosedIn
<1>2. \A s : s \in reached <=> s \in Sub /\ \A S \in SUBSET Sub : ClosedIn(o, S) => s \in S
  OBVIOUS
<1> HIDE DEF reached
<1>3. \A x : x \in roots <=> \E k \in Chain : x \in o.root[k].things
  OBVIOUS
<1>4. \A x : x \in subs <=> \E s \in reached : x \in o.sub[s].things
  OBVIOUS
<1> HIDE DEF roots, subs
<1>5. \A x : x \in Used(o) <=> x \in roots \/ x \in subs
  BY <1>1
<1>6. \A x : x \in subs <=> \E s \in Sub : x \in o.sub[s].things
                              /\ \A S \in SUBSET Sub : ClosedIn(o, S) => s \in S
  BY <1>2, <1>4
<1> QED BY <1>3, <1>5, <1>6

(* What refers to less uses less. *)
LEMMA LessIsUsed ==
  ASSUME NEW o, NEW b, Below(o, b)
  PROVE  Used(o) \subseteq Used(b)
<1>1. \A S \in SUBSET Sub : ClosedIn(b, S) => ClosedIn(o, S)
  <2>1. SUFFICES ASSUME NEW S \in SUBSET Sub, ClosedIn(b, S) PROVE ClosedIn(o, S)
    OBVIOUS
  <2>2. \A k \in Chain : o.root[k].subs \subseteq S
    BY <2>1 DEF Below, ClosedIn
  <2>3. \A s \in S : o.sub[s].subs \subseteq S
    BY <2>1 DEF Below, ClosedIn
  <2> QED BY <2>2, <2>3 DEF ClosedIn
<1>2. SUFFICES ASSUME NEW x \in Used(o) PROVE x \in Used(b)
  OBVIOUS
<1>3. CASE \E k \in Chain : x \in o.root[k].things
  <2>1. \E k \in Chain : x \in b.root[k].things
    BY <1>3 DEF Below
  <2> QED BY <2>1, UsedIs
<1>4. ASSUME NEW s \in Sub, x \in o.sub[s].things, \A S \in SUBSET Sub : ClosedIn(o, S) => s \in S
      PROVE  x \in Used(b)
  <2>1. x \in b.sub[s].things
    BY <1>4 DEF Below
  <2>2. \A S \in SUBSET Sub : ClosedIn(b, S) => s \in S
    BY <1>1, <1>4
  <2> QED BY <2>1, <2>2, UsedIs
<1> QED BY <1>3, <1>4, UsedIs

LEMMA BelowIsTransitive ==
  ASSUME NEW o, NEW b, NEW c, Below(o, b), Below(b, c)
  PROVE  Below(o, c)
BY DEF Below

(* A walk that has nothing left to do has gathered all that is used. *)
LEMMA WalkCovers ==
  ASSUME NEW o \in References, NEW x, Walked(x, o), x.todo = {}, x.visited \subseteq Chain \X Sub
  PROVE  Used(o) \subseteq x.refs
<1> DEFINE V == {s \in Sub : \E k \in Chain : <<k, s>> \in x.visited}
<1>1. /\ \A k \in Chain : o.root[k].subs \subseteq Sub
      /\ \A s \in Sub : o.sub[s].subs \subseteq Sub
  BY DEF References, Content
<1>2. \A k \in Chain : o.root[k].subs \subseteq V
  BY <1>1 DEF Walked
<1>3. ASSUME NEW s \in V
      PROVE  o.sub[s].things \subseteq x.refs /\ o.sub[s].subs \subseteq V
  <2>1. PICK k \in Chain : <<k, s>> \in x.visited \ x.todo
    OBVIOUS
  <2>2. o.sub[s].things \subseteq x.refs /\ \A t \in o.sub[s].subs : <<k, t>> \in x.visited
    BY <2>1 DEF Walked
  <2> QED BY <1>1, <2>2
<1>4. V \in SUBSET Sub /\ ClosedIn(o, V)
  <2> HIDE DEF V
  <2>1. \A s \in V : o.sub[s].subs \subseteq V
    BY <1>3
  <2>2. V \subseteq Sub
    BY DEF V
  <2> QED BY <1>2, <2>1, <2>2 DEF ClosedIn
<1> HIDE DEF V
<1>5. SUFFICES ASSUME NEW y \in Used(o) PROVE y \in x.refs
  OBVIOUS
<1>6. CASE \E k \in Chain : y \in o.root[k].things
  BY <1>6 DEF Walked
<1>7. CASE \E s \in Sub : y \in o.sub[s].things /\ \A S \in SUBSET Sub : ClosedIn(o, S) => s \in S
  <2>1. PICK s \in Sub : y \in o.sub[s].things /\ \A S \in SUBSET Sub : ClosedIn(o, S) => s \in S
    BY <1>7
  <2>2. s \in V
    BY <1>4, <2>1
  <2> QED BY <1>3, <2>1, <2>2
<1> QED BY <1>5, <1>6, <1>7, UsedIs

(* What a check knows of b it knows of what refers to less. *)
LEMMA WatchLess ==
  ASSUME NEW o, NEW b, Below(o, b), NEW x, x.visited \subseteq Chain \X Sub, Watch(x, b)
  PROVE  Watch(x, o)
<1>1. Used(o) \subseteq Used(b)
  BY LessIsUsed
<1>2. Walked(x, b) => Walked(x, o)
  <2>1. SUFFICES ASSUME Walked(x, b) PROVE Walked(x, o)
    OBVIOUS
  <2>2. \A k \in Chain : /\ o.root[k].things \subseteq x.refs
                         /\ \A s \in o.root[k].subs : <<k, s>> \in x.visited
    BY <2>1 DEF Walked, Below
  <2>3. \A v \in x.visited \ x.todo : /\ o.sub[v[2]].things \subseteq x.refs
                                      /\ \A s \in o.sub[v[2]].subs : <<v[1], s>> \in x.visited
    <3>1. SUFFICES ASSUME NEW v \in x.visited \ x.todo
                   PROVE  /\ o.sub[v[2]].things \subseteq x.refs
                          /\ \A s \in o.sub[v[2]].subs : <<v[1], s>> \in x.visited
      OBVIOUS
    <3>2. v[2] \in Sub
      OBVIOUS
    <3> QED BY <2>1, <3>2 DEF Walked, Below
  <2> QED BY <2>1, <2>2, <2>3 DEF Walked
<1>3. x.pc = "walk" => x.thing \in x.names /\ Walked(x, o)
  BY <1>2 DEF Watch
<1>4. x.pc \in {"guard", "walk"} => (Asked(x) \ x.names) \cap Used(o) = {}
  BY <1>1 DEF Watch
<1>5. x.pc \in {"exists", "write"} => Asked(x) \cap Used(o) = {}
  BY <1>1 DEF Watch
<1> QED BY <1>3, <1>4, <1>5 DEF Watch

-----------------------------------------------------------------------------
(* The steps of a check.                                                   *)

LEMMA AskedSame ==
  ASSUME NEW x, NEW y, y.in = x.in, y.name = x.name
  PROVE  Asked(y) = Asked(x)
BY DEF Asked

LEMMA CheckNodeWatch ==
  ASSUME Shapes, NEW r \in Req, CheckNode(r), NEW o
  PROVE  Watch(req'[r], o)
<1>1. /\ req'[r].pc = "guard" /\ req'[r].names = {req[r].in.target}
      /\ req'[r].in = req[r].in /\ req[r].in.op \in {"updateNode", "deleteNode"}
  BY CheckNodeStep, SameFields
<1>2. Asked(req'[r]) = req'[r].names
  BY <1>1 DEF Asked
<1> QED BY <1>1, <1>2 DEF Watch

LEMMA ReadActivityWatch ==
  ASSUME Shapes, NEW r \in Req, ReadActivity(r), NEW o
  PROVE  Watch(req'[r], o)
<1>1. /\ req'[r].pc = "guard" /\ req'[r].names = CheckedNames(req[r].in, req'[r].name)
      /\ req'[r].in = req[r].in /\ req[r].in.op \in {"updateAct", "deleteAct"}
  BY ReadActivityStep, SameFields
<1>2. Asked(req'[r]) = req'[r].names
  BY <1>1 DEF Asked
<1> QED BY <1>1, <1>2 DEF Watch

LEMMA UnguardedWatch ==
  ASSUME Shapes, NEW r \in Req, Unguarded(r), ~ req[r].admin, NEW o, Watch(req[r], o)
  PROVE  Watch(req'[r], o)
<1>1. /\ req[r].pc = "guard" /\ req[r].names = {}
      /\ To(r, "write") \/ To(r, "exists")
  BY DEF Unguarded, At
<1>2. /\ req'[r].pc \in {"exists", "write"} /\ req'[r].in = req[r].in /\ req'[r].name = req[r].name
  BY <1>1, ToOnly, FieldsAre
<1>3. Asked(req[r]) \cap Used(o) = {}
  BY <1>1 DEF Watch
<1> QED BY <1>2, <1>3, AskedSame DEF Watch

LEMMA NameIsFreeWatch ==
  ASSUME Shapes, NEW r \in Req, NameIsFree(r), req[r].in.op \in Guarded, NEW o, Watch(req[r], o)
  PROVE  Watch(req'[r], o)
<1>1. req[r].pc = "exists" /\ To(r, "write")
  BY DEF NameIsFree, Runs, At, Asks, Guarded
<1>2. /\ req'[r].pc = "write" /\ req'[r].in = req[r].in /\ req'[r].name = req[r].name
  BY <1>1, ToOnly, FieldsAre
<1>3. Asked(req[r]) \cap Used(o) = {}
  BY <1>1 DEF Watch
<1> QED BY <1>2, <1>3, AskedSame DEF Watch

LEMMA IndexWatch ==
  ASSUME Shapes, NEW r \in Req, buildPublishedRefIndex(r), NEW o \in References,
         Below(o, OnlineNow(req[r].at)), Watch(req[r], o)
  PROVE  Watch(req'[r], o)
<1> DEFINE current == [k \in Chain |-> Referred(online[req[r].at][k])]
           x == req'[r]
<1>1. /\ req[r].pc = "guard" /\ x.pc = "walk" /\ x.thing \in x.names
      /\ x.names = req[r].names /\ x.in = req[r].in /\ x.name = req[r].name
  BY buildPublishedRefIndexStep, SameFields
<1>2. /\ x.refs = UNION {current[k].things : k \in Chain}
      /\ x.todo = x.visited
      /\ x.visited = {v \in Chain \X Sub : v[2] \in current[v[1]].subs}
  BY buildPublishedRefIndexStep
<1>3. \A k \in Chain : /\ o.root[k].things \subseteq current[k].things
                       /\ o.root[k].subs \subseteq current[k].subs
                       /\ o.root[k].subs \subseteq Sub
  BY DEF Below, OnlineNow, References, Content
<1> HIDE DEF current, x
<1>4. Walked(x, o)
  BY <1>2, <1>3 DEF Walked
<1>5. (Asked(x) \ x.names) \cap Used(o) = {}
  BY <1>1, AskedSame DEF Watch
<1> QED BY <1>1, <1>4, <1>5 DEF Watch, x

LEMMA visitWatch ==
  ASSUME Shapes, NEW r \in Req, visit(r), req[r].visited \subseteq Chain \X Sub,
         NEW o \in References, Below(o, OnlineNow(req[r].at)), Watch(req[r], o)
  PROVE  Watch(req'[r], o)
<1> DEFINE x == req[r]
           y == req'[r]
           found(v) == Referred(sub[x.at][v[2]])
           next(v) == ({v[1]} \X found(v).subs) \ x.visited
<1>1. /\ x.pc = "walk" /\ y.pc = "walk" /\ y.thing = x.thing /\ y.names = x.names
      /\ y.in = x.in /\ y.name = x.name
  <2>1. Same(r, {"todo", "visited", "refs"}) /\ req[r].pc = "walk"
    BY visitStep
  <2> QED BY <2>1, SameFields
<1>2. PICK v \in x.todo : /\ y.todo = (x.todo \ {v}) \cup next(v)
                          /\ y.visited = x.visited \cup next(v)
                          /\ y.refs = x.refs \cup found(v).things
  BY visitStep
<1>3. Walked(x, o) /\ x.thing \in x.names /\ (Asked(x) \ x.names) \cap Used(o) = {}
  BY <1>1 DEF Watch
<1>4. v \in x.visited /\ v[2] \in Sub
  BY <1>3 DEF Walked
<1>5. o.sub[v[2]].things \subseteq found(v).things /\ o.sub[v[2]].subs \subseteq found(v).subs
  BY <1>4 DEF Below, OnlineNow
<1>6. \A s \in found(v).subs : <<v[1], s>> \in x.visited \cup next(v)
  OBVIOUS
<1>7. v \notin next(v)
  BY <1>4
<1> HIDE DEF x, y, found, next
<1>8. Walked(y, o)
  <2>1. y.todo \subseteq y.visited
    BY <1>2, <1>3 DEF Walked
  <2>2. \A k \in Chain : /\ o.root[k].things \subseteq y.refs
                         /\ \A s \in o.root[k].subs : <<k, s>> \in y.visited
    BY <1>2, <1>3 DEF Walked
  <2>3. ASSUME NEW w \in y.visited \ y.todo
        PROVE  /\ o.sub[w[2]].things \subseteq y.refs
               /\ \A s \in o.sub[w[2]].subs : <<w[1], s>> \in y.visited
    <3>1. CASE w = v
      BY <1>2, <1>5, <1>6, <3>1
    <3>2. CASE w # v
      <4>1. w \in x.visited \ x.todo
        BY <1>2, <2>3, <3>2
      <4> QED BY <1>2, <1>3, <4>1 DEF Walked
    <3> QED BY <3>1, <3>2
  <2> QED BY <2>1, <2>2, <2>3 DEF Walked
<1>9. Asked(y) = Asked(x)
  BY <1>1, AskedSame
<1>10. Watch(y, o)
  BY <1>1, <1>3, <1>8, <1>9 DEF Watch
<1> QED BY <1>10 DEF y

LEMMA NotPublishedWatch ==
  ASSUME Shapes, NEW r \in Req, NotPublished(r), req[r].visited \subseteq Chain \X Sub,
         NEW o \in References, Watch(req[r], o)
  PROVE  Watch(req'[r], o)
<1>1. /\ req[r].pc = "walk" /\ req[r].todo = {} /\ req[r].thing \notin req[r].refs
      /\ req'[r].pc = "guard" /\ req'[r].names = req[r].names \ {req[r].thing}
      /\ req'[r].in = req[r].in /\ req'[r].name = req[r].name
  BY NotPublishedStep, SameFields
<1>2. Walked(req[r], o) /\ (Asked(req[r]) \ req[r].names) \cap Used(o) = {}
  BY <1>1 DEF Watch
<1>3. Used(o) \subseteq req[r].refs
  BY <1>1, <1>2, WalkCovers
<1>4. (Asked(req[r]) \ req'[r].names) \cap Used(o) = {}
  BY <1>1, <1>2, <1>3
<1>5. Asked(req'[r]) = Asked(req[r])
  BY <1>1, AskedSame
<1> QED BY <1>1, <1>4, <1>5 DEF Watch

(* Any other step of a guarded request ends it. *)
LEMMA OthersEnd ==
  ASSUME Shapes, NEW r \in Req, Kind(r, req[r]), req[r].in.op \in Guarded,
         req[r].pc \in Admitted, Reading(r) \/ Changing(r)
  PROVE  \/ CheckNode(r) \/ ReadActivity(r) \/ Unguarded(r) \/ NameIsFree(r)
         \/ buildPublishedRefIndex(r) \/ visit(r) \/ visitFails(r) \/ NotPublished(r)
         \/ req'[r].pc \in Ended
<1>1. req[r].pc \in {"run", "guard", "walk", "exists", "write"}
  BY DEF Kind, Course
<1>2. \A s \in Ended : Ends(r, s) => req'[r].pc \in Ended
  BY EndsOnly
<1>3. "ok" \in Ended /\ "refused" \in Ended
  BY DEF Ended
<1>4. ~ Checking(r)
  BY <1>1 DEF Checking, isPublicRequest, GetSession, NoCookie, authMiddleware,
     checkProjectAccessForRequest, requireAdmin, requireProject, requireProjectAccess, At
<1>5. CASE Fail(r)
  BY <1>2, <1>3, <1>5 DEF Fail
<1>6. CASE \/ Answer(r) \/ LoginNotBlocked(r) \/ BindingFails(r) \/ BindingsDone(r)
           \/ LoginWrong(r) \/ LoginRight(r) \/ handleLogin(r) \/ handleLogout(r)
           \/ EndSessions(r) \/ WriteUser(r) \/ handleDeleteUser(r) \/ DeleteBindings(r)
           \/ Bind(r) \/ handleUpdateProject(r) \/ handleDeleteProject(r)
  BY <1>1, <1>6 DEF Answer, LoginNotBlocked, BindingFails, BindingsDone, LoginWrong, LoginRight,
     handleLogin, handleLogout, EndSessions, WriteUser, handleDeleteUser, DeleteBindings, Bind,
     handleUpdateProject, handleDeleteProject, Runs, Writes, At, Asks, Guarded
<1>7. CASE \/ ensureBuiltin(r) \/ ListNodes(r)
           \/ RegisterNode(r) \/ UpdateNode(r) \/ DeleteNode(r) \/ InsertGivenID(r)
           \/ CreateActivity(r) \/ UpdateActivity(r) \/ DeleteActivity(r) \/ SaveTestCase(r)
           \/ handleDeleteTestCase(r) \/ handleSaveEnvConfig(r) \/ handleDeleteEnvConfig(r)
  <2>1. ~ ensureBuiltin(r)
    BY DEF ensureBuiltin, Runs, Asks, Guarded
  <2>2. Ends(r, "ok")
    BY <1>7, <2>1
       DEF ListNodes, RegisterNode, UpdateNode, DeleteNode, InsertGivenID, CreateActivity,
       UpdateActivity, DeleteActivity, SaveTestCase, handleDeleteTestCase, handleSaveEnvConfig, handleDeleteEnvConfig
  <2> QED BY <1>2, <1>3, <2>2
<1>8. CASE \/ SaveMisses(r) \/ HasNoReleases(r) \/ BuildSubChain(r) \/ UpdateSubChainBuild(r)
           \/ handleUpdateSubChain(r) \/ handleDeleteSubChain(r) \/ handleSaveRootChain(r)
           \/ SaveCreates(r) \/ handleCreateRootChain(r) \/ CopyRootChain(r)
           \/ CopyIsUndone(r) \/ handleDeleteRootChain(r) \/ handlePublishRootChain(r)
           \/ handleSetCurrentRelease(r) \/ handleDeleteRootChainRelease(r)
  <2>1. ~ SaveMisses(r) /\ ~ HasNoReleases(r)
    BY DEF SaveMisses, HasNoReleases, Runs, Writes, Asks, Guarded
  <2>2. Ends(r, "ok") \/ Ends(r, "refused")
    BY <1>8, <2>1
       DEF BuildSubChain, UpdateSubChainBuild, handleUpdateSubChain, handleDeleteSubChain,
       handleSaveRootChain, SaveCreates, handleCreateRootChain, CopyRootChain, CopyIsUndone,
       handleDeleteRootChain, handlePublishRootChain, handleSetCurrentRelease,
       handleDeleteRootChainRelease
  <2> QED BY <1>2, <1>3, <2>2
<1>9. ~ (\/ ReadUser(r) \/ handleUpdateUser(r) \/ handleBindUserProject(r) \/ ReadBinding(r)
         \/ handleCreateUser(r) \/ handleCreateProject(r) \/ Unbind(r))
  BY <1>1 DEF ReadUser, handleUpdateUser, handleBindUserProject, ReadBinding, handleCreateUser,
     handleCreateProject, Unbind, Runs, At, Asks, Guarded
<1>10. ~ (\/ handleCreateNode(r) \/ InsertActivity(r) \/ NewSub(r) \/ Rebuild(r)
          \/ AssembleNodes(r) \/ ReadDraft(r) \/ NewCase(r) \/ ReadEnv(r) \/ CreateCopy(r))
  BY <1>1 DEF handleCreateNode, InsertActivity, NewSub, Rebuild, AssembleNodes, ReadDraft, NewCase,
     ReadEnv, CreateCopy, Runs, At, Asks, Guarded
<1> QED BY <1>4, <1>5, <1>6, <1>7, <1>8, <1>9, <1>10 DEF Reading, Changing, Checking

(* What the step of a request that goes on past the checks finds of o. *)
LEMMA GuardedStep ==
  ASSUME Shapes, NEW r \in Req, Kind(r, req[r]), req[r].in.op \in Guarded, req[r].pc \in Admitted,
         Reading(r) \/ Changing(r), GoesOn(r), req'[r].pc \notin Ended,
         NEW o \in References, Below(o, OnlineNow(projectParam(req[r].in))),
         ~ req[r].admin /\ ~ req[r].missed => Watch(req[r], o),
         ~ req'[r].admin, ~ req'[r].missed
  PROVE  Watch(req'[r], o)
<1>1. req[r].at = projectParam(req[r].in) /\ req[r].visited \subseteq Chain \X Sub
  BY DEF Kind, Course, RequestOK
<1>2. ~ req[r].admin
  BY DEF GoesOn
<1>3. CASE CheckNode(r)
  BY <1>3, CheckNodeWatch
<1>4. CASE ReadActivity(r)
  BY <1>4, ReadActivityWatch
<1>5. ASSUME Unguarded(r) \/ NameIsFree(r) PROVE Watch(req'[r], o)
  <2>1. PICK s : To(r, s)
    BY <1>5 DEF Unguarded, NameIsFree
  <2>2. req'[r].missed = req[r].missed
    BY <2>1, ToOnly, FieldsAre
  <2> QED BY <1>2, <1>5, <2>2, UnguardedWatch, NameIsFreeWatch
<1>6. CASE buildPublishedRefIndex(r)
  <2>1. req'[r].missed = req[r].missed
    BY <1>6, buildPublishedRefIndexStep, SameFields
  <2> QED BY <1>1, <1>2, <1>6, <2>1, IndexWatch
<1>7. CASE visit(r)
  <2>1. req'[r].missed = req[r].missed
    BY <1>7, visitStep, SameFields
  <2> QED BY <1>1, <1>2, <1>7, <2>1, visitWatch
<1>8. ~ visitFails(r)
  BY visitFailsStep
<1>9. CASE NotPublished(r)
  <2>1. req'[r].missed = req[r].missed
    BY <1>9, NotPublishedStep, SameFields
  <2> QED BY <1>1, <1>2, <1>9, <2>1, NotPublishedWatch
<1> QED BY <1>3, <1>4, <1>5, <1>6, <1>7, <1>8, <1>9, OthersEnd

(* The checks come before anything is watched. *)
LEMMA ChecksUnwatched ==
  ASSUME Shapes, NEW r \in Req, Checking(r), NEW o
  PROVE  Watch(req'[r], o)
<1>1. req'[r].pc \in {"user", "check", "run", "ok", "refused"}
  <2>1. CASE NoCookie(r) \/ Fail(r)
    BY <2>1, EndsOnly DEF NoCookie, Fail, Ended
  <2>2. CASE isPublicRequest(r) \/ GetSession(r)
    <3>1. PICK q \in Input[r], s \in {"run", "user"} : Begin(r, q, s)
      BY <2>2 DEF isPublicRequest, GetSession
    <3>2. req'[r].pc = s
      BY <3>1 DEF Begin, Shapes, Blank
    <3> QED BY <3>2
  <2>3. CASE authMiddleware(r) \/ requireProject(r) \/ requireProjectAccess(r)
    BY <2>3, FieldsAre DEF authMiddleware, requireProject, requireProjectAccess, Shapes, Shape
  <2>4. CASE requireAdmin(r)
    BY <2>4, ToOnly DEF requireAdmin
  <2>5. CASE checkProjectAccessForRequest(r)
    BY <2>5, FieldsAre DEF checkProjectAccessForRequest, At, Shapes, Shape
  <2> QED BY <2>1, <2>2, <2>3, <2>4, <2>5 DEF Checking
<1> QED BY <1>1 DEF Watch

(* The request of the step. *)
LEMMA WatchedStep ==
  ASSUME IInv, TypeInv, TypeInv', NEW r \in Req, Gate(r)', Watched(r), Reading(r) \/ Changing(r), Observe
  PROVE  Watched(r)'
<1>1. Kind(r, req[r]) /\ Kind(r, req[r])' /\ TypeOK /\ CatalogueTypeOK' /\ Shapes
  BY DEF TypeInv, TypeOK, IInv, Kind, RequestOK, Course, Holds
<1>2. SUFFICES ASSUME IsGuarded(r)', ~ req'[r].admin, ~ req'[r].missed PROVE Watch(req'[r], kept'[r])
  BY <1>1, KeptStep DEF Watched
<1>3. /\ kept'[r] \in References
      /\ kept[r] \in References => Below(kept'[r], kept[r])
  BY <1>1, <1>2, KeptStep
<1>4. CASE Checking(r)
  BY <1>1, <1>4, ChecksUnwatched
<1>5. CASE ~ Checking(r)
  <2>1. GoesOn(r)
    BY <1>1, <1>5, HandlerSteps DEF IInv, Gate
  <2>2. req'[r].pc \notin Ended
    BY <1>1, <1>2 DEF IsGuarded, IsUser, Kind, Course
  <2>3. req'[r].in = req[r].in /\ req'[r].who = req[r].who /\ req[r].pc \in Admitted
    BY <2>1, <2>2 DEF GoesOn
  <2>4. IsGuarded(r)
    BY <1>2, <2>3 DEF IsGuarded, IsUser
  <2>5. /\ kept[r] \in References
        /\ Below(kept[r], OnlineNow(projectParam(req[r].in)))
        /\ ~ req[r].admin /\ ~ req[r].missed => Watch(req[r], kept[r])
    BY <2>4 DEF Watched
  <2>6. Watch(req'[r], kept[r])
    BY <1>1, <1>2, <2>1, <2>2, <2>3, <2>4, <2>5, GuardedStep DEF IsGuarded
  <2>7. req'[r].visited \subseteq Chain \X Sub
    BY <1>1 DEF Kind, RequestOK
  <2> QED BY <1>3, <2>5, <2>6, <2>7, WatchLess
<1> QED BY <1>4, <1>5

(* Another request, while the tables change. *)
LEMMA WatchedSame ==
  ASSUME TypeInv, TypeInv', NEW r \in Req, Gate(r)', Watched(r), req'[r] = req[r], Observe
  PROVE  Watched(r)'
<1>1. Kind(r, req[r]) /\ Kind(r, req[r])' /\ TypeOK /\ CatalogueTypeOK'
  BY DEF TypeInv, TypeOK, Kind, RequestOK, Course, Holds
<1>2. CASE IsGuarded(r)
  <2>1. /\ kept'[r] \in References /\ Below(kept'[r], OnlineNow(projectParam(req[r].in))')
        /\ Below(kept'[r], kept[r])
    BY <1>1, <1>2, KeptStep DEF IsGuarded, IsUser, Watched
  <2>2. ~ req'[r].admin /\ ~ req'[r].missed => Watch(req'[r], kept'[r])
    <3>1. req[r].visited \subseteq Chain \X Sub
      BY <1>1 DEF Kind, RequestOK
    <3> QED BY <1>2, <2>1, <3>1, WatchLess DEF Watched
  <2> QED BY <2>1, <2>2 DEF Watched
<1>3. CASE ~ IsGuarded(r)
  BY <1>3 DEF Watched, IsGuarded, IsUser
<1> QED BY <1>2, <1>3

LEMMA NextGuardInv ==
  IInv /\ IInv' /\ TypeInv /\ TypeInv' /\ GuardInv /\ [Next]_vars => GuardInv'
<1> SUFFICES ASSUME IInv, IInv', TypeInv, TypeInv', GuardInv, [Next]_vars PROVE GuardInv'
  OBVIOUS
<1>1. CASE Next
  <2>1. ASSUME NEW r \in Req, Reading(r) \/ Changing(r) PROVE GuardInv'
    <3>1. Watched(r)'
      BY <1>1, <2>1, WatchedStep DEF Next, IInv, GuardInv
    <3>2. ASSUME NEW q \in Req \ {r} PROVE Watched(q)'
      <4>1. req'[q] = req[q]
        BY <1>1, <2>1, RequestStep DEF Next, Only
      <4> QED BY <1>1, <4>1, WatchedSame DEF Next, IInv, GuardInv
    <3> QED BY <3>1, <3>2 DEF GuardInv
  <2>2. CASE Later
    <3>1. req' = req
      BY <2>2 DEF Later
    <3> QED BY <1>1, <3>1, WatchedSame DEF Next, IInv, GuardInv
  <2> QED BY <1>1, <2>1, <2>2 DEF Next
<1>2. CASE UNCHANGED vars
  BY <1>2 DEF vars, catalogueVars, GuardInv, Watched, IsGuarded, IsUser, OnlineNow
<1> QED BY <1>1, <1>2

LEMMA InitGuardInv == Init => GuardInv
BY DEF Init, Blank, GuardInv, Watched, IsGuarded, IsUser

LEMMA WatchedUntouched ==
  ASSUME GuardInv
  PROVE  UsedUntouched
<1>1. SUFFICES ASSUME NEW r \in Req, IsGuarded(r), req[r].pc = "write", ~ req[r].admin, ~ req[r].missed
               PROVE  LET asked == req[r].in
                          used == Used(kept[r])
                      IN  /\ asked.op \in {"updateNode", "deleteNode"} => asked.target \notin used
                          /\ (asked.op \in {"updateAct", "deleteAct"}
                                /\ activity[req[r].at][asked.target] = req[r].name)
                             => req[r].name \notin used
                          /\ asked.op = "updateAct" => asked.name \notin used
  BY DEF UsedUntouched
<1>2. Asked(req[r]) \cap Used(kept[r]) = {}
  BY <1>1 DEF GuardInv, Watched, Watch
<1>3. /\ req[r].in.op \in {"updateNode", "deleteNode"} => req[r].in.target \in Asked(req[r])
      /\ req[r].in.op \in {"updateAct", "deleteAct"} => req[r].name \in Asked(req[r])
      /\ req[r].in.op = "updateAct" => req[r].in.name \in Asked(req[r])
  BY DEF Asked, CheckedNames
<1> QED BY <1>2, <1>3

(* What online chains used all the time since a request arrived is still   *)
(* untouched when it writes, whatever is published, taken offline or saved *)
(* while it walks from chain to chain (published_check.go).                *)
THEOREM UsedIsUntouched == Spec => []UsedUntouched
<1>1. Spec => []TypeInv
  BY InitTypeInv, NextTypeInv, InvHolds, PTL DEF Spec
<1>2. Spec => []GuardInv
  BY <1>1, InitGuardInv, NextGuardInv, InvHolds, PTL DEF Spec
<1> QED BY <1>2, WatchedUntouched, PTL
=============================================================================
