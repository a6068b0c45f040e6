----------------------------- MODULE MCConsole ------------------------------
(* Console with one request of a user who may be an editor or a viewer,    *)
(* and one of the administrator at the same time.  The online root chain   *)
(* refers to a node and an activity, directly or over two sub chains.  The *)
(* code of project pb is that of p with a blank.                           *)
EXTENDS Console, TLC

CONSTANTS theirs, admins, boss, ann, bob, tb, ta, tn, p, q, pb, n, m, i, j, k,
  a, b, s, t, u, c, d, x, y, h

Plain == [op |-> "list", token |-> ta, query |-> Nothing, body |-> Nothing,
  target |-> Nothing, content |-> Nothing, name |-> Nothing, secret |-> "masked",
  on |-> "keep", admin |-> "keep", password |-> FALSE, rebind |-> FALSE, binds |-> {}]

Direct == [things |-> {n, a}, subs |-> {}]
Over == [things |-> {}, subs |-> {s}]
SubS == [things |-> {n}, subs |-> {t}]
SubT == [things |-> {a}, subs |-> {}]

In(op, target) == [Plain EXCEPT !.op = op, !.query = p, !.target = target]

InProject ==
  {In(op, Nothing) : op \in {"list", "listNodes", "createNode", "deleteEnv"}}
  \cup {In(op, n) : op \in {"updateNode", "deleteNode"}}
  \cup {In(op, s) : op \in {"deleteSub"}}
  \cup {In(op, c) : op \in {"copyRoot", "deleteRoot", "publish"}}
  \cup {[In(op, s) EXCEPT !.content = SubT] : op \in {"createSub", "updateSub"}}
  \cup {[In(op, c) EXCEPT !.content = z] : op \in {"setCurrent", "deleteRelease"}, z \in {Direct, Over}}
  \cup {In("deleteCase", x), In("deleteAct", i)}
  \cup {[In("updateAct", i) EXCEPT !.name = z] : z \in {a, b}}
  \cup {[In("updateAct", j) EXCEPT !.name = a], [In("createAct", Nothing) EXCEPT !.name = b],
        [In("createAct", k) EXCEPT !.name = b]}

ByBody ==
  {[Plain EXCEPT !.op = z[1], !.target = z[2], !.body = p, !.content = Over] :
     z \in {<<"execute", Nothing>>, <<"buildSub", Nothing>>, <<"rebuildSub", s>>, <<"saveRoot", c>>,
            <<"saveRoot", d>>, <<"createRoot", Nothing>>, <<"saveCase", x>>, <<"saveCase", Nothing>>}}
  \cup {[Plain EXCEPT !.op = z[1], !.target = z[2], !.query = p, !.content = Over] :
           z \in {<<"execute", Nothing>>, <<"saveRoot", c>>}}

(* A blank around the code in the query, the body or the path. *)
Blanks ==
  {[In(op, Nothing) EXCEPT !.query = pb] : op \in {"list", "deleteEnv"}}
  \cup {[In("updateNode", n) EXCEPT !.query = pb], [In("deleteAct", i) EXCEPT !.query = pb]}
  \cup {[In("saveEnv", Nothing) EXCEPT !.query = z[1], !.body = z[2], !.secret = h] :
          z \in {<<pb, p>>, <<pb, q>>, <<Nothing, pb>>}}
  \cup {[In(op, pb) EXCEPT !.query = z] :
          op \in {"createProject", "updateProject", "deleteProject"}, z \in {p, Nothing}}

Trimmed == [z \in Project \cup {Nothing} |-> IF z = pb THEN p ELSE z]

Theirs ==
  InProject \cup ByBody \cup Blanks
  \cup {[Plain EXCEPT !.op = "saveEnv", !.query = z, !.body = w] :
          z \in {p, Nothing}, w \in {p, q, Nothing}}
  \cup {[Plain EXCEPT !.op = op, !.query = z, !.target = p] :
          op \in {"updateProject", "deleteProject", "createProject"}, z \in {q, Nothing}}
  \cup {[Plain EXCEPT !.op = "createProject", !.target = q],
        [Plain EXCEPT !.op = "changePassword", !.password = TRUE],
        [Plain EXCEPT !.op = "updateUser", !.target = ann, !.admin = "yes"]}
  \cup {[Plain EXCEPT !.op = "login", !.token = Nothing, !.target = ann, !.password = z] :
          z \in BOOLEAN}
  \cup {[Plain EXCEPT !.op = "logout", !.token = z] : z \in {ta, Nothing}}

Admin(op, target) == [Plain EXCEPT !.op = op, !.token = tb, !.target = target]

Admins ==
  {Admin("deleteUser", ann), Admin("logout", Nothing),
   [Admin("createUser", bob) EXCEPT !.binds = {<<p, "">>}],
   [Admin("updateUser", ann) EXCEPT !.on = "off"],
   [Admin("updateUser", ann) EXCEPT !.password = TRUE, !.rebind = TRUE],
   [Admin("updateUser", ann) EXCEPT !.rebind = TRUE, !.binds = {<<p, "">>, <<q, "editor">>}],
   [Admin("updateUser", boss) EXCEPT !.password = TRUE, !.admin = "no"]}
  \cup {[Admin("bindUser", ann) EXCEPT !.binds = {<<p, z[1]>>}, !.rebind = z[2]] :
          z \in {<<"", FALSE>>, <<"viewer", FALSE>>, <<"viewer", TRUE>>, <<"editor", FALSE>>}}
  \cup {[z EXCEPT !.token = tb] : z \in
          {v \in InProject : v.op \in {"listNodes", "publish", "setCurrent", "updateSub",
                                      "updateAct", "deleteAct"}}}
  \cup {[Admin("createAct", k) EXCEPT !.query = p, !.name = b]}

Inputs == [r \in Req |-> IF r = theirs THEN Theirs ELSE Admins]

Installed ==
  /\ node = [z \in Project |-> [v \in Node |-> IF z = p /\ v = n THEN "live" ELSE "none"]]
  /\ builtin = [z \in Project |-> 0]
  /\ activity = [z \in Project |-> [v \in Activity |->
                   IF z = p /\ v = i THEN a ELSE Nothing]]
  /\ sub = [z \in Project |-> [v \in Sub |->
              IF z # p \/ v = u THEN Nothing ELSE IF v = s THEN SubS ELSE SubT]]
  /\ draft = [z \in Project |-> [v \in Chain |-> IF z = p /\ v = c THEN Direct ELSE Nothing]]
  /\ \E on \in {Direct, Over, Nothing} :
       /\ online = [z \in Project |-> [v \in Chain |-> IF z = p /\ v = c THEN on ELSE Nothing]]
       /\ released = [z \in Project |-> [v \in Chain |->
                        IF z = p /\ v = c /\ on # Nothing THEN {Direct, Over} ELSE {}]]
  /\ case = [z \in Project |-> IF z = p THEN {x} ELSE {}]
  /\ env = [z \in Project |-> IF z = p THEN h ELSE Nothing]
  /\ account = [z \in User |-> [row |-> IF z = bob THEN "none" ELSE "live",
                               on |-> TRUE, admin |-> z = boss]]
  /\ \E z \in Bound, w \in {"none", "editor"} :
       /\ z = "viewer" <=> online[p][c] = Direct
       /\ w = "editor" => z = "viewer"
       /\ project = (p :> "live" @@ q :> "none" @@ pb :> IF w = "editor" THEN "live" ELSE "none")
       /\ role = [v \in User |-> [o \in Project |->
                   IF v = ann /\ o = p THEN z ELSE IF v = ann /\ o = pb THEN w ELSE "none"]]
  /\ session = (tb :> boss @@ ta :> ann @@ tn :> "new")
  /\ fails = [z \in User |-> 0]

MCInit == Installed /\ Init
MCSpec == MCInit /\ [][Next]_vars
=============================================================================
