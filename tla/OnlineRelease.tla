--------------------------- MODULE OnlineRelease ----------------------------
(***************************************************************************)
(* What the table of releases promises to those who only read it: the      *)
(* invocations, which run the version that is online, and the pages, which *)
(* show what was published under a number.                                 *)
(*                                                                         *)
(* Every number has one content for good, numbers are given in order, and  *)
(* one version is online, the same for all readers.  It changes in single  *)
(* steps, to a published version; a publish that is not over changes it    *)
(* only if nothing was online.  A chain loses the version it serves only   *)
(* where requests have been under way at the same time.                    *)
(***************************************************************************)
EXTENDS Naturals

CONSTANTS
  Doc,          \* contents of a root chain that differ
  NoDoc,        \* no content
  LastVersion   \* bound: version numbers

Version == 1 .. LastVersion

VARIABLES
  content,  \* what was published under each number, or NoDoc
  online,   \* the version that invocations run, or 0
  shared    \* have requests ever been under way at the same time

vars == <<content, online, shared>>

Published == {v \in Version : content[v] # NoDoc}

Init ==
  /\ content = [v \in Version |-> NoDoc]
  /\ online = 0
  /\ shared = FALSE

(* The next number gets its content, and serves if nothing does. *)
Publish(v, d) ==
  /\ \A u \in Version : u \in Published <=> u < v
  /\ content' = [content EXCEPT ![v] = d]
  /\ online' = IF online = 0 THEN v ELSE online

(* A publish ends, or a version is chosen again. *)
Switch(v) ==
  /\ v \in Published
  /\ online' = v
  /\ UNCHANGED content

(* The version online is gone: a later one serves that was being           *)
(* published, or none.                                                     *)
Withdraw ==
  /\ online # 0
  /\ shared'
  /\ online' = 0 \/ (online' \in Published /\ online < online')
  /\ UNCHANGED content

Rest == UNCHANGED <<content, online>>

Next ==
  /\ \/ \E v \in Version : Switch(v) \/ \E d \in Doc : Publish(v, d)
     \/ Withdraw
     \/ Rest
  /\ shared' \in BOOLEAN
  /\ shared => shared'

Spec == Init /\ [][Next]_vars
=============================================================================
