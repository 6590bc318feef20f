----------------------------- MODULE Deployment -----------------------------
(***************************************************************************)
(* The master's start with those who meet it half-way: a node that fetches *)
(* the key and dials, and users who sign in.  The two do not meet, so that *)
(* a behaviour has one or the other (`scene`).                             *)
(***************************************************************************)
EXTENDS NodeLink, Accounts

VARIABLE scene

vars == << scene, startupVars, nodeVars, accountVars >>

Init ==
  /\ StartupInit /\ NodeInit /\ AccountsInit
  /\ scene \in {"node", "users"}
  /\ scene = "users" => pubFile # Absent
  /\ node = IF scene = "node" THEN "fetch" ELSE "off"

MasterStep ==
  \/ StartupStep /\ UNCHANGED << nodeVars, accountVars >>
  \/ UpdateRolesLook /\ UNCHANGED nodeVars
  \/ UpdateRolesChange /\ UNCHANGED nodeVars

(* The process ends: what was connected to it, or asked it, is cut off.    *)
MasterEnds == (Crash \/ LoadFatal) /\ LoseMaster /\ LoseRequests

Next ==
  /\ \/ MasterStep
     \/ MasterEnds
     \/ scene = "node" /\ RemovePair /\ UNCHANGED << nodeVars, accountVars >>
     \/ (NodeStep \/ FirstPacket \/ Drop) /\ UNCHANGED accountVars
     \/ scene = "users" /\ AccountsStep /\ UNCHANGED nodeVars
  /\ UNCHANGED scene

Spec == Init /\ [][Next]_vars

(* The master is started whenever it is down and runs; so does the node.   *)
Fairness ==
  /\ WF_vars(MasterStep /\ UNCHANGED scene)
  /\ WF_vars(HttpListen /\ UNCHANGED << nodeVars, accountVars, scene >>)
  /\ WF_vars(NodeStep /\ UNCHANGED << accountVars, scene >>)
  /\ WF_vars(LoadFatal /\ LoseMaster /\ LoseRequests /\ UNCHANGED scene)
  /\ WF_vars(FirstPacket /\ UNCHANGED << accountVars, scene >>)
FairSpec == Spec /\ Fairness

(* Every variable of the three parts keeps its type. *)
TypeOK == StartupTypeOK /\ NodeTypeOK /\ AccountsTypeOK /\ scene \in {"node", "users"}
=============================================================================
