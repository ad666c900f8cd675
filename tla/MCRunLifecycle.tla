---------------------------- MODULE MCRunLifecycle ----------------------------
(* Three reconciliations of a watch with a playbook and no ansible-args:   *)
(* two runs may be left behind while a third is started.                   *)
EXTENDS RunLifecycle
=============================================================================
