------------------------ MODULE MCStatusConditions ------------------------
(***************************************************************************)
(* Entries of a stored list of conditions: complete ones of the operator   *)
(* and of others, ones that lack a key, and one that is not a map.         *)
(***************************************************************************)
EXTENDS StatusConditions

Stored(type, status, reason) ==
    [type |-> type, status |-> status, reason |-> reason, ltt |-> 0, message |-> 0]

MCRawEntries ==
    { Stored("Running", "True", "Successful"),
      Stored("Running", "False", "Running"),
      Stored("Successful", "True", "Successful"),
      Stored("Successful", "False", ""),
      Stored("Failure", "True", "Failed"),
      Stored("Failure", "False", ""),
      Stored("Ready", "Unknown", ""),
      [type |-> "Synced"],
      [type |-> "Successful", reason |-> "Successful"],
      [status |-> "False"],
      [junk |-> TRUE] }
===========================================================================
