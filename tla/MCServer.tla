------------------------------ MODULE MCServer ------------------------------
(* One person, whose record has two fields; requests of every kind but     *)
(* those that only read.                                                   *)
EXTENDS Server

MCKeep == [created |-> 1, requested |-> 0, completed |-> 0]

MCRequests ==
  {[kind |-> "act"], [kind |-> "panic"], [kind |-> "malformed"],
   [kind |-> "patch task", id |-> 1, stage |-> "completed", at |-> 0, answer |-> "none"],
   [kind |-> "save", id |-> "p", data |-> [name |-> 1]],
   [kind |-> "patch", id |-> "p", data |-> [division |-> 1]]}
=============================================================================
