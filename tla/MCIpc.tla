------------------------------- MODULE MCIpc -------------------------------
(* Small instances of Ipc for TLC: rings of two entries, so that every     *)
(* position wraps, and two slots per table, so that one is reopened while  *)
(* the other is in use.  The calls on pipes and the calls on queues touch  *)
(* disjoint variables, so a behaviour that uses both tables is a shuffle   *)
(* of two that use one each, and those are the behaviours explored.        *)
EXTENDS Ipc

VARIABLE table

MCInit == ipc_init /\ table \in {"pipes", "queues"}

MCNext == /\ \/ table = "pipes" /\ PipeNext
             \/ table = "queues" /\ QueueNext
          /\ UNCHANGED table

MCSpec == MCInit /\ [][MCNext]_<<vars, table>>

Tables == <<table, pipes, msg_queues>>
=============================================================================
