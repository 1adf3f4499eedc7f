---------------------------- MODULE Checkpointing ----------------------------
(***************************************************************************)
(* What a machine that is saved now and then, by writes nobody waits for,  *)
(* promises to whoever restarts it: it resumes a configuration in which it *)
(* was saved, or the initial one, and never one that was put together from *)
(* several moments or that it never was in.  How far back it falls is left *)
(* open: any saved configuration may be lost or come late.                 *)
(* ConnectionStateMachine implements it.                                   *)
(***************************************************************************)
CONSTANTS
  Initial,  \* the configuration of a machine that starts from scratch
  Steps     \* the pairs of configurations that an event leads from and to

VARIABLES
  at,    \* the configuration of the running machine, as a set of at most one
  saved  \* the configurations that are stored or on their way to the store

vars == <<at, saved>>

Init == at = {} /\ saved = {}

Begin ==
  /\ at = {}
  /\ \E v \in saved \cup {Initial} : at' = {v}
  /\ UNCHANGED saved

(* The machine moves, and may be saved in the configuration it moves to. *)
Move ==
  /\ \E v \in at, w \in at' : <<v, w>> \in Steps /\ at' = {w}
  /\ saved' \in {saved, saved \cup at'}

(* Writes are lost, refused or overwritten, and the stored configuration is deleted; the
   machine may end with it. *)
Lose ==
  /\ at' \in {at, {}}
  /\ saved' \subseteq saved

Next == Begin \/ Move \/ Lose

Spec == Init /\ [][Next]_vars
==============================================================================
