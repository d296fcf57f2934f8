---------------------------- MODULE ExperiencePath ----------------------------
(***************************************************************************)
(* The experience server: the door a request comes through (AccessPath)    *)
(* and the life of a gene behind it (ExperienceLifecycle). The door keeps  *)
(* its keys, windows and signatures in stores of its own, so one of the    *)
(* two moves in a behaviour; an instance may give both the same values.    *)
(***************************************************************************)
EXTENDS AccessPath, ExperienceLifecycle

VARIABLE half

ExperienceInit ==
    /\ half \in {"door", "gene"}
    /\ IF half = "door" THEN AccessInit ELSE AccessStart(<<>>, [a \in Agents |-> <<>>], {}, {})
    /\ Init

ExperienceNext ==
    /\ UNCHANGED half
    /\ \/ half = "door" /\ AccessNext /\ UNCHANGED vars
       \/ half = "gene" /\ Next /\ UNCHANGED access_vars

ExperienceSpec == ExperienceInit /\ [][ExperienceNext]_<<half, access_vars, vars>>

\* The processes and the contexts of TLC's instance are interchangeable.
Symmetry == Permutations(Procs) \cup Permutations(Contexts)
===============================================================================
