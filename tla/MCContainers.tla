---------------------------- MODULE MCContainers ----------------------------
(***************************************************************************)
(* Terms for Containers: with seven blocks a list of two elements has one  *)
(* replaced, or a list, a tuple or a dict is an element of another.        *)
(***************************************************************************)
EXTENDS Containers

MCSizes   == {0, 2}
MCIndices == {0, 1, 2}
=============================================================================
