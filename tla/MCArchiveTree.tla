---------------------------- MODULE MCArchiveTree ----------------------------
(* Trees for the model checking of ArchiveTree.                              *)
EXTENDS ArchiveTree

CONSTANTS project, component, nested, sibling

PairParent  == [n \in {component} |-> project]
ForkParent  == [n \in {component, sibling} |-> project]
ChainParent == [n \in {component, nested} |->
                  IF n = component THEN project ELSE component]
=============================================================================
