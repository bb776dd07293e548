---------------------------- MODULE ContainerMC ----------------------------
(***************************************************************************)
(* Every system of three components, with dependencies from a list that    *)
(* has missing ones, self-loops and duplicates, is built; one of five,     *)
(* with a diamond over process and scoped components, is also run.         *)
(***************************************************************************)
EXTENDS Container

Tuples == {<<>>, <<1>>, <<2>>, <<3>>, <<4>>,
           <<1, 1>>, <<1, 2>>, <<2, 1>>, <<2, 3>>, <<3, 1>>, <<3, 3>>}

Small == {[graph |-> g, scoped |-> s, required |-> {1, 3}] :
            g \in [1..3 -> Tuples], s \in {{}, {1}, {2, 3}}}

Web == [graph |-> <<<<>>, <<1>>, <<1>>, <<3>>, <<2, 4>>>>,
        scoped |-> {4, 5}, required |-> {1, 3, 4}]

LivelySystems == {Web}
AllSystems == Small \union LivelySystems
=============================================================================
