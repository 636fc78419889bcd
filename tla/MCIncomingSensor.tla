--------------------------- MODULE MCIncomingSensor ---------------------------
(***************************************************************************)
(* Two file names: a.csv and a_1.csv, which is also the name that the      *)
(* second a.csv gets in the processed directory.                           *)
(***************************************************************************)
EXTENDS IncomingSensor

\* a.csv, a_1.csv, a_2.csv, ... and a_1.csv, a_1_1.csv, a_1_2.csv, ...
Meeting ==
  [p \in Names \X Suffixes |->
     IF p[1] = 2 /\ p[2] = 0 THEN <<1, 1>> ELSE p]
=============================================================================
