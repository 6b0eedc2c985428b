------------------------------ MODULE MCSimulator ------------------------------
(* Files for Simulator: one image for a cell, one file that is too short.       *)
EXTENDS Simulator

MCFiles == {<<0>>, <<0, 0, 1>>}
MCInput  == <<1, 2, 1>>
MCOutput == <<2, 1>>
================================================================================
