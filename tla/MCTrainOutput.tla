---------------------------- MODULE MCTrainOutput ----------------------------
(***************************************************************************)
(* The commands of the instance: a switch is thrown with two bytes, the    *)
(* solenoid is switched off with one.                                      *)
(***************************************************************************)
EXTENDS TrainOutput

MCStrings == {<<"solenoid", "switch">>, <<"off">>}
=============================================================================
