-------------------------- MODULE MCLocationServer --------------------------
(***************************************************************************)
(* A driver, a calibration task and the sensor task, one train and two      *)
(* sensors of one module.  The speed wild is out of range.  The sensors      *)
(* differ in nothing.                                                      *)
(***************************************************************************)
EXTENDS LocationServer, TLC

CONSTANTS driver, calibration, sensor_task, train, stop, go, wild, s1, s2

MCUses == (driver :> {"set", "get", "wait"}) @@ (calibration :> {"set", "wait"})
            @@ (sensor_task :> {"hit"})
MCAccepted == train :> {stop, go}
MCModule == (s1 :> "A") @@ (s2 :> "A")
MCSymmetry == Permutations({s1, s2})
=============================================================================
