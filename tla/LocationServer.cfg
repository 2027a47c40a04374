SPECIFICATION Spec
CONSTANTS
  driver = driver
  calibration = calibration
  sensor_task = sensor_task
  train = train
  stop = stop
  go = go
  wild = wild
  s1 = s1
  s2 = s2
  Clients = {driver, calibration, sensor_task}
  Uses <- MCUses
  Devices = {train}
  Values = {stop, go, wild}
  Accepted <- MCAccepted
  Initial = stop
  Sensors = {s1, s2}
  Module <- MCModule
  BUFFER = 2
INVARIANTS ModelFollowsDevice NobodyForgotten WaitNumHonest
PROPERTIES ImplementsBoard
SYMMETRY MCSymmetry
