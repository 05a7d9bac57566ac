CONSTANTS
  Second = 4
  IbitTicks = 3
  SignalTicks = 2
  CbitTicks = 4
  Width = 32
  Rates <- FiveRates
  Faults = {"azimuth", "motor", "all"}
  MaxTicks = 9
  MaxStarts = 2
  MaxCommands = 2
  TicksPerSecond = 2
  Tolerance = 2
  VelocityLimit = 6
  VelocityMax = 20
  AzimuthMax = 30
  GyroMax = 10
  ControlMessages <- FiveMessages
  Garbage <- NoFields
  ILL = ILL
  MaxInputs = 2
  MaxDriven = 1
  MaxScenarios = 1
SPECIFICATION MCSpec
INVARIANTS NoDrift Renewed PositionControl
PROPERTY Settles
