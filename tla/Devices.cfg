SPECIFICATION Spec
CONSTANTS
  Devices = {d1, d2}
  Objects = {o1, o2, o3, o4, o5, o6}
  Modes = {4}
  Rates = {1}
  Profiles = {
    {"add_all", "start"},
    {"scan", "add", "set_mode", "start"},
    {"scan", "add", "remove", "configure", "start", "unplug"},
    {"scan", "add", "write_calibration", "unplug"},
    {"scan", "add", "destroy", "set_serial", "flash"} }
  MaxCalls = 5
  MaxPlugs = 2
  MaxFaults = 1
INVARIANTS TypeOK OneObjectPerDevice ModesApplied EndLeavesOff
INVARIANTS CalibrationTrue
CHECK_DEADLOCK FALSE
