\* Two directories, and values around the roundings.
SPECIFICATION FairSpec
CONSTANTS
  Dirs = {hwmon3, hwmon4}
  NoDir = NoDir
  PwmValues = {0, 63, 127, 254}
  FirstDuty = 35
INVARIANTS TypeOK ReadBackIsClose
PROPERTIES NoFanIsStuck
