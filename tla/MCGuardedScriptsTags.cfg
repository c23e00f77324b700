\* The bulk script of one volume, whose tags may fail to be read.
SPECIFICATION Spec
CONSTANTS
  volume = volume
  address = address
  home = home
  other = other
  Resource = {volume, address}
  Volume = {volume}
  Account = {home, other}
  Selections <- OneVolume
  Faults = {"tags"}
PROPERTY
  DestroyedWasFree
CHECK_DEADLOCK FALSE
