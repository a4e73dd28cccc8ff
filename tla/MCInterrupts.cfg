CONSTANTS
  IoApicBases = {0, 24}
  Pins = 24
  Devices = {11, 27}
  Polled = {27}
  Reserved = 2
  MaxQueue = 2
SPECIFICATION Spec
INVARIANTS NoSpin LostOnlyWhenFull
PROPERTY EveryInterruptServed
