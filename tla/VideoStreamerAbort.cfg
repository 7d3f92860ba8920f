SPECIFICATION Spec
CONSTANTS
  MaxEvents = 2
  MaxFrames = 3
  Duration = 1
  FirstFps = 10
  RedPercents = {5}
  MuxFaults = 0
INVARIANTS FilmedSegmentIsHandedOver
