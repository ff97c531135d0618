SPECIFICATION Spec
CONSTANTS
  Second = 100
  MaxDuration = 92200
  Params = {1, 10, 100, 1000}
  MaxDraw = 1000
INVARIANT UniformWithinInterval
