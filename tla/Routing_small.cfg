SPECIFICATION RoutingSpec
CONSTANTS
  Crtcs = {0, 1, 2, 3}
  Devices = {"r8a7779", "r8a77470", "r8a7790", "r8a7791", "r8a7795", "r8a7796", "r8a77965", "r8a7799x"}
  MaxUnclocked = 1
INVARIANTS
  DpadRouted
  LevelsFixed
