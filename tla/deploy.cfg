SPECIFICATION Spec
CONSTANTS
  Container = {c1, c2}
  Jobs <- MCJobs
  Limit = 2
  Worlds <- MCWorlds
SYMMETRY BoxSymmetry
INVARIANT BootInv ServesCompleteSchema NoJobIsSkipped
