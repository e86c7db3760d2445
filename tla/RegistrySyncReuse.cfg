SPECIFICATION Spec
CONSTANTS
  a = a
  b = b
  pa = pa
  pb = pb
  sweep = sweep
  Clients = {a, b}
  NoClient = NoClient
  MaxExp = 3
  MaxLeases = 9
  Forced = {FALSE}
  Passes = {pa, pb}
  Sweepers = {}
  MachineOf <- TwoMachines
  MaxDays = 1
  MaxEvents = 0
INVARIANT NoReuse
