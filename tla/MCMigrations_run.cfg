SPECIFICATION MigrationsSpec
CONSTANTS
  Callers = {c1, c2}
  NoCaller = NoCaller
  MaxCuts = 2
INVARIANTS
  CallsSucceedUnlessTorn
