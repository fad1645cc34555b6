SPECIFICATION Spec
CONSTANTS
  Attempt = {a1, a2, a3}
  Session = {a1, a2, a3}
  Exit = {"exit"}
  Profile = {p1, p2}
  Want <- Wants
  Slots = 2
  MaxUses = 2
  MaxLapses = 1
  MaxBoth = 1
  MaxTrouble = 1
SYMMETRY Alike
INVARIANT TypeOK
INVARIANT NoSilentShare
INVARIANT NobodySquats
INVARIANT BrowsersAreKept
INVARIANT PermitsAreKept
INVARIANT NoStrayBrowser
INVARIANT NoWornBrowser
CHECK_DEADLOCK FALSE
