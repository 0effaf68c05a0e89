CONSTANTS
  ab = ab
  bc = bc
  bd = bd
  long = long
  c1 = c1
  c2 = c2
  c3 = c3
  Call <- MCCall
  Token <- MCToken
  Exp <- MCExp
  Chains <- WholeChains
  MaxClock = 3
  MaxClears = 1
  NoCall = NoCall
SYMMETRY CallSymmetry
SPECIFICATION Spec
CHECK_DEADLOCK FALSE
INVARIANT IndInv
INVARIANT AtMostOnceWhileLive
INVARIANT NoPartialBurn
