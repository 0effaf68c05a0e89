CONSTANTS
  approve = approve
  refuse = refuse
  Given = Given
  Unset = Unset
  Decision <- MCDecision
  Stamps <- EitherWay
  MaxClock = 1
  MaxRecords = 3
  MaxDamage = 2
SPECIFICATION Spec
CHECK_DEADLOCK FALSE
INVARIANT PassedIsRecorded
INVARIANT StampedEntriesVerify
