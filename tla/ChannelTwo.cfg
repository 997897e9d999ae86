CONSTANTS
  Receivers = {r1, r2}
  MaxSends = 3
SPECIFICATION ChannelSpec
INVARIANT TakeOnlyWhenFull
CHECK_DEADLOCK FALSE
