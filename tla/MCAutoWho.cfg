SPECIFICATION FairWhoSpec
CONSTANTS
  a = a
  b = b
  big = big
  Chans = {a, b, big}
  Large = {big}
  MaxActs = 4
INVARIANTS NoneSwallowed
PROPERTIES AskedAgain
