CONSTANTS
  k1 = k1
  k2 = k2
  k3 = k3
  boss = boss
  guest = guest
  b1 = b1
  b2 = b2
  Pairs = {k1, k2, k3}
  OldPairs = {k1}
  NoKey = NoKey
  Absent = Absent
  Broken = Broken
  MaxCrashes = 2
  MaxAttempts = 3
  MaxBreaks = 2
  Users = {boss, guest}
  AdminId = boss
  Callbacks = {b1, b2}
  FirstRole = "user"
  MaxSignIns = 3
  MaxChanges = 1
  MaxDbFaults = 1
SPECIFICATION FairSpec
INVARIANT TypeOK
INVARIANT ServedKeyIsFinal
INVARIANT ExitsAreExplained
INVARIANT OneRowPerUser
PROPERTY SignInsKeepRoles
PROPERTY TokensCarryTheRole
PROPERTY MasterComesUp
PROPERTY NodeLinks
CHECK_DEADLOCK FALSE
