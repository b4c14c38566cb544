SPECIFICATION Spec
CONSTANTS
  t1 = t1
  t2 = t2
  Tasks = {t1, t2}
  Attempts = 2
  MaxTime = 2
  MaxLogins = 2
  MaxGen = 2
INVARIANTS TypeOK NewestTokenKept
PROPERTIES RefreshReplacesItsOwn LastLoginWins DueIsHandled
