CONSTANTS
  t1 = t1
  t2 = t2
  ana = ana
  oto = oto
  Tab = {t1}
  User = {ana, oto}
  Role <- MCRole
  Page <- MCPage
  RolesOf <- MCRolesOf
  None = None
  MaxFailed = 2
  MaxSubmits = 2
  MaxFaults = 1
SPECIFICATION FairSpec
INVARIANT TypeOK
PROPERTY ImplementsApiCall
PROPERTY NeverStuck
CHECK_DEADLOCK FALSE
