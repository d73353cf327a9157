SPECIFICATION FairSpec
CONSTANT MaxPosts = 2
INVARIANTS VerdictIsEarned OverdueIsUnhealthy
PROPERTIES PhoneHearsOutage ActsOnStandingOutage
