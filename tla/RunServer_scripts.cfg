SPECIFICATION FairSpec
CONSTANTS
  s1 = s1
  s2 = s2
  c1 = c1
  c2 = c2
  c3 = c3
  Scripts <- MCTwoScripts
  Conns <- MCConns
  Local <- MCLocal
  Deaf <- MCDeaf
INVARIANTS
  FailsOnlyOvertaken
  NothingLeftOver
PROPERTIES
  OnlyTheDeafHoldUp
