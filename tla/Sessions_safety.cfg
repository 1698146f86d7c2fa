\* Two persons, up to two Google sign-ins in a launch.
SPECIFICATION Spec
CONSTANTS
  p1 = p1
  p2 = p2
  p3 = p3
  Persons = {p1, p2}
  Nobody = Nobody
  Flag = Flag
  Unheard = Unheard
  MaxListeners = 2
INVARIANTS OnlyMembersInside SameAccountNextLaunch LastSignInWins RegisteredOnce
PROPERTY LoadingEnds
CHECK_DEADLOCK FALSE
