\* Two logins and the requests that two devices make at a time, four tokens, one
\* fault.  When all tokens are issued and used nothing more happens.
SPECIFICATION Spec
CONSTANTS
  Users = {u1}
  Logins = {l1, l2}
  MaxTokens = 4
  Procs = {p1, p2}
  MaxFaults = 1
  NoLogin = NoLogin
INVARIANTS
  TypeOK
  LoginSurvives
PROPERTIES
  KeepsOneToken
  InactiveGetNone
SYMMETRY Symmetry
CHECK_DEADLOCK FALSE
