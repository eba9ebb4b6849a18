SPECIFICATION Spec
CONSTANTS
  User = {u1}
  Browser = {b1}
  Handler = {h1, h2}
  Token = {t1, t2, t3}
  None = None
  CookieScope = {"refresh", "logout"}
  MaxFaults = 0
INVARIANT SingleUse
CHECK_DEADLOCK FALSE
