CONSTANTS
  Tabs = {t1, t2}
  Typed <- MCTyped
  Lower <- MCLower
  Malformed = {"?"}
  Passwords = {"right", "wrong", "short"}
  BadLength = {"short"}
  MaxTokens = 2
  MaxUpsets = 1
  None = None
SPECIFICATION Spec
INVARIANTS
  TypeOK
  OneAccountPerAddress
  SignOutRevokes
  SignInSticks
  CookieWorks
PROPERTIES
  SessionsAreByPassword
  SessionsNeverChangeHands
  ComesToRest
