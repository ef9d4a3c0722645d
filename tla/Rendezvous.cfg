SPECIFICATION Spec
CONSTANTS
  c1 = c1
  c2 = c2
  c3 = c3
  Client = {c1, c2, c3}
  Server = Server
  Stun = Stun
  Elsewhere = Elsewhere
  NoPresence = NoPresence
  Text = Text
  Colon <- MCColon
  Ident = {"7", "7a", "x"}
  NumberOf <- MCNumberOf
  NotANumber = NotANumber
  MaxStarts = 3
  MaxLosses = 1
SYMMETRY Alike
INVARIANTS
  TypeOK
  LinkedInPairs
  ToldOfPartner
  ForgottenByLossOnly
CHECK_DEADLOCK FALSE
