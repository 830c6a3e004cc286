\* One account, two passwords, one provider, two overlapping requests.
CONSTANTS
  old = old
  new = new
  google = google
  r1 = r1
  r2 = r2
  NoPassword = NoPassword
  Passwords = {old, new}
  Providers = {google}
  Requests = {r1, r2}
  MaxVersion = 2
  MaxTokens = 2
SPECIFICATION Spec
SYMMETRY Symmetry
INVARIANTS TypeOK AcceptedTokenHasCurrentPassword
PROPERTY RefusedStaysRefused
