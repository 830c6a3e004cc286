\* A follow that passed its block check before the block committed.
CONSTANTS
  alice = alice
  bob = bob
  r1 = r1
  r2 = r2
  Users = {alice, bob}
  Requests = {r1, r2}
SPECIFICATION Spec
SYMMETRY Symmetry
INVARIANT NoFollowAcrossBlock
