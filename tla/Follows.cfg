\* Two users, two overlapping requests: enough for every race of two handlers
\* for one pair and for a deadlock of two transactions.  No symmetry, one of the
\* properties is a liveness one.
CONSTANTS
  alice = alice
  bob = bob
  r1 = r1
  r2 = r2
  Users = {alice, bob}
  Requests = {r1, r2}
SPECIFICATION FairSpec
INVARIANTS TypeOK CountersMatch
PROPERTIES BlockAnswerMeansBlocked EveryRequestAnswered
