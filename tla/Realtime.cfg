\* Two tabs with two connections to two instances, and one notification.
CONSTANTS
  t1 = t1
  t2 = t2
  c1 = c1
  c2 = c2
  i1 = i1
  i2 = i2
  e1 = e1
  Tabs = {t1, t2}
  Conns = {c1, c2}
  Instances = {i1, i2}
  Events = {e1}
  MaxAttempts = 1
SPECIFICATION InboxSpec
SYMMETRY Symmetry
INVARIANTS InboxTypeOK LiveDelivery
