SPECIFICATION FairSpec
CONSTANTS
  r1 = r1
  r2 = r2
  k1 = k1
  e1 = e1
  f1 = f1
  f2 = f2
  Replicas = {r1, r2}
  Cancellers = {k1}
  Emergencies = {e1}
  Fields = {f1, f2}
  FieldsOf <- MCFieldsOf
  MaxChanges = 3
  Unusable = {1}
  MaxFaults = 1
CHECK_DEADLOCK FALSE
INVARIANTS
  ChangesConsistent
  LiveValuesAreAudited
  NoUpdateLostAlone
PROPERTIES
  DueIsSettled
