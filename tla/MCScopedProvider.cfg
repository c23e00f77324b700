\* Three threads, two keys, an account that changes.
SPECIFICATION FairProviderSpec
CONSTANTS
  Caller = {t1, t2, t3}
  Key <- MCKey
  Nobody = Nobody
  MaxWorld = 1
INVARIANTS
  ProviderTypeOK
  OneAnswerPerKey
  NoSecondLoad
PROPERTY
  CallsReturn
