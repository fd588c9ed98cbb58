SPECIFICATION FairTrialSpec
CONSTANTS
  s1 = s1
  s2 = s2
  s3 = s3
  a = a
  b = b
  p = p
  q = q
  Nobody = Nobody
  NoPhone = NoPhone
  Signups <- ThreeSignups
  Mails <- TwoEmails
  Phones <- TwoPhones
INVARIANTS
  OneTrialPerKey
PROPERTY EverySignupEnds
CHECK_DEADLOCK FALSE
