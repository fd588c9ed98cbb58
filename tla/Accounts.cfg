SPECIFICATION FairSpec
CONSTANTS
  a = a
  b = b
  r1 = r1
  r2 = r2
  NoMail = NoMail
  Emails <- TwoEmails
  Requests <- TwoRequests
  TenantMail = a
  MaxUsers = 2
  MaxInvites = 1
  MaxAsked = 3
  MaxStops = 1
INVARIANTS
  OneAccountEach
  TemporaryIsChanged
PROPERTIES
  MembersComeBack
CHECK_DEADLOCK FALSE
