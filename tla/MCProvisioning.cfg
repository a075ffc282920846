SPECIFICATION FairSpec
CONSTANTS
  s1 = s1
  s2 = s2
  s3 = s3
  p1 = p1
  p2 = p2
  e1 = e1
  None = None
  Unread = Unread
  SignIn = {s1, s2, s3}
  Subject = {p1, p2}
  Email = {e1}
  SubjectOf <- Subjects
  EmailOf <- Emails
  User = {u1, u2, u3}
  Account = {a1, a2}
  MaxFaults = 1
  MaxRemovals = 1
CHECK_DEADLOCK FALSE
INVARIANTS
  OneAccountPerSubject
  SessionsAreProvisioned
PROPERTIES
  NobodyIsLockedOut
