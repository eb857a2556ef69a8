SPECIFICATION Spec
CONSTANTS
  e1 = e1
  e2 = e2
  g1 = g1
  g2 = g2
  Emails = {e1, e2}
  NoEmail = NoEmail
  Subs = {g1, g2}
  NoSub = NoSub
  Profiles <- MCProfiles
  BootstrapEmails = {e1}
  Browsers = {b1, b2}
  NoBrowser = NoBrowser
  States = {st1, st2}
  NoState = NoState
  Sessions = {t1, t2}
  NoSession = NoSession
  Logins = {l1, l2}
  Requests = {r1}
INVARIANTS
  NoAccessAfterRemoval
