CONSTANTS
  t1 = t1
  t2 = t2
  t3 = t3
  Thread = {t1, t2, t3}
  Msg = {m1, m2, m3}
  Uses <- MCUses
  Child = {c1}
  MaxChild = 1
  Every = Every
  None = None
  Beyond = {}
SPECIFICATION FairSpec
CHECK_DEADLOCK FALSE
INVARIANTS OwnReply ListExact
PROPERTIES IsMailbox Answered
