\* Two users redeem the welcome coupon while an administrator edits it; every request ends.
CONSTANTS
  u1 = u1  u2 = u2  o1 = o1  o2 = o2  p1 = p1  p2 = p2  p3 = p3
  e1 = e1  e2 = e2  s1 = s1  s2 = s2  s3 = s3
  Users = {u1, u2}
  Coupons = {"WELCOME5"}
  Orders = {o1}
  Payments = {p1}
  Experiments = {e1}
  OwnerOf <- OnlyFirst
  Sessions = {s1, s2}
  None = None
  Welcome = "WELCOME5"
  Prices = {2}
  PackBase = 3
  PackBonus = 1
  CouponCredits = {2}
  Limits = {1}
  ValidPairs <- OnePair
  AdminOps = {"create", "update", "archive", "restore"}
  MaxRequests = 3
SPECIFICATION FairSpec
INVARIANT CouponCreditedOnce
PROPERTIES RedemptionIsAllowed EveryRequestEnds
