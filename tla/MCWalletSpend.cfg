\* One user, three requests at a time: a coupon, a checkout paid twice, debits and refunds.
CONSTANTS
  u1 = u1  u2 = u2  o1 = o1  o2 = o2  p1 = p1  p2 = p2  p3 = p3
  e1 = e1  e2 = e2  s1 = s1  s2 = s2  s3 = s3
  Users = {u1, u2}
  Coupons = {"c1"}
  Orders = {o1}
  Payments = {p1, p2}
  Experiments = {e1, e2}
  OwnerOf <- OneEach
  Sessions = {s1, s2, s3}
  None = None
  Welcome = None
  Prices = {2}
  PackBase = 3
  PackBonus = 1
  CouponCredits = {2}
  Limits = {}
  ValidPairs <- TwoPaymentsForOne
  AdminOps = {"create", "delete"}
  MaxRequests = 5
SYMMETRY SessionSymmetry
SPECIFICATION Spec
INVARIANTS LedgerExplainsBalance CountersAgree OrderCreditedOnce
PROPERTY ImplementsAccount
