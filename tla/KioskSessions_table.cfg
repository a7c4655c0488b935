SPECIFICATION Spec
CONSTANTS
  c1 = c1
  c2 = c2
  r1 = r1
  nothing = nothing
  rice = rice
  p1 = p1
  p2 = p2
  Calls <- TwoCalls
  Requests <- OneRequest
  Carts <- TwoCarts
  EmptyCart <- nothing
  Prices <- TwoPrices
  MaxReviews = 2
  MaxVersion = 4
  NoCall = NoCall
  NoTurn = NoTurn
  NoReview = NoReview
  NoInput = NoInput
  NoCopy = NoCopy
  NoSnapshot = NoSnapshot
SYMMETRY Symmetry
INVARIANTS TypeOK RequestsAreServedOnce
PROPERTIES LeasesAreKept RefusalsAreFinal TableIsKept
