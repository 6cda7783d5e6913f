CONSTANTS
  f1 = f1
  f2 = f2
  fcs = fcs
  twelve = twelve
  any = any
  NoRow = NoRow
  Fetchers <- TwoFetchers
  Chain <- TwelveThenFcs
  MaxAttempts = 2
  Contents <- OneContent
  Period = 2
  Delay = 1
  Bars = 2
  MinHistory = 1
  LastCandle = 2
  MaxFetches = 2
SYMMETRY EitherFetcher
SPECIFICATION Spec
INVARIANTS ResultsAgree ResultsNeverGoBack
PROPERTY CompleteIsFinal
CHECK_DEADLOCK FALSE
