SPECIFICATION Spec
CONSTANTS
  p1 = p1
  p2 = p2
  s1 = s1
  s2 = s2
  r1 = r1
  b1 = b1
  b2 = b2
  other = other
  order1 = order1
  utr1 = utr1
  NoRef = NoRef
  Home = "INR"
  Unstated = "unstated"
  Books <- MCBooks
  Channels <- MCChannels
  Txn = {t1, t2}
  MaxTxns <- MCMaxTxns
  MaxRuns <- MCMaxRuns
  TimeTolerance = 0
  AmountTolerance = 0
  SettlementWindow = 3
  Run = {x1, x2}
SYMMETRY Symmetry
INVARIANTS
  
  NoFalseOrphans
  SilenceMeansSettled
  
  
PROPERTY RerunAddsNothing
