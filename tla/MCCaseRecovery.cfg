SPECIFICATION Spec
CONSTANTS
  low = low
  exact = exact
  high = high
  utr = utr
  Case = {c1}
  Exposure = {0, 2}
  Bank = {low, exact, high}
  BankAmount <- MCBankAmount
  BankRefs <- MCBankRefs
  Ref = {utr}
  Session = {s1, s2}
  NoCase = NoCase
  NoBank = NoBank
  NoRef = NoRef
SYMMETRY SessionSymmetry
INVARIANTS
  ClosedCaseNamesBank
  NothingBeyondExposure
  VerifiedIsProven
 
