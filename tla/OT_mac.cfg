SPECIFICATION Spec
CONSTANTS
  Element <- Subgroup
  G = 2
  Identity = 1
  Exponent <- Exponents
  Mul <- MulTable
  Exp <- ExpTable
  Inv <- InvTable
  Garbage <- AnyDigit
  None = None
  Failed = Failed
PROPERTY
  RejectsInvalidMac
