CONSTANTS
  Radix = 4
  CodeLen = 2
  Bits = 7
  DefaultMult = 3
  DefaultOff = 2
  Entered = {2, 3, 5, 6, 16, 21, 25, 100}
  Unset = Unset
SPECIFICATION Spec
INVARIANTS
  TypeOK
  InverseExact
  DecryptedRight
