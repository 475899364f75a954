SPECIFICATION Spec
CONSTANTS
  WordMod = 256
  Word <- MCWord
  XorOf <- MCXor
  A0 = 239
  B0 = 103
  Shl20 = 32
  Shr12 = 8
  Shr24 = 64
  Shr16 = 16
  ByteMod = 4
  Seeds <- MCSeeds
  Lengths = {1, 3, 4}
  MaxBytes = 8
INVARIANTS
  TypeOK
  Alive
  StreamOfSeed
