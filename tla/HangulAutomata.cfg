SPECIFICATION Spec
CONSTANTS
  Choseong <- MCChoseong
  Jungseong <- MCJungseong
  Jongseong <- MCJongseong
  JamoKey <- MCJamoKey
  KeyToJamo <- MCKeyToJamo
  KeyPairToJamo <- MCKeyPairToJamo
  KeyAlphabet <- MCKeyAlphabet
  JamoAlphabet <- MCJamoAlphabet
  Words <- MCWords
  MaxLen = 5
INVARIANTS
  KeysConserved
  FailsOnlyOnCompound
  RoundTrip
CHECK_DEADLOCK FALSE
