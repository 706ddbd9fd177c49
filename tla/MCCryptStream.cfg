CONSTANTS
  ByteMax = 4
  Blk = 2
  Buf = 4
  Data = {0, 1}
  MaxLen = 5
  ObjKey <- MCObjKey
  DirKey <- MCDirKey
  Randoms <- MCRandoms
  AesEnc <- MCAesEnc
  AesDec <- MCAesDec
  ByteXor <- MCByteXor
SPECIFICATION Spec
INVARIANTS ObjRoundTrip DirRoundTrip SessionKeyReturned PanicOnlyOnUnaligned
CHECK_DEADLOCK FALSE
