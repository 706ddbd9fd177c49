CONSTANTS
  ByteBits = 1
  Blk = 4
  Dirs <- MCDirs
  AesEnc <- MCAesEnc
  AesDec <- MCAesDec
SPECIFICATION Spec
INVARIANTS NoCrossDirReplay
