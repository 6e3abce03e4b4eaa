SPECIFICATION Spec
CONSTANTS
  build <- huft_build
  decode <- Lookup
  checksum <- crc32buf
  WSIZE = 16
  HeapTop = 9000
  MaxOut = 300
  Buffers <- ChainBuffers
  RomSize = 512
  Word = 65536
  CompInd = 1
INVARIANT PackagesStayInRom
