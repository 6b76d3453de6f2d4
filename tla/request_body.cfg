SPECIFICATION Spec
CONSTANTS
  Fires = {f1, f2}
  Buffers = {b1, b2, b3}
  Chunks = 2
  MaxLate = 2
  NoBuffer = NoBuffer
SYMMETRY Symmetry
INVARIANTS
  TypeOK
  OneOwner
  BodyWhole
  LateChunk
