SPECIFICATION Spec
CONSTANTS
  a = a
  b = b
  c = c
  d = d
  Ssrcs <- MCSsrcs
  MaxBlocks = 2
PROPERTY NoStarvation
