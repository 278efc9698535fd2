\* Two blocks in memory, a file of two blocks: is a block still there when used?
SPECIFICATION T1Spec
CONSTANTS
  Producer = p
  Producers = {p}
  Consumers = {c1}
  NoOne = NoOne
  Elements <- BlockNumbers
  maxelems = 2
  MaxSpurious = 0
  FullBlocks = 2
  Rest = 0
  BlockSize = 2
  MaxErrors = 0
INVARIANT BlockIntact
