\* Three workers on a queue of two slots; a file of two blocks and a bit.
SPECIFICATION T1FairSpec
CONSTANTS
  Producer = p
  Producers = {p}
  Consumers = {c1, c2, c3}
  NoOne = NoOne
  Elements <- BlockNumbers
  maxelems = 2
  MaxSpurious = 1
  FullBlocks = 2
  Rest = 1
  BlockSize = 2
  MaxErrors = 1
INVARIANTS IInv Consistent
PROPERTIES RefinesFIFO InOrderOnce Terminates
