\* The same files: what a lost part of the list does to a reader.
CONSTANTS
  Media <- MCMedia
  MaxParts = 3
  MaxBlocks = 8
SPECIFICATION Spec
INVARIANT LossIsAnError
