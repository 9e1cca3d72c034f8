CONSTANTS
  SigWaiters <- MCReaders
  SigNotifiers <- MCReceivers
  NoHolder = NoHolder
  Lines = 2
  Lvl = 2
  MaxData = 3
SPECIFICATION Spec
PROPERTY AllRead
