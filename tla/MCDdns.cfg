\* Three addresses, three changes, so that an address can come back, an answer that
\* only looks like an address, two runs that are cut off.
SPECIFICATION DdnsSpec
CONSTANTS
  Addresses = {x1, x2, x3}
  LookAlikes = {y}
  Garbage = Garbage
  MaxChanges = 3
  MaxFaults = 2
  None = None
INVARIANTS DdnsTypeOK UnchangedMeansRight
PROPERTIES RecordCatchesUp
