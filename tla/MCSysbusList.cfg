CONSTANTS
  Heads = {io, del}
  Items = {a, b, c, d}
SPECIFICATION Spec
INVARIANTS ListInv ContainsIsMembership
PROPERTIES RefinesSeqLists
