SPECIFICATION Spec
CONSTANTS
  Writer = {w1, w2}
  Reader = {r1}
  Sig = {s1, s2}
  NoSig = NoSig
  MaxAdds <- AddLimits
  MaxCrashes = 1
INVARIANTS
  AcknowledgedIsKept
