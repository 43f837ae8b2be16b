SPECIFICATION Spec
CONSTANTS
  t1 = t1  t2 = t2
  a = a  b = b  m = m
  p1 = p1  p2 = p2  p3 = p3  p4 = p4  p5 = p5
  Threads = {t1}
  ArchRegs = {a, b}
  MiscRegs = {m}
  PhysRegs = {p1, p2, p3, p4, p5}
  InitMap <- MCInitMap
  Shapes <- MCShapes
  MaxSeq = 3
SYMMETRY MCSymmetry
INVARIANTS RegsConserved HistoryChain DataFlow PreciseState NoStrayWrite
CHECK_DEADLOCK FALSE
