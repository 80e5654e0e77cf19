CONSTANTS
  n1 = n1
  n2 = n2
  n3 = n3
  Nodes = {n1, n2, n3}
  nullptr = nullptr
  in_s = in_s
  tmp = tmp
  Lists = {in_s, tmp}
  Free = Free
  Fresh = Fresh
  Poison = Poison
  BlockSize = 2
  Blocks = 3
  Wrap = 7
  Sources <- MCSources
  Lens <- MCLens
  MaxLens = {3, 4}
SYMMETRY Cells
SPECIFICATION Spec
INVARIANTS ListInv
PROPERTIES Refines
