CONSTANTS
  n1 = n1
  n2 = n2
  n3 = n3
  Nodes = {n1, n2, n3}
  nullptr = nullptr
  in_s = in_s
  tmp = tmp
  Lists = {in_s}
  Free = Free
  Fresh = Fresh
  Poison = Poison
  BlockSize = 2
  Blocks = 4
  Wrap = 8
  Sources <- FillOnly
  Lens = {2, 4}
  MaxLens = {4}
SPECIFICATION Spec
PROPERTIES MergeKeepsContents
