INIT Init
NEXT MCNext
SYMMETRY Symmetry
CONSTANTS
  Users = {u1, u2}
  Stypes = {camera}
  Producers = {p1, p2}
  Insts = {i1, i2}
  MaxNodes = 2
INVARIANTS
  ReadyUsersShown
  NoGhosts
  TreeNodesHandedOver
