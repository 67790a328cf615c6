CONSTANTS
  Elem = {e1, e2, e3, e4}
  List = {l1, l2, l3}
  Value = {v1, v2}
  Nil = Nil
SYMMETRY Symmetry
SPECIFICATION Spec
INVARIANTS TypeOK WellLinked Loose
PROPERTIES DetachedForever ImplementsListSpec
