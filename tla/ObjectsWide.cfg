SPECIFICATION Spec
CONSTANTS
    Object = Object
    Leaf = Leaf
    Node = Node
    Box = Box
    child = child
    link = link
    label = label
    None = None
    Classes <- mc_Classes
    Allocated <- mc_Allocated
    Fields <- mc_Fields
    kind <- mc_kind
    owned = {child, label}
    descriptor <- mc_descriptor
    width <- wide_width
    ancestors <- mc_ancestors
    declares <- mc_declares
    destructs = {Node}
    Addresses = {1, 2, 3, 4}
    RawSizes = {8}
    MaxDepth = 2
INVARIANTS OwnedIsWhole
CHECK_DEADLOCK FALSE
