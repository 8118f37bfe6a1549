SPECIFICATION Spec
CONSTANTS
    root = root
    ada = ada
    left = left
    right = right
    Users = {root, ada}
    Pages = {left, right}
    Nobody = Nobody
SYMMETRY Symmetry
INVARIANTS Administered
CHECK_DEADLOCK FALSE
