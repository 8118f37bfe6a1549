SPECIFICATION Spec
CONSTANTS
    Targets = {A, B}
    Editors = {e1}
    Clusters = {"x"}
    Loops = {"system", "services"}
    MaxRevision = 3
SYMMETRY Symmetry
PROPERTIES PauseStopsCollection
