SPECIFICATION Spec
CONSTANTS
    Dirs = {root, x, y}
    Root = root
    Names = {a, b}
    Explicit <- MCExplicit
    NoFile = NoFile
    x = x
    b = b
INVARIANT ArtifactsMirrorSources
