SPECIFICATION Spec
CONSTANTS
    a = a
    b = b
    target = target
    renderer = renderer
    Window = {a, b}
    Texture = {}
    RenderTexture = {target}
    Renderer = {renderer}
    MaxNatives = 3
SYMMETRY Symmetry
INVARIANTS
    TypeOK
    WindowsListTheirResources
PROPERTIES
    ScopesRestoreContext
