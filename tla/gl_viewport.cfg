SPECIFICATION Spec
CONSTANTS
    blend = blend
    phong = phong
    gouraud = gouraud
    s1 = s1
    s2 = s2
    s3 = s3
    t1 = t1
    t2 = t2
    u1 = u1
    l1 = l1
    half = half
    zero = zero
    one = one
    None = None
    Caps <- MCCaps
    Programs <- MCPrograms
    BuiltIn = phong
    Shaders <- MCShaders
    Plain <- MCPlain
    Textures <- MCTextures
    Units <- MCUnits
    Layouts <- MCLayouts
    Viewports <- MCViewports
    Values <- MCValues
    Initial = zero
    Applications <- MCApplications
INVARIANT ViewportApplies
