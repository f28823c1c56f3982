CONSTANTS
    i1 = i1
    i2 = i2
    i3 = i3
    Ids <- MCIds
    Types <- MCTypes
    MaxInFlight = 5
    ForcedRelease = FALSE
SPECIFICATION Spec
PROPERTIES
    GrantedMeansOpen
