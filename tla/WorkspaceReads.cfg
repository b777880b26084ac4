SPECIFICATION Spec
CONSTANTS
    NameOrder <- MCNameOrder
    DeniedNames = {".env"}
    DeniedDirs = {".git"}
    GitIgnored = {"log"}
    ShownAs <- MCShownAs
    Bytes <- MCBytes
    Ascii <- MCAscii
    Lower <- MCLower
    Newline = "LF"
    Trees <- MCTrees
    Roots <- MCRoots
    Cwd <- MCCwd
    Opens <- MCOpens
    Inputs <- MCInputs
    Patterns <- MCPatterns
    Needles <- MCNeedles
    Forms <- MCForms
    MaxRead = 5
    MaxOutput = 6
    MinShare = 2
    Marker <- MCMarker
    Limits = {1, 3}
    MaxWorkspaces = 2
INVARIANTS
    TypeOK
    WalksAgree
    ShownCanBeRead
    IndexAccelerates
    ReadsTell
