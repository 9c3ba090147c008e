SPECIFICATION FairSpec
CONSTANTS
    None = None
    Blank = Blank
    Filler = Filler
    Mangled = Mangled
    Numbers = {"1"}
    Booleans = {"true"}
    Machines <- MCMachines
    Variants <- MCVariants
    Agents <- MCAgents
    Servers = {"s1", "s2"}
    Lower <- MCLower
    Platforms = {"linux", "macos", "windows"}
    MaxTroubles = 1
PROPERTIES NothingInvented Complete ServersCatchUp
CHECK_DEADLOCK FALSE
