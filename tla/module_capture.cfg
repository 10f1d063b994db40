SPECIFICATION Spec
CONSTANTS
    oot = oot
    helper = helper
    Modules <- MCModules
    Marker <- MCMarker
    Traceable <- MCTraceable
    Regions <- MCRegions
    RegionsOf <- MCRegionsOf
    SymbolsOf <- MCSymbolsOf
    Phantoms = {x1}
    Functions = {f1}
    Subverted = TRUE
    MaxChurn = 2
    Faults = {"mandatory", "vmalloc", "ftrace", "kallsyms", "enabled", "emptyKallsyms", "malformed"}
    NoName = NoName
INVARIANTS
    TypeOK
    HonestReportIsChurn
    UnreadableAccusesNoOne
    
    HiddenRegionIsCounted
    HiddenIsNamed
    LoneHiddenModuleTakesAllEvidence
    PhantomIsSurfaced
    EvidenceIsConserved
    NoMixedChannels
