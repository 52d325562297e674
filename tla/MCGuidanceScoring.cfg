SPECIFICATION Spec
CONSTANTS
    Factor = 19333
    Applications <- MCApplications
    Tables <- MCTables
    Processes = {"app", "worker"}
    Texts <- MCTexts
    NoValue = NoValue
INVARIANTS
    PublicationSound
    FaithfulPasses
    WeakerNeverBetter
    ShortlistIsBest
    BandIsOfTheBurden
