SPECIFICATION Spec
CONSTANTS
    Wallets = {}
    Validators <- ShownValidators
    Services <- ShownServices
    None = None
    MaxTimers = 2
    SliderValues <- SmallSliders
    DefaultParams <- SmallDefaults
    NoResults = NoResults
    MaxServiceId = 2
    MaxOnChain = 3
    Undefined = Undefined
    Failed = Failed
    Missing = Missing
    NoAddress = NoAddress
INVARIANTS
    TypeOK
    EffectiveExactAtFirst
    ViewsAgree
    VerdictSound
    ShownExist
PROPERTIES
    SlashNeverRaises
    ButtonsReturn
    BannerClears
