SPECIFICATION FairSpec
CONSTANTS
    Names <- MCNames
    Info <- MCInfo
    Initial = {"logo", "main", "v1"}
    Lines <- AllLines
    CanFail = {"pic"}
    MainProducts = {1}
    MaxLines = 3
INVARIANTS ListInv DecodersOwned SwitchedDecoders DrawsWhatIsListed
PROPERTIES AddedIsListed
