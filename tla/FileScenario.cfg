SPECIFICATION Spec
CONSTANTS
    StrideAlign = 8
    PoolSlots = 2
    MaxText = 33
    Bad = Bad
    Commands = {0, 3, 9}
    Texts <- MCTexts
    ImageFile <- MCImageFile
INVARIANTS
    TypeOK
    AcceptedIsUnmixed
    
    
    AllGivenBack
