SPECIFICATION FairSpec
CONSTANTS
    Legs = {1, 2}
    BatchOf <- OneLegEach
    CanQuery = FALSE
PROPERTIES
    SoundLegsAreSubmitted
