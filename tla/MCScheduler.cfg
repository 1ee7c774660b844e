CONSTANTS
    Configs <- AllConfigs
    NoOpening = NoOpening
SPECIFICATION Spec
INVARIANTS
    PairingIdIsEncounter
    CompleteWhenExhausted
