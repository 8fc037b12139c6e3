SPECIFICATION Spec
CONSTANTS
    None = None
    Kind <- AllKinds
    Tasks <- AllKindsTasks
INVARIANTS
    OnlyBrokenReplaced
    ReplacedSocketWakes
