CONSTANTS
    Channel = {ch1, ch2, ch3}
    Loop = {l1, l2}
    Events = {in, out}
    None = none
    MoveActive = FALSE
SPECIFICATION Spec
SYMMETRY Symmetry
INVARIANTS
    NoFault
    KernelAgrees
    NoDanglingInterest
    NoZombie
PROPERTIES
    NoEventAfterDestroy
