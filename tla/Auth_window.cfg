SPECIFICATION Spec
CONSTANTS
    alice = alice
    bob = bob
    aliceAddress = aliceAddress
    aliceKey = aliceKey
    bobAddress = bobAddress
    Keys = {alice, bob}
    Names = {aliceAddress, aliceKey, bobAddress}
    Owner <- WalletOf
    HubChain = here
    Chains = {here, there}
    NoChain = none
    Timestamps <- AllTimestamps
    Half = 16
    Window = 1
    Lifetime = 2
    Leeway = 1
    Sockets = {w1}
    MaxTime = 2
    MaxSigned = 1
CHECK_DEADLOCK FALSE
INVARIANTS
    WindowHolds
