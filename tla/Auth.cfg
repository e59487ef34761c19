SPECIFICATION Spec
CONSTANTS
    alice = alice
    bob = bob
    aliceAddress = aliceAddress
    aliceKey = aliceKey
    bobAddress = bobAddress
    Keys = {alice, bob}
    Names = {aliceAddress, aliceKey, bobAddress}
    Owner <- WalletOf
    HubChain = here
    Chains = {here, there}
    NoChain = none
    Timestamps <- SomeTimestamps
    Half = 16
    Window = 1
    Lifetime = 2
    Leeway = 1
    Sockets = {w1}
    MaxTime = 6
    MaxSigned = 2
CHECK_DEADLOCK FALSE
INVARIANTS
    AuthTypeOK
    OwnersOnly
    WindowIsExact
    ProofsRunOut
    HonestLoginWorks
