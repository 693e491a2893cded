SPECIFICATION Spec
CONSTANTS
    Owners = {alice}
    HoldIds = {h1, h2}
    Amounts = {1, 2}
    Clients = {c1, c2}
    Retries = 2
    INITIAL_FUND = 2
    BalanceCap = 2
INVARIANTS WalletsSound MirrorsNameHolds
PROPERTIES ImplementsAtomicWallet
