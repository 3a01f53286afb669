SPECIFICATION Spec
CONSTANTS
    Runs = {r1, bot}
    TestBots = {bot}
    NumOrders = 2
    Fills <- Limit
    Confirmations <- Answered
    MaxEvents = 3
    MaxRedeliveries = 0
    MaxRestarts = 0
INVARIANT CompliantBotPasses
CHECK_DEADLOCK FALSE
