SPECIFICATION Spec
CONSTANTS
    Runs = {r1, r2, bot}
    TestBots = {bot}
    NumOrders = 3
    Fills <- LimitAndOdd
    Confirmations <- Answered
    MaxEvents = 3
    MaxRedeliveries = 1
    MaxRestarts = 1
SYMMETRY Symmetry
INVARIANTS BookInv AlarmsAreExplained BotAlarmsComeFromOthers RedeliveryStable
 
CHECK_DEADLOCK FALSE
