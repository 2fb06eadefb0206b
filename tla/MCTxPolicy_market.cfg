CONSTANTS
    epoch_blocks = 100
    max_epoch_lag = 1
    quota = 1
    ticket_price = 1520
    max_fee = 1520
    max_tip = 2
    min_l2_gas = 10
    MaxU64 = 1000
    Kinds <- MCKinds
    l2_gas <- MCGas
    L1_DATA_GAS = 2
    TIP = 1
    Scales = {1, 10, 100, 1000, 10000, 100000}
    Prices <- MCPrices
SPECIFICATION Spec
INVARIANTS PoolTakesPublish RefusedOnlyWhenShort SurvivesRise
