\* Two traders, prices that move between reading and trading, products that
\* saturate.
CONSTANTS
    Trader = {t1, t2}
    Admin = admin
    Zero = zero
    Price = {0, 1, 3, 4}
    Amount = {0, 1, 2, 5}
    PriceScale = 2
    MaxU128 = 15
SPECIFICATION MarketSpec
INVARIANTS
    MarketTypeOK
    NeverAboveLimit
