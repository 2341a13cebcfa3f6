\* Two accounts, two changes of account or mode, two polls per request.
CONSTANTS
    Account = {a1, a2}
    None = None
    MaxChanges = 2
    Retries = 2
SPECIFICATION FairSpec
CHECK_DEADLOCK FALSE
INVARIANTS
    AskedOnceUnlessFailed
    OneVoucherPerAccount
PROPERTIES
    EventuallyServed
    IndicatorGoesOut
