\* The extension chain of one run up to five events; two PostgreSQL sessions on one run.
SPECIFICATION MCSpec
CONSTANTS
    k1 = k1  k2 = k2  s1 = s1  s2 = s2
    Owners = {"w1"}
    Tasks = {"t1", "t2"}
    BindingIds = {"e1", "e2"}
    Keys = {1, 2, 3, 4, 5}
    Bindings <- MCBindings
    Payloads <- MCPayloads
    Marks = {1, 2}
    Sessions <- MCSessions
    StoreTasks = {"t1"}
    StoreBindingIds = {"e1"}
    StoreKeys <- MCStoreKeys
    StoreBindings <- MCStoreBindings
    StorePayloads <- MCStorePayloads
    StoreMarks = {1}
    ReceiptKeys = {"r1"}
    Contents = {"a"}
    MaxVersion = 2
    MaxEvents = 1
INVARIANTS EvidencePrecedes RowsMatchChain UnderBinding StoreRules
PROPERTIES ImplementsLedger
SYMMETRY Symmetry
CHECK_DEADLOCK FALSE
