SPECIFICATION Spec
CONSTANTS
    big = big
    small = small
    Bills <- BothBills
    Largest <- Sizes
    MaxNumber = 3
INVARIANTS
    TypeOK
    ChecksShareTheBill
    TakenIsRecorded
    CashCoversSettlement
    SettledWithinBill
    GroupedIsSettled
