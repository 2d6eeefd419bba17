SPECIFICATION Spec
CONSTANTS
    Workers = {w1, w2}
    t1 = t1
    t2 = t2
    d = d
    pay = pay
    Tokens = {t1, t2}
    Donors = {d}
    DonorOf <- MCDonorOf
    SenderOf <- MCSenderOf
    Messages = {pay}
    Payments = {pay}
    None = None
    Days = {0, 1, 2}
    Delta = 2
    Grace = 1
    Interval = 1
    MaxTime = 3
    MaxSent = 2
    MaxUpdates = 2
SYMMETRY Symmetry
INVARIANTS RecordedIsCredited CreditedOnceAlone
PROPERTIES PaidIsExtended
CHECK_DEADLOCK FALSE
