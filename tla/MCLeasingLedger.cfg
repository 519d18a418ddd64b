CONSTANTS
    r1 = r1
    r2 = r2
    p1 = p1
    w1 = w1
    i1 = i1
    i2 = i2
    e1 = e1
    Receivables <- TwoReceivables
    Payments <- OnePayment
    Waivers <- OneWaiver
    Invoices <- TwoInvoices
    Editors <- OneEditor
    Dues <- Due
    Amounts <- Unit
    Tolerance = 0
    MaxApplied = 2
    MaxInvoiced = 2
    MaxOfOne = 4
    MaxOfBoth = 2
SPECIFICATION Spec
INVARIANTS
    TypeOK
PROPERTIES
    MixedOnlyByStaleSave
    DriftOnlyByStaleWrite
    ShrinksOnlyByStaleSave
CONSTRAINT Bounded
SYMMETRY InvoiceSymmetry
CHECK_DEADLOCK FALSE
