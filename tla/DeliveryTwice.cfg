\* The deliveries of one edition to two addresses; the guard the specification
\* of the newsletters promises is refuted.
SPECIFICATION DeliverySpec
CONSTANTS
    Addresses = {a1, a2}
    MaxMails = 2
INVARIANT
    SentOncePerEdition
CHECK_DEADLOCK FALSE
