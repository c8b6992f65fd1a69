\* Leads and metrics of one person while Klaviyo and TikTok fail.
CONSTANTS
    l1 = l1  l2 = l2
    d1 = d1  d2 = d2
    Leads = {l1, l2}
    LeadData <- MCLeadData
    Edits <- MCEdits
    Deliveries = {d1, d2}
    Sources <- MCSources
    NationalLength = 10
    MaxRetries = 1
    None = None
    Faults = {"api", "reply"}
SPECIFICATION Spec
SYMMETRY MCSymmetry
INVARIANTS TypeOK NoPlaintext OnePersonOneKey LeadComesBack IdOfTheEvent
           
CHECK_DEADLOCK FALSE
