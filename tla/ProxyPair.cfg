SPECIFICATION HandlerSpec
CONSTANTS
    MaxU64 = 40
    MaxBody = 2
    Request = {r1, r2}
    Scraper = {}
    Message <- Pair
    Location = {"elsewhere"}
    MaxRedirects = 0
INVARIANTS
    OutcomesAreCounted
    DeliveredIsCounted
PROPERTIES
    HandlersProceed
    RequestsEnd
