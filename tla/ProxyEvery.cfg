SPECIFICATION Spec
CONSTANTS
    MaxU64 = 40
    MaxBody = 2
    Request = {r1}
    Scraper = {s1}
    Message <- Every
    Location = {"elsewhere"}
    MaxRedirects = 2
CONSTRAINT
    ScrapesBeforeRedirects
INVARIANTS
    TypeOK
    
PROPERTIES
    UsesMetrics
