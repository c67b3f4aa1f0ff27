SPECIFICATION Spec
CONSTANTS
    MaxU64 = 3
    Task = {t1, t2}
    Scraper = {s1}
    Reports <- MCReports
    Counted <- MCCounted
    Amount <- MCAmount
INVARIANTS
    SnapshotCoversTypes
    TypesAddUpAtRest
PROPERTY
    ScrapesNeverGoBack
