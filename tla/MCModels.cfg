SPECIFICATION ModelSpec
CONSTANTS
    Plan = {"plus", "free"}
    Static <- MCStatic
    Alias <- MCAlias
    Lists <- MCLists
    DefaultModel <- MCDefault
    Tier = {"fast", "flex"}
    Effort = {"none", "high"}
    MaxRetries = 1
    MaxReloads = 1
INVARIANTS CatalogueKept
PROPERTIES NothingTakenBack
CONSTRAINT FewWrites
CHECK_DEADLOCK FALSE
