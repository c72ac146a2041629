SPECIFICATION FairSpec
CONSTANTS
    r1 = r1
    r2 = r2
    Roosts = {r1, r2}
    Tenants = {"blue", "red"}
    Configurations <- SomeConfigurations
    MaxEdits = 1
    MaxFaults = 1
CHECK_DEADLOCK FALSE
 
PROPERTIES  TenancySettles
