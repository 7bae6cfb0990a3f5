SPECIFICATION SchemaSpec
CONSTANTS
    p1 = p1
    p2 = p2
    Runners <- TwoRunners
INVARIANT MigratedSchemaServes
