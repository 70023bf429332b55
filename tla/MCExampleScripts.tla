--------------------------- MODULE MCExampleScripts ---------------------------
EXTENDS ExampleScripts, TLC

Csv(n)   == [directory |-> "sample/CSV", extension |-> ".csv", rank |-> n]
Notes    == [directory |-> "sample/CSV", extension |-> ".txt", rank |-> 0]
Sheet(n) == [directory |-> "sample/excel", extension |-> ".xlsx", rank |-> n]
Other    == [directory |-> "other", extension |-> ".csv", rank |-> 4]

MCPaths    == {Notes, Csv(1), Csv(2), Sheet(3), Other}
MCDefaults == <<Csv(2), Sheet(3)>>
=============================================================================
