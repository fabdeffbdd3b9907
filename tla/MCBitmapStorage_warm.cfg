\* Two clients with two calls each, two ids, a warmer returning one id;
\* clients call every method.
CONSTANTS
    Clients = {c1, c2}
    Bg = bg
    Elems = {1, 2}
    WarmData = {1}
    ClientOps = {"UpsertMany", "RemoveMany", "Clear", "Warm", "Replicate", "Recover", "DropReplicationKey"}
    MaxCalls = 2
SPECIFICATION Spec
INVARIANT WarmOnlyIntoEmpty
\* The program goes idle once the clients have made their calls and the
\* cancelled background goroutine has returned.
CHECK_DEADLOCK FALSE
