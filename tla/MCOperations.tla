----------------------------- MODULE MCOperations -----------------------------
EXTENDS Operations

CONSTANTS c1, c2

Both(a, b) == [c \in {c1, c2} |-> IF c = c1 THEN a ELSE b]

\* Actions that leave something behind, or look at what others do.
Shared == {"navigate", "clickAt", "enter", "pressKey", "screenshot", "setViewport",
           "waitFor", "intercept", "attach"}

\* Two callers at once: with the same action, or with one that changes what others see.
Pairs == {Both(<<a>>, <<a>>) : a \in Shared}
         \cup {Both(<<a>>, <<b>>) : a \in {"navigate", "setViewport"}, b \in Shared \ {"attach"}}

\* One caller, with one of these and then any action at all.
Rows == {Both(<<a, b>>, << >>) : a \in Shared, b \in Actions}

MCBatches == Pairs \cup Rows
=============================================================================
