------------------------------ MODULE MCHwStack -------------------------------
EXTENDS HwStack

\* Two pairs whose halves differ, so that a swapped half or slot shows.
MCPairs == {<<0, 1>>, <<1, 0>>}

\* Clear the stack, drop one frame, set UF alone, set SE.
MCSpValues == {<<0, FALSE, FALSE>>, <<1, FALSE, FALSE>>,
               <<1, FALSE, TRUE>>, <<2, TRUE, FALSE>>}

\* Clear the counter, set it within its upper half, and a value the register
\* mask cuts (7 becomes 1).
MCScValues == {0, 4, 7}
===============================================================================
