----------------------------- MODULE MCCapture -----------------------------
EXTENDS Capture

O(r, j, l, b) == [raw |-> r, json |-> j, link |-> l, bridge |-> b]

\* A capture to all sinks, from the bridge to lines and uplink, or to the uplink
\* alone; the last two are the options of the replays as well.
MCOptions == {O(TRUE, TRUE, TRUE, FALSE), O(FALSE, TRUE, TRUE, TRUE),
              O(FALSE, FALSE, TRUE, FALSE), O(FALSE, TRUE, FALSE, FALSE)}

\* Imports that end inside a record, of two records, and of a record of no
\* known code before one of a known one.
MCArchives == {<<"log", "part">>, <<"log", "log">>, <<"other", "log">>}
=============================================================================
