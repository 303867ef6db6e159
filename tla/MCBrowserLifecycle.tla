------------------------- MODULE MCBrowserLifecycle -------------------------
(***************************************************************************)
(* Two connection identities, two shutdowns at a time, three runtimes.     *)
(***************************************************************************)
EXTENDS BrowserLifecycle, TLC

CONSTANTS a, b, k1, k2

Identities == {a, b}
Closers == {k1, k2}

InterchangeableNames == Permutations(Identities) \cup Permutations(Closers)
=============================================================================
