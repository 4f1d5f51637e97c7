---------------------------- MODULE MCDistUpgrade ----------------------------
(* Small instances of DistUpgrade.                                          *)
EXTENDS DistUpgrade

\* Apt snapshots and quasselcore are both enabled: both are to be put back.
Both == {<<TRUE, TRUE>>}

==============================================================================
