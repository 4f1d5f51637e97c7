----------------------------- MODULE MCAppSetup -----------------------------
(* Instances of AppSetup for TLC.                                          *)
EXTENDS AppSetup

CONSTANTS e, n

\* An essential app and one that users install; _sort_apps puts e first.
mcAppList == <<e, n>>
\* The first upgrade of n with a conffile prompt is declined, the next is not.
mcDeclining == {<<n, 2>>}
\* One app, for the runs in which everybody acts on it.
mcOneApp == <<n>>
=============================================================================
