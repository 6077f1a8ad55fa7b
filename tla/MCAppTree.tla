----------------------------- MODULE MCAppTree -----------------------------
\* AppTree on small applications; the UUIDs are given in the .cfg.
EXTENDS AppTree
=============================================================================
