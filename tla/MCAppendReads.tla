---- MODULE MCAppendReads ----
EXTENDS AppendReads
====
