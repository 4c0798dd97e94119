----------------------------- MODULE MCCuration -----------------------------
EXTENDS Curation

CONSTANTS good, bare, repost, m1, m2

NoLinks   == <<>>
=============================================================================
