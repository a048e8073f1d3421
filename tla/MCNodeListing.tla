----------------------------- MODULE MCNodeListing -----------------------------
EXTENDS NodeListing
===============================================================================
