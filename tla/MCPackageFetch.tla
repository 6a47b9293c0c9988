--------------------------- MODULE MCPackageFetch ---------------------------
EXTENDS PackageFetch
=============================================================================
