------------------------------ MODULE MCCoverage ------------------------------
\* Model values for the texts of the small instance.
EXTENDS Coverage

CONSTANTS x, y
===============================================================================
