------------------------------- MODULE MCCalldata -------------------------------
EXTENDS Calldata
================================================================================
