------------------------------ MODULE MCOtaBank ------------------------------
EXTENDS OtaBank
=============================================================================
