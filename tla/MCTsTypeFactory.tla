--------------------------- MODULE MCTsTypeFactory ---------------------------
EXTENDS TsTypeFactory
==============================================================================
