------------------------- MODULE MCMarkdownAgreement -------------------------
EXTENDS MarkdownAgreement, MCTypeGraphs

MCInputs == UNION {MCResourceTables, MCFunctionTables, MCOrderTables, MCElementTables,
                   MCEqualNames}
==============================================================================
