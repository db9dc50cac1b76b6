------------------------------- MODULE MCPlugin -------------------------------
EXTENDS Plugin

MCSelections == {{1, 2}}
=============================================================================
