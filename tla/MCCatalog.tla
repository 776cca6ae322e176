----------------------------- MODULE MCCatalog -----------------------------
\* Values for the model checker: one catalog that answers with a limit of its own.
EXTENDS Catalog

CONSTANTS u, v, bazaar, market, cheap, dear
ClampedBazaar == [s \in Source |-> IF s = bazaar THEN 1 ELSE PageSize]
=============================================================================
