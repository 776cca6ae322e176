--------------------------- MODULE MCAnchorWorker ---------------------------
EXTENDS AnchorWorker
=============================================================================
