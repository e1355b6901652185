--------------------------- MODULE MCHostScanners ---------------------------
EXTENDS HostScanners

AllStages == DOMAIN Groups \union DOMAIN InventoryScanners \union DOMAIN ExposureScanners
=============================================================================
