--------------------------- MODULE MCReportBundle ---------------------------
EXTENDS ReportBundle
=============================================================================
