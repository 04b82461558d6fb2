--------------------------- MODULE MCDrawioEditor ---------------------------
EXTENDS DrawioEditor
=============================================================================
