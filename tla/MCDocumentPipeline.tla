------------------------ MODULE MCDocumentPipeline ------------------------
EXTENDS DocumentPipeline

CONSTANTS i1, i2
=============================================================================
