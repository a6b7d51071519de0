--------------------------- MODULE MCLocalSources ---------------------------
\* Instances of the local-file browser with its worker and grant registry.
EXTENDS LocalSourceBrowser
=============================================================================
