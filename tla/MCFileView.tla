----------------------------- MODULE MCFileView -----------------------------
EXTENDS MCFiles, FileView

\* answer is read by no action, and tree and here follow from the rest as
\* long as they are read.
Seen == <<NotDone, careful>>
=============================================================================
