----------------------------- MODULE MCS3Uploader -----------------------------
\* Small instances of S3Uploader for TLC.
EXTENDS S3Uploader, TLC

CONSTANTS e1, e2, none

\* Events differ in nothing but their name.
Interchangeable == Permutations(Events)
=============================================================================
