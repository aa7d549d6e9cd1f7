----------------------------- MODULE MCCapture -----------------------------
EXTENDS Capture
=============================================================================
