----------------------------- MODULE MCCapture -----------------------------
EXTENDS CaptureSession
=============================================================================
