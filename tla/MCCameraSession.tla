--------------------------- MODULE MCCameraSession ---------------------------
EXTENDS CameraSession
=============================================================================
