-------------------------- MODULE MCCameraMonitor --------------------------
\* Instance of CameraMonitor for TLC.
EXTENDS CameraMonitor
===========================================================================
