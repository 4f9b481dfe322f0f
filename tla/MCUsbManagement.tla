-------------------------- MODULE MCUsbManagement ---------------------------
EXTENDS UsbManagement
=============================================================================
