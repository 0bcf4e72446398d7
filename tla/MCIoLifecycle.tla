----------------------------- MODULE MCIoLifecycle -----------------------------
EXTENDS IoLifecycle
================================================================================
