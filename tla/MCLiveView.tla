------------------------------ MODULE MCLiveView ------------------------------
EXTENDS LiveView

CONSTANTS a, x
=============================================================================
