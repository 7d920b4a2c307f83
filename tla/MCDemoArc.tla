------------------------------- MODULE MCDemoArc -------------------------------
\* Instances of DemoArc for TLC.
EXTENDS DemoArc
===============================================================================
