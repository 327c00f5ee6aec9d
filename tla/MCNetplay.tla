------------------------------ MODULE MCNetplay ------------------------------
EXTENDS Netplay
=============================================================================
