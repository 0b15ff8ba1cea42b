---------------------------- MODULE MCDeployment ----------------------------
EXTENDS Deployment, TLC
=============================================================================
