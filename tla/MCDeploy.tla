------------------------------ MODULE MCDeploy ------------------------------
EXTENDS DeployPipeline
=============================================================================
