------------------------------ MODULE MCSharding ------------------------------
EXTENDS Sharding

CONSTANTS a, b

AllUnset == [d \in Deployments |-> "unset"]
===============================================================================
