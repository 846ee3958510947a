---------------------------- MODULE MCFieldSync ----------------------------
(***************************************************************************)
(* TLC instance of FieldSync: integers of three bits (-4 to 3), so that 5  *)
(* does not fit and would wrap around to -3; 1 is AWS's default.           *)
(***************************************************************************)
EXTENDS FieldSync

\* Scalars that AWS fills in when a create leaves them unset.
MCDefaulted ==
  {"DefaultCooldown", "DesiredCapacity", "HealthCheckGracePeriod", "HealthCheckType",
   "ServiceLinkedRoleARN", "TerminationPolicies", "VPCZoneIdentifier",
   "NewInstancesProtectedFromScaleIn", "MIP.InstancesDistribution"}

MCVals == {1, 2, 5}
=============================================================================
