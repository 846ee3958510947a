----------------------------- MODULE ASGFields -----------------------------
(***************************************************************************)
(* The spec fields of an AutoScalingGroup and what each generated function *)
(* does with them: which ones newCreateRequestPayload and                  *)
(* newUpdateRequestPayload send, which ones sdkFind overwrites from the    *)
(* DescribeAutoScalingGroups answer, which ones newResourceDelta compares, *)
(* and which integers are checked against the 32 bits of the AWS API.      *)
(*                                                                         *)
(* A field is a string: the path below Spec, with "MIP" for                *)
(* MixedInstancesPolicy and "IR" for the InstanceRequirements of its       *)
(* overrides.  A value is an integer standing for the field's content      *)
(* (only its equality and, for an integer field, its width matter), or Nil *)
(* for an absent pointer or an empty list.                                 *)
(***************************************************************************)
EXTENDS Integers

CONSTANTS
  Nil,              \* an unset field
  MaxInt32,         \* math.MaxInt32, the largest integer of the API
  DefaultedFields,  \* fields that AWS fills in when a create leaves them unset
  DefaultValue      \* the value AWS gives them

ASSUME FieldAssumptions ==
  /\ MaxInt32 \in Nat
  /\ DefaultValue \in Int
  /\ Nil \notin Int

Value == Int \cup {Nil}

(***************************************************************************)
(* The API types: every field that a user can write, but for the tags.     *)
(* The tables below are each taken from their own function; a field that   *)
(* all of them forget is in this list only.                                *)
(***************************************************************************)
SpecUpToInstance ==
  {"AvailabilityZoneDistribution", "AvailabilityZoneImpairmentPolicy", "AvailabilityZones",
   "CapacityRebalance", "CapacityReservationSpecification", "DefaultCooldown",
   "DefaultInstanceWarmup", "DesiredCapacity", "DesiredCapacityType",
   "HealthCheckGracePeriod", "HealthCheckType", "InstanceID", "InstanceLifecyclePolicy",
   "InstanceMaintenancePolicy", "InstanceRef"}

SpecFromLaunch ==
  {"LaunchConfigurationName", "LaunchTemplate", "LifecycleHookSpecificationList",
   "LoadBalancerNames", "MaxInstanceLifetime", "MaxSize", "MinSize", "Name",
   "NewInstancesProtectedFromScaleIn", "PlacementGroup", "ServiceLinkedRoleARN",
   "ServiceLinkedRoleRef", "SkipZonalShiftValidation", "TargetGroupARNs", "TargetGroupRefs",
   "TerminationPolicies", "TrafficSources", "VPCZoneIdentifier"}

PolicyFields == {"MIP.InstancesDistribution", "MIP.LaunchTemplateSpecification"}

OverrideFields ==
  {"MIP.Overrides.ImageID", "MIP.Overrides.InstanceType",
   "MIP.Overrides.LaunchTemplateSpecification", "MIP.Overrides.WeightedCapacity"}

RequirementFields ==
  {"IR.AcceleratorCount", "IR.AcceleratorManufacturers", "IR.AcceleratorNames",
   "IR.AcceleratorTotalMemoryMiB", "IR.AcceleratorTypes", "IR.AllowedInstanceTypes",
   "IR.BareMetal", "IR.BaselineEBSBandwidthMbps", "IR.BaselinePerformanceFactors",
   "IR.BurstablePerformance", "IR.CPUManufacturers", "IR.ExcludedInstanceTypes",
   "IR.InstanceGenerations", "IR.LocalStorage", "IR.LocalStorageTypes",
   "IR.MaxSpotPriceAsPercentageOfOptimalOnDemandPrice", "IR.MemoryGiBPerVCPU", "IR.MemoryMiB",
   "IR.NetworkBandwidthGbps", "IR.NetworkInterfaceCount",
   "IR.OnDemandMaxPricePercentageOverLowestPrice", "IR.RequireHibernateSupport",
   "IR.SpotMaxPricePercentageOverLowestPrice", "IR.TotalLocalStorageGB", "IR.VCPUCount"}

SpecFields ==
  SpecUpToInstance \cup SpecFromLaunch \cup PolicyFields \cup OverrideFields
    \cup RequirementFields

(***************************************************************************)
(* newCreateRequestPayload: every field of the CreateAutoScalingGroup call.*)
(* Tags are modelled in TagOps.                                            *)
(***************************************************************************)
CreateBasics ==
  {"Name", "AvailabilityZoneDistribution", "AvailabilityZoneImpairmentPolicy",
   "AvailabilityZones", "CapacityRebalance", "CapacityReservationSpecification",
   "DefaultCooldown", "DefaultInstanceWarmup", "DesiredCapacity",
   "DesiredCapacityType", "HealthCheckGracePeriod", "HealthCheckType",
   "InstanceID", "InstanceLifecyclePolicy", "InstanceMaintenancePolicy"}

CreateLaunch ==
  {"LaunchConfigurationName", "LaunchTemplate", "LifecycleHookSpecificationList",
   "LoadBalancerNames", "MaxInstanceLifetime", "MaxSize", "MinSize",
   "MIP.InstancesDistribution", "MIP.LaunchTemplateSpecification"}

CreateRequirements1 ==
  {"MIP.Overrides.ImageID", "IR.AcceleratorCount", "IR.AcceleratorManufacturers", "IR.AcceleratorNames",
   "IR.AcceleratorTotalMemoryMiB", "IR.AcceleratorTypes", "IR.AllowedInstanceTypes",
   "IR.BareMetal", "IR.BaselineEBSBandwidthMbps", "IR.BaselinePerformanceFactors",
   "IR.BurstablePerformance", "IR.CPUManufacturers"}

CreateRequirements2 ==
  {"IR.ExcludedInstanceTypes", "IR.InstanceGenerations", "IR.LocalStorage",
   "IR.LocalStorageTypes", "IR.MaxSpotPriceAsPercentageOfOptimalOnDemandPrice",
   "IR.MemoryGiBPerVCPU", "IR.MemoryMiB", "IR.NetworkBandwidthGbps",
   "IR.NetworkInterfaceCount", "IR.OnDemandMaxPricePercentageOverLowestPrice",
   "IR.RequireHibernateSupport", "IR.SpotMaxPricePercentageOverLowestPrice",
   "IR.TotalLocalStorageGB", "IR.VCPUCount"}

CreateTail ==
  {"MIP.Overrides.InstanceType", "MIP.Overrides.LaunchTemplateSpecification",
   "MIP.Overrides.WeightedCapacity", "NewInstancesProtectedFromScaleIn",
   "PlacementGroup", "ServiceLinkedRoleARN", "SkipZonalShiftValidation",
   "TargetGroupARNs", "TerminationPolicies", "TrafficSources", "VPCZoneIdentifier"}

CreateFields ==
  CreateBasics \cup CreateLaunch \cup CreateRequirements1 \cup CreateRequirements2
    \cup CreateTail

(***************************************************************************)
(* newUpdateRequestPayload: every field of the UpdateAutoScalingGroup call.*)
(***************************************************************************)
UpdateBasics ==
  {"Name", "AvailabilityZoneDistribution", "AvailabilityZoneImpairmentPolicy",
   "AvailabilityZones", "CapacityRebalance", "CapacityReservationSpecification",
   "DefaultCooldown", "DefaultInstanceWarmup", "DesiredCapacity",
   "DesiredCapacityType", "HealthCheckGracePeriod", "HealthCheckType",
   "InstanceLifecyclePolicy", "InstanceMaintenancePolicy"}

\* Mutant: MaxInstanceLifetime forgotten in the update payload.
MutUpdateLaunch ==
  {"LaunchConfigurationName", "LaunchTemplate", "MaxSize", "MinSize",
   "MIP.InstancesDistribution", "MIP.LaunchTemplateSpecification"}

UpdateLaunch ==
  {"LaunchConfigurationName", "LaunchTemplate", "MaxInstanceLifetime", "MaxSize",
   "MinSize", "MIP.InstancesDistribution", "MIP.LaunchTemplateSpecification"}

UpdateRequirements1 ==
  {"MIP.Overrides.ImageID", "IR.AcceleratorCount", "IR.AcceleratorManufacturers", "IR.AcceleratorNames",
   "IR.AcceleratorTotalMemoryMiB", "IR.AcceleratorTypes", "IR.AllowedInstanceTypes",
   "IR.BareMetal", "IR.BaselineEBSBandwidthMbps", "IR.BaselinePerformanceFactors",
   "IR.BurstablePerformance", "IR.CPUManufacturers"}

UpdateRequirements2 ==
  {"IR.ExcludedInstanceTypes", "IR.InstanceGenerations", "IR.LocalStorage",
   "IR.LocalStorageTypes", "IR.MaxSpotPriceAsPercentageOfOptimalOnDemandPrice",
   "IR.MemoryGiBPerVCPU", "IR.MemoryMiB", "IR.NetworkBandwidthGbps",
   "IR.NetworkInterfaceCount", "IR.OnDemandMaxPricePercentageOverLowestPrice",
   "IR.RequireHibernateSupport", "IR.SpotMaxPricePercentageOverLowestPrice",
   "IR.TotalLocalStorageGB", "IR.VCPUCount"}

UpdateTail ==
  {"MIP.Overrides.InstanceType", "MIP.Overrides.LaunchTemplateSpecification",
   "MIP.Overrides.WeightedCapacity", "NewInstancesProtectedFromScaleIn",
   "PlacementGroup", "ServiceLinkedRoleARN", "SkipZonalShiftValidation",
   "TerminationPolicies", "VPCZoneIdentifier"}

UpdateFields ==
  UpdateBasics \cup UpdateLaunch \cup UpdateRequirements1 \cup UpdateRequirements2
    \cup UpdateTail

(***************************************************************************)
(* sdkFind: every spec field overwritten from the group found.  A field    *)
(* that is not listed keeps, in the observed resource, the value of the    *)
(* resource the caller passed in.                                          *)
(***************************************************************************)
FindBasics ==
  {"Name", "AvailabilityZoneDistribution", "AvailabilityZoneImpairmentPolicy",
   "AvailabilityZones", "CapacityRebalance", "CapacityReservationSpecification",
   "DefaultCooldown", "DefaultInstanceWarmup", "DesiredCapacity",
   "DesiredCapacityType", "HealthCheckGracePeriod", "HealthCheckType",
   "InstanceLifecyclePolicy", "InstanceMaintenancePolicy"}

FindLaunch ==
  {"LaunchConfigurationName", "LaunchTemplate", "LoadBalancerNames",
   "MaxInstanceLifetime", "MaxSize", "MinSize",
   "MIP.InstancesDistribution", "MIP.LaunchTemplateSpecification"}

FindRequirements ==
  {"MIP.Overrides.ImageID", "IR.AcceleratorCount", "IR.AcceleratorManufacturers", "IR.AcceleratorNames",
   "IR.AcceleratorTotalMemoryMiB", "IR.AcceleratorTypes", "IR.AllowedInstanceTypes",
   "IR.BareMetal", "IR.BaselineEBSBandwidthMbps", "IR.BaselinePerformanceFactors",
   "IR.BurstablePerformance", "IR.CPUManufacturers", "IR.ExcludedInstanceTypes",
   "IR.InstanceGenerations", "IR.LocalStorage", "IR.LocalStorageTypes",
   "IR.MaxSpotPriceAsPercentageOfOptimalOnDemandPrice"}

\* Mutant: VPCZoneIdentifier is not read back.
MutFindTail ==
  {"IR.MemoryGiBPerVCPU", "IR.MemoryMiB", "IR.NetworkBandwidthGbps",
   "IR.NetworkInterfaceCount", "IR.OnDemandMaxPricePercentageOverLowestPrice",
   "IR.RequireHibernateSupport", "IR.SpotMaxPricePercentageOverLowestPrice",
   "IR.TotalLocalStorageGB", "IR.VCPUCount", "MIP.Overrides.InstanceType",
   "MIP.Overrides.LaunchTemplateSpecification", "MIP.Overrides.WeightedCapacity",
   "NewInstancesProtectedFromScaleIn", "PlacementGroup", "ServiceLinkedRoleARN",
   "TargetGroupARNs", "TerminationPolicies", "TrafficSources"}

FindTail ==
  {"IR.MemoryGiBPerVCPU", "IR.MemoryMiB", "IR.NetworkBandwidthGbps",
   "IR.NetworkInterfaceCount", "IR.OnDemandMaxPricePercentageOverLowestPrice",
   "IR.RequireHibernateSupport", "IR.SpotMaxPricePercentageOverLowestPrice",
   "IR.TotalLocalStorageGB", "IR.VCPUCount", "MIP.Overrides.InstanceType",
   "MIP.Overrides.LaunchTemplateSpecification", "MIP.Overrides.WeightedCapacity",
   "NewInstancesProtectedFromScaleIn", "PlacementGroup", "ServiceLinkedRoleARN",
   "TargetGroupARNs", "TerminationPolicies", "TrafficSources", "VPCZoneIdentifier"}

FindFields == FindBasics \cup FindLaunch \cup FindRequirements \cup FindTail

(***************************************************************************)
(* newResourceDelta: every field compared.  The three reference fields are *)
(* compared as well as the fields they resolve to; the overrides of a      *)
(* mixed-instances policy are compared whole, by DeepEqual.                *)
(***************************************************************************)
DeltaBasics ==
  {"AvailabilityZoneDistribution", "AvailabilityZoneImpairmentPolicy",
   "AvailabilityZones", "CapacityRebalance", "CapacityReservationSpecification",
   "DefaultCooldown", "DefaultInstanceWarmup", "DesiredCapacity",
   "DesiredCapacityType", "HealthCheckGracePeriod", "HealthCheckType"}

DeltaLaunch ==
  {"InstanceID", "InstanceLifecyclePolicy", "InstanceMaintenancePolicy", "InstanceRef",
   "LaunchConfigurationName", "LaunchTemplate", "LifecycleHookSpecificationList",
   "LoadBalancerNames", "MaxInstanceLifetime", "MaxSize", "MinSize"}

DeltaMixed ==
  {"MIP.InstancesDistribution", "MIP.LaunchTemplateSpecification",
   "MIP.Overrides.InstanceType", "MIP.Overrides.LaunchTemplateSpecification",
   "MIP.Overrides.WeightedCapacity"} \cup CreateRequirements1 \cup CreateRequirements2

DeltaTail ==
  {"Name", "NewInstancesProtectedFromScaleIn", "PlacementGroup", "ServiceLinkedRoleARN",
   "ServiceLinkedRoleRef", "SkipZonalShiftValidation", "TargetGroupARNs",
   "TargetGroupRefs", "TerminationPolicies", "TrafficSources", "VPCZoneIdentifier"}

DeltaFields == DeltaBasics \cup DeltaLaunch \cup DeltaMixed \cup DeltaTail

(***************************************************************************)
(* The integers.  The custom resource holds int64, the API int32: a        *)
(* payload is built only when every integer in it fits, and is built by    *)
(* the Go conversion int32(x), which wraps around.                         *)
(***************************************************************************)
Int32Fields ==
  {"DefaultCooldown", "DefaultInstanceWarmup", "DesiredCapacity",
   "HealthCheckGracePeriod", "InstanceMaintenancePolicy",
   "LifecycleHookSpecificationList", "MaxInstanceLifetime", "MaxSize", "MinSize",
   "MIP.InstancesDistribution", "IR.AcceleratorCount", "IR.AcceleratorTotalMemoryMiB",
   "IR.BaselineEBSBandwidthMbps", "IR.MaxSpotPriceAsPercentageOfOptimalOnDemandPrice",
   "IR.MemoryMiB", "IR.NetworkInterfaceCount",
   "IR.OnDemandMaxPricePercentageOverLowestPrice",
   "IR.SpotMaxPricePercentageOverLowestPrice", "IR.VCPUCount"}

MinInt32 == -MaxInt32 - 1

Fits(v) == MinInt32 <= v /\ v <= MaxInt32

Narrow(v) == ((v - MinInt32) % (2 * (MaxInt32 + 1))) + MinInt32

\* Mutant: the conversion to int32 is not guarded.
MutOutOfRange(f, sent) == {}

\* The integer fields of f, among those that a payload carries, that do not fit.
OutOfRange(f, sent) ==
  {n \in DOMAIN f \cap sent \cap Int32Fields : f[n] # Nil /\ ~Fits(f[n])}

\* The value that reaches AWS for a field set in a payload.
Sent(f, n) == IF n \in Int32Fields THEN Narrow(f[n]) ELSE f[n]

(***************************************************************************)
(* What the calls do to a group.  The group is AWS's: a create sets what   *)
(* the payload sets and defaults the rest, an update changes what the      *)
(* payload sets.                                                           *)
(***************************************************************************)
Defaulted(n) == IF n \in DefaultedFields THEN DefaultValue ELSE Nil

CreatedWith(f) ==
  [n \in DOMAIN f |-> IF n \in CreateFields /\ f[n] # Nil THEN Sent(f, n)
                                                        ELSE Defaulted(n)]

UpdatedWith(f, group) ==
  [n \in DOMAIN f |-> IF n \in UpdateFields /\ f[n] # Nil THEN Sent(f, n)
                                                        ELSE group[n]]

\* Mutant: the values of the resource passed in win over those read.
MutObserved(f, group) ==
  [n \in DOMAIN f |-> IF n \in FindFields /\ f[n] = Nil THEN group[n] ELSE f[n]]

\* sdkFind: the resource passed in, with what Describe returns written over it.
Observed(f, group) ==
  [n \in DOMAIN f |-> IF n \in FindFields THEN group[n] ELSE f[n]]

\* newResourceDelta: the fields on which two resources differ.
Differing(a, b) == {n \in DOMAIN a \cap DeltaFields : a[n] # b[n]}
=============================================================================
