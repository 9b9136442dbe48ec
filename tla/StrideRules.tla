------------------------------ MODULE StrideRules ------------------------------
(***************************************************************************)
(* The catalogue of threats of threat-models/stride-rules.ts: the threats  *)
(* of each type of component, and the rules that make threats of a flow.   *)
(* Titles, descriptions and tactics are wording and left out.              *)
(***************************************************************************)
EXTENDS Naturals, Sequences

T(stride, technique, likelihood, impact) ==
  [stride |-> stride, technique |-> technique, likelihood |-> likelihood, impact |-> impact]

-----------------------------------------------------------------------------
(* Threats of a component.                                                 *)

ServerThreats == <<
  T("TAMPERING", "T1203", 3, 5), T("ELEVATION_OF_PRIVILEGE", "T1068", 3, 4),
  T("INFO_DISCLOSURE", "T1003", 3, 4), T("DENIAL_OF_SERVICE", "T1499", 2, 3),
  T("REPUDIATION", "T1070", 3, 3)>>

DatabaseThreats == <<
  T("TAMPERING", "T1190", 3, 5), T("INFO_DISCLOSURE", "T1530", 3, 5),
  T("SPOOFING", "T1078", 2, 5), T("DENIAL_OF_SERVICE", "T1499", 2, 3),
  T("TAMPERING", "T1485", 2, 5)>>

ApiGatewayThreats == <<
  T("TAMPERING", "T1590", 4, 4), T("INFO_DISCLOSURE", "T1552", 3, 4),
  T("SPOOFING", "T1078", 2, 5), T("DENIAL_OF_SERVICE", "T1110", 3, 3),
  T("ELEVATION_OF_PRIVILEGE", "T1548", 3, 4)>>

WebappThreats == <<
  T("TAMPERING", "T1059.007", 3, 3), T("SPOOFING", "T1539", 3, 4),
  T("INFO_DISCLOSURE", "T1005", 2, 4), T("TAMPERING", "T1566", 2, 3)>>

IamRoleThreats == <<
  T("ELEVATION_OF_PRIVILEGE", "T1078.004", 4, 5), T("SPOOFING", "T1552.005", 3, 5),
  T("ELEVATION_OF_PRIVILEGE", "T1484.001", 2, 5), T("INFO_DISCLOSURE", "T1552.001", 4, 4)>>

S3BucketThreats == <<
  T("INFO_DISCLOSURE", "T1530", 3, 5), T("TAMPERING", "T1583", 2, 4),
  T("DENIAL_OF_SERVICE", "T1485", 2, 4), T("INFO_DISCLOSURE", "T1048", 2, 3)>>

ActiveDirectoryThreats == <<
  T("SPOOFING", "T1550.002", 4, 5), T("SPOOFING", "T1558.003", 4, 4),
  T("ELEVATION_OF_PRIVILEGE", "T1003.006", 2, 5), T("TAMPERING", "T1484.001", 2, 5),
  T("SPOOFING", "T1558.004", 3, 4), T("INFO_DISCLOSURE", "T1087", 4, 3)>>

ContainerThreats == <<
  T("ELEVATION_OF_PRIVILEGE", "T1611", 2, 5), T("TAMPERING", "T1195.002", 3, 4),
  T("INFO_DISCLOSURE", "T1552.007", 4, 4), T("TAMPERING", "T1021", 2, 4)>>

FirewallThreats == <<
  T("TAMPERING", "T1562.007", 3, 4), T("SPOOFING", "T1078", 2, 5)>>

VpnThreats == <<
  T("SPOOFING", "T1078", 4, 4), T("INFO_DISCLOSURE", "T1572", 3, 3),
  T("TAMPERING", "T1190", 2, 5)>>

LoadBalancerThreats == <<
  T("DENIAL_OF_SERVICE", "T1498", 3, 4), T("SPOOFING", "T1036", 2, 3)>>

WorkstationThreats == <<
  T("TAMPERING", "T1566", 5, 3), T("ELEVATION_OF_PRIVILEGE", "T1078.003", 3, 3),
  T("INFO_DISCLOSURE", "T1555.003", 3, 4)>>

MessageQueueThreats == <<
  T("TAMPERING", "T1059", 2, 4), T("DENIAL_OF_SERVICE", "T1499", 2, 3)>>

IdentityProviderThreats == <<
  T("SPOOFING", "T1550.002", 2, 5), T("SPOOFING", "T1528", 3, 5),
  T("SPOOFING", "T1621", 3, 4)>>

CacheThreats == <<
  T("TAMPERING", "T1036", 2, 4), T("INFO_DISCLOSURE", "T1005", 3, 3)>>

DnsThreats == <<
  T("SPOOFING", "T1568", 2, 4), T("INFO_DISCLOSURE", "T1071.004", 2, 3)>>

MonitoringThreats == <<
  T("REPUDIATION", "T1562.001", 3, 4)>>

SwitchThreats == <<
  T("INFO_DISCLOSURE", "T1599", 2, 4), T("SPOOFING", "T1557", 2, 4)>>

CdnThreats == <<
  T("TAMPERING", "T1562", 3, 3), T("TAMPERING", "T1195.002", 1, 5)>>

COMPONENT_THREATS == [
  SERVER             |-> ServerThreats,
  DATABASE           |-> DatabaseThreats,
  API_GATEWAY        |-> ApiGatewayThreats,
  WEBAPP             |-> WebappThreats,
  IAM_ROLE           |-> IamRoleThreats,
  S3_BUCKET          |-> S3BucketThreats,
  ACTIVE_DIRECTORY   |-> ActiveDirectoryThreats,
  CONTAINER          |-> ContainerThreats,
  FIREWALL           |-> FirewallThreats,
  VPN                |-> VpnThreats,
  LOAD_BALANCER      |-> LoadBalancerThreats,
  WORKSTATION        |-> WorkstationThreats,
  MESSAGE_QUEUE      |-> MessageQueueThreats,
  IDENTITY_PROVIDER  |-> IdentityProviderThreats,
  CACHE              |-> CacheThreats,
  DNS                |-> DnsThreats,
  MONITORING         |-> MonitoringThreats,
  SWITCH             |-> SwitchThreats,
  CDN                |-> CdnThreats]

-----------------------------------------------------------------------------
(* Threats of a flow: each rule has its id, its condition and its template. *)

Cleartext == {"HTTP", "FTP", "TELNET", "SMTP", "SNMP"}

Condition(id, f) ==
  CASE id = "cleartext-transmission"  -> ~f.isEncrypted
    [] id = "mitm-trust-boundary"     -> ~f.isEncrypted /\ f.crossesTrustBoundary
    [] id = "spoofed-source-boundary" -> f.crossesTrustBoundary
    [] id = "repudiation-boundary"    -> f.crossesTrustBoundary
    [] id = "sensitive-data-exfil"    -> f.dataClassification \in {"CONFIDENTIAL", "SECRET"}
    [] id = "insecure-protocol"       -> f.protocol \in Cleartext

FLOW_THREAT_RULES == [id \in {"cleartext-transmission", "mitm-trust-boundary",
    "spoofed-source-boundary", "repudiation-boundary", "sensitive-data-exfil",
    "insecure-protocol"} |->
  CASE id = "cleartext-transmission"  -> T("INFO_DISCLOSURE", "T1040", 3, 4)
    [] id = "mitm-trust-boundary"     -> T("TAMPERING", "T1557", 3, 5)
    [] id = "spoofed-source-boundary" -> T("SPOOFING", "T1036", 2, 4)
    [] id = "repudiation-boundary"    -> T("REPUDIATION", "T1070", 3, 3)
    [] id = "sensitive-data-exfil"    -> T("INFO_DISCLOSURE", "T1048", 2, 5)
    [] id = "insecure-protocol"       -> T("INFO_DISCLOSURE", "T1040", 3, 3)]
=============================================================================
