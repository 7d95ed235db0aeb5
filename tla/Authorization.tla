---------------------------- MODULE Authorization ----------------------------
(* Roles, what each may do, and how far up the confidentiality order each may *)
(* read.                                                                      *)
EXTENDS Integers, Sequences

Roles == {"analyst", "manager", "admin"}

\* Least to most restricted.
ClearanceOrder == <<"public", "internal", "confidential", "restricted">>

Clearance(role) ==
    CASE role = "analyst" -> 2
      [] role = "manager" -> 3
      [] role = "admin"   -> 4

VisibleLevels(role) == {ClearanceOrder[i] : i \in 1 .. Clearance(role)}

AnalystPermissions ==
    {"document:upload", "document:read", "ai:query", "risk:read", "compliance:create",
     "investigation:create", "investigation:read", "analytics:read_own"}

ManagerPermissions ==
    AnalystPermissions \cup
    {"risk:review", "risk:modify_severity", "investigation:close", "approval:read",
     "approval:decide", "analytics:read_team"}

\* An administrator neither asks models nor decides approvals.
AdminPermissions ==
    {"document:read", "document:delete", "risk:read", "investigation:read",
     "approval:read", "analytics:read_team", "user:manage", "settings:manage",
     "audit:read"}

Permissions(role) ==
    CASE role = "analyst" -> AnalystPermissions
      [] role = "manager" -> ManagerPermissions
      [] role = "admin"   -> AdminPermissions
================================================================================
