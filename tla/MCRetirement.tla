---------------------------- MODULE MCRetirement ----------------------------
EXTENDS Retirement

\* An old asset that is deleted, the config file, AGENTS.md.
UpgradeKind == <<"asset", "config", "startup">>

AnyPoint == Pc \ {"idle"}
=============================================================================
