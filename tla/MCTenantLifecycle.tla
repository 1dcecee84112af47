-------------------------- MODULE MCTenantLifecycle --------------------------
EXTENDS TenantLifecycle

Terms == {1, 2}
==============================================================================
